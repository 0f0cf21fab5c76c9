----------------------------- MODULE JourneyTab -----------------------------
(***************************************************************************)
(* The campaign editor in the browser (packages/web/src/pages/             *)
(* CampaignEditor.tsx, campaign/Journey.tsx, campaign/Messages.tsx): the   *)
(* canvas is drawn from the messages that were last received, edited, and  *)
(* saved by one request per message, DELETE before PATCH before POST, with *)
(* no transaction around them.  Screens of several operators, saves that   *)
(* go on behind a tab that was left, the messages tab and running journeys *)
(* write the same rows in between.  What the handlers do with a request is *)
(* CampaignLifecycle's; here each is one step.                             *)
(***************************************************************************)
EXTENDS Integers, Sequences, FiniteSets

CONSTANTS
    Screen, NoScreen,
    Sync, NoSync,   \* saves that are under way at once
    Draft,          \* what a message may say and wait for
    BodyOf,         \* what a request says for a draft: without what its channel and condition do not use
    Unsound,        \* drafts that validate refuses wherever they stand
    Dependent,      \* those that need a message before them
    Guarded,        \* those with a condition, which is drawn as a node
    Delayed,        \* those with a delay, which is drawn as a node
    Unsendable,     \* those the server refuses
    Opener, Follower,       \* what addStep puts first, and later
    Seed,           \* messages the campaign may begin with
    MaxIds,         \* bound: messages ever made
    MaxStrokes      \* bound: edits on all screens, and rows queued meanwhile

NoId == 0
NoName == <<"none", 0>>

ASSUME JourneyTabConstants ==
    /\ NoScreen \notin Screen /\ NoSync \notin Sync
    /\ Unsound \cup Dependent \cup Guarded \cup Delayed \cup Unsendable \cup {Opener, Follower} \subseteq Draft
    /\ Guarded \subseteq Dependent /\ BodyOf \in [Draft -> Draft]
    /\ MaxIds \in Nat /\ MaxStrokes \in Nat
    /\ \A rows \in Seed :
          /\ IsFiniteSet(rows) /\ Cardinality(rows) <= MaxIds
          /\ rows \subseteq [id : 1 .. Cardinality(rows), place : Nat \ {0}, name : {NoName},
                             says : Draft, on : BOOLEAN]
          /\ \A row, other \in rows : row.id = other.id \/ row.place = other.place => row = other

VARIABLES
    lines,          \* campaign_messages of the campaign
    made,           \* the ids given out
    inQueue,        \* the messages that message_queue has rows of
    screens,        \* of each screen: its tab, messages, steps, save and refetch
    syncs,          \* the requests each save has left, and what it is to bring about
    strokes

tabVars == <<lines, made, inQueue, screens, syncs, strokes>>

\* GET /campaigns/:id/messages: ORDER BY sequence_order.
InOrder(rows) ==
    CHOOSE list \in [1 .. Cardinality(rows) -> rows] :
        \A i, j \in DOMAIN list : i < j => list[i].place < list[j].place

\* toStep: the step of a message goes by its id.
Drawn(list) ==
    [i \in DOMAIN list |-> [name |-> <<"row", list[i].id>>, id |-> list[i].id,
                            says |-> list[i].says, on |-> list[i].on]]

\* filter: what a list has at some of its places, in its order.
Kept(list, places) ==
    LET upTo[n \in 0 .. Len(list)] ==
            IF n = 0 THEN <<>> ELSE IF n \in places THEN Append(upTo[n - 1], list[n]) ELSE upTo[n - 1]
    IN  upTo[Len(list)]

Gist(list) == [i \in DOMAIN list |-> [says |-> list[i].says, on |-> list[i].on]]
Wanted(steps) == [i \in DOMAIN steps |-> [says |-> BodyOf[steps[i].says], on |-> steps[i].on]]

Fresh == [by |-> NoScreen, todo |-> <<>>, goal |-> <<>>, calm |-> FALSE]

TabInit ==
    /\ lines \in Seed /\ made = Cardinality(lines)
    /\ inQueue \in SUBSET {row.id : row \in lines}
    /\ screens = [e \in Screen |->
          [tab |-> "journey", list |-> InOrder(lines), steps |-> Drawn(InOrder(lines)), sync |-> NoSync,
           fetch |-> "none", answer |-> <<>>, mood |-> "edited"]]
    /\ syncs = [s \in Sync |-> Fresh]
    /\ strokes = 0

\* The signature of what is shown differs from that of what was received.
Dirty(e) == screens[e].steps # Drawn(screens[e].list)

-----------------------------------------------------------------------------
(* Editing the canvas *)

Stroke(e, view) ==
    /\ strokes < MaxStrokes
    /\ strokes' = strokes + 1
    /\ screens' = [screens EXCEPT ![e] = view]
    /\ UNCHANGED <<lines, made, inQueue, syncs>>

Edit(e, steps) ==
    /\ screens[e].tab = "journey"
    /\ Stroke(e, [screens[e] EXCEPT !.steps = steps, !.mood = "edited"])

AddStep(e) ==
    LET steps == screens[e].steps IN
    Edit(e, Append(steps, [name |-> <<"new", strokes>>, id |-> NoId, on |-> TRUE,
                           says |-> IF steps = <<>> THEN Opener ELSE Follower]))

PatchStep(e) ==
    \E i \in DOMAIN screens[e].steps :
        \/ \E says \in Draft : Edit(e, [screens[e].steps EXCEPT ![i].says = says])
        \/ Edit(e, [screens[e].steps EXCEPT ![i].on = ~@])

RemoveStep(e) ==
    \E gone \in DOMAIN screens[e].steps :
        Edit(e, Kept(screens[e].steps, DOMAIN screens[e].steps \ {gone}))

\* To the messages tab and back: the canvas is drawn anew, what was not saved is
\* gone, and a save that is under way goes on without its button.
SwitchTab(e) ==
    Stroke(e, [screens[e] EXCEPT !.tab = IF @ = "journey" THEN "messages" ELSE "journey",
                                 !.steps = Drawn(screens[e].list), !.sync = NoSync, !.mood = "edited"])

-----------------------------------------------------------------------------
(* A save: validate, linearise, sync *)

\* The nodes that validate draws a problem on.
ProblemNodes(steps) ==
    IF steps = <<>> THEN {<<"trigger", 0>>}
    ELSE {steps[i].name : i \in {j \in DOMAIN steps : \/ steps[j].says \in Unsound
                                                      \/ j = 1 /\ steps[j].says \in Dependent}}

\* bodyOf each step, at its place in the list: no subject but of an e-mail, no
\* branch without a condition, and "yes" where a condition has none.
Bodies(op, steps) ==
    [i \in DOMAIN steps |-> [op |-> op, place |-> i, id |-> steps[i].id, name |-> steps[i].name,
                             says |-> BodyOf[steps[i].says], on |-> steps[i].on]]

Removed(steps, list) ==
    Kept(Drawn(list), {k \in DOMAIN list : \A i \in DOMAIN steps : steps[i].id # list[k].id})
Stored(steps) == {i \in DOMAIN steps : steps[i].id # NoId}

\* Mutant of SyncPlan: what is new is written first.
SyncPlanCreatesFirst(steps, list) ==
    Kept(Bodies("POST", steps), DOMAIN steps \ Stored(steps))
    \o Bodies("DELETE", Removed(steps, list))
    \o Kept(Bodies("PATCH", steps), Stored(steps))

\* linearise; a delete frees the number that a later request wants.
SyncPlan(steps, list) ==
    Bodies("DELETE", Removed(steps, list))
    \o Kept(Bodies("PATCH", steps), Stored(steps))
    \o Kept(Bodies("POST", steps), DOMAIN steps \ Stored(steps))

\* The plan is made of what the screen shows at the click.  It is calm as long as
\* it started from what the database has, deletes nothing that has been queued,
\* and nobody else writes.
ClickSave(e, s) ==
    LET view == screens[e]  plan == SyncPlan(view.steps, view.list) IN
    /\ view.tab = "journey" /\ view.sync = NoSync /\ Dirty(e) /\ ProblemNodes(view.steps) = {}
    /\ syncs[s] = Fresh
    /\ syncs' = [syncs EXCEPT ![s] =
          [by |-> e, todo |-> plan, goal |-> Wanted(view.steps),
           calm |-> /\ view.list = InOrder(lines)
                    /\ \A i \in DOMAIN plan : plan[i].op = "DELETE" => plan[i].id \notin inQueue]]
    /\ screens' = [screens EXCEPT ![e].sync = s, ![e].mood = "saving"]
    /\ UNCHANGED <<lines, made, inQueue, strokes>>

\* UNIQUE (campaign_id, sequence_order) and (campaign_id, node_id).
Clash(ask) ==
    \E row \in lines : row.id # ask.id /\ (row.place = ask.place \/ (ask.name # NoName /\ row.name = ask.name))

\* 404, 422 or 409.
Denied(ask) ==
    \/ ask.op # "POST" /\ \A row \in lines : row.id # ask.id
    \/ ask.op # "DELETE" /\ (ask.says \in Unsendable \/ Clash(ask))

Written(ask, id) == [id |-> id, place |-> ask.place, name |-> ask.name, says |-> ask.says, on |-> ask.on]

\* The rows a granted request leaves; what has been queued is switched off.
Granted(ask) ==
    LET target == {row \in lines : row.id = ask.id}
        others == lines \ target
    IN  CASE ask.op = "POST" -> lines \cup {Written(ask, made + 1)}
          [] ask.op = "PATCH" -> others \cup {Written(ask, ask.id)}
          [] ask.op = "DELETE" /\ ask.id \in inQueue -> others \cup {[row EXCEPT !.on = FALSE] : row \in target}
          [] ask.op = "DELETE" /\ ask.id \notin inQueue -> others

\* A request is granted and written.
Writes(ask) ==
    /\ ~Denied(ask) /\ (ask.op = "POST" => made < MaxIds)
    /\ lines' = Granted(ask)
    /\ made' = IF ask.op = "POST" THEN made + 1 ELSE made
    /\ UNCHANGED inQueue

\* After a write of save s, or of no save, the others are calm no more, and what
\* other screens show is not all there is.
Stirred(s) == [t \in Sync |-> IF t = s THEN syncs[t] ELSE [syncs[t] EXCEPT !.calm = FALSE]]
Unsettled(s) ==
    [e \in Screen |-> IF s # NoSync /\ screens[e].sync = s THEN screens[e] ELSE [screens[e] EXCEPT !.mood = "edited"]]

SyncStep(s) ==
    LET sync == syncs[s] IN
    /\ sync.todo # <<>>
    /\ Writes(Head(sync.todo))
    /\ syncs' = [Stirred(s) EXCEPT ![s].todo = Tail(@)]
    /\ screens' = Unsettled(s)
    /\ UNCHANGED strokes

\* onError: the rest of the plan is dropped and nothing is read again; the button
\* is released if its canvas is still there.
GivesBack(s, views) ==
    [e \in Screen |-> IF views[e].sync = s THEN [views[e] EXCEPT !.sync = NoSync, !.mood = "edited"] ELSE views[e]]

SyncFails(s) ==
    LET sync == syncs[s] IN
    /\ sync.todo # <<>>
    /\ \/ /\ UNCHANGED <<lines, made, inQueue>>
          /\ syncs' = [syncs EXCEPT ![s] = Fresh] /\ screens' = GivesBack(s, screens)
       \/ /\ Writes(Head(sync.todo))    \* and its answer is lost
          /\ syncs' = [Stirred(s) EXCEPT ![s] = Fresh] /\ screens' = GivesBack(s, Unsettled(s))
    /\ UNCHANGED strokes

\* onSuccess: reload.
SyncLands(s) ==
    LET sync == syncs[s]  e == sync.by IN
    /\ e # NoScreen /\ sync.todo = <<>>
    /\ syncs' = [syncs EXCEPT ![s] = Fresh]
    /\ screens' = [screens EXCEPT
          ![e].fetch = "asked",
          ![e].sync = IF @ = s THEN NoSync ELSE @,
          ![e].mood = IF screens[e].sync = s /\ @ = "saving" THEN "landed" ELSE "edited"]
    /\ UNCHANGED <<lines, made, inQueue, strokes>>

-----------------------------------------------------------------------------
(* What is received *)

ReadLines(e) ==
    /\ screens[e].fetch = "asked"
    /\ screens' = [screens EXCEPT ![e].fetch = "answered", ![e].answer = InOrder(lines)]
    /\ UNCHANGED <<lines, made, inQueue, syncs, strokes>>

\* The steps are seeded again when the answer differs from the one before it,
\* over whatever has been edited; the same answer leaves them.
ReceiveLines(e) ==
    LET view == screens[e]
        differs == Drawn(view.answer) # Drawn(view.list)
    IN  /\ view.fetch = "answered"
        /\ screens' = [screens EXCEPT
              ![e].list = view.answer, ![e].answer = <<>>, ![e].fetch = "none",
              ![e].mood = IF view.mood = "landed" THEN "settled" ELSE view.mood,
              ![e].steps = IF differs THEN Drawn(view.answer) ELSE view.steps]
        /\ UNCHANGED <<lines, made, inQueue, syncs, strokes>>

-----------------------------------------------------------------------------
(* The messages tab, and running journeys *)

Highest(list) == IF list = <<>> THEN 0 ELSE list[Len(list)].place

\* A message at the end of the list as it was received, or one column of a message
\* of that list.
Listed(list) == {row \in lines : \E i \in DOMAIN list : list[i].id = row.id}
TabRequests(list) ==
    {[op |-> "POST", id |-> NoId, place |-> Highest(list) + 1, name |-> NoName, says |-> Opener, on |-> TRUE]}
    \cup {[op |-> "PATCH", id |-> row.id, place |-> row.place, name |-> row.name, says |-> says, on |-> row.on] :
             says \in Draft, row \in Listed(list)}
    \cup {[op |-> "PATCH", id |-> row.id, place |-> row.place, name |-> row.name, says |-> row.says, on |-> on] :
             on \in BOOLEAN, row \in Listed(list)}

MessagesTab(e) ==
    /\ screens[e].tab = "messages" /\ strokes < MaxStrokes
    /\ strokes' = strokes + 1
    /\ \E ask \in TabRequests(screens[e].list) : Writes(ask)
    /\ syncs' = Stirred(NoSync)
    /\ screens' = [Unsettled(NoSync) EXCEPT ![e].fetch = "asked", ![e].answer = <<>>]

\* A journey queues a message; a save that is to delete it will not.
QueueLine(row) ==
    /\ row.on /\ row.id \notin inQueue /\ strokes < MaxStrokes
    /\ strokes' = strokes + 1
    /\ inQueue' = inQueue \cup {row.id}
    /\ syncs' = [s \in Sync |->
          [syncs[s] EXCEPT !.calm = @ /\ \A i \in DOMAIN syncs[s].todo :
                                            syncs[s].todo[i].op = "DELETE" => syncs[s].todo[i].id # row.id]]
    /\ UNCHANGED <<lines, made, screens>>

TabNext ==
    \/ \E e \in Screen :
          \/ AddStep(e) \/ PatchStep(e) \/ RemoveStep(e) \/ SwitchTab(e)
          \/ ReadLines(e) \/ ReceiveLines(e) \/ MessagesTab(e)
          \/ \E s \in Sync : ClickSave(e, s)
    \/ \E s \in Sync : SyncStep(s) \/ SyncFails(s) \/ SyncLands(s)
    \/ \E row \in lines : QueueLine(row)

TabSpec == TabInit /\ [][TabNext]_tabVars

-----------------------------------------------------------------------------
(* The graph *)

SlotsOf(step) ==
    (IF step.says \in Delayed THEN <<<<step.name, "delay">>>> ELSE <<>>)
    \o (IF step.says \in Guarded THEN <<<<step.name, "condition">>>> ELSE <<>>)
    \o <<<<step.name, "send">>>>

Slots(steps) ==
    LET upTo[n \in 0 .. Len(steps)] == IF n = 0 THEN <<>> ELSE upTo[n - 1] \o SlotsOf(steps[n])
    IN  upTo[Len(steps)]

SlotAt(slots, i) == IF i \in DOMAIN slots THEN slots[i] ELSE <<NoName, "exit">>

\* What is skipped is the slot after the condition.
Links(slots) ==
    {<<<<NoName, "trigger">>, "on", SlotAt(slots, 1)>>}
    \cup {<<slots[i], IF slots[i][2] = "condition" THEN "yes" ELSE "on", SlotAt(slots, i + 1)>> : i \in DOMAIN slots}
    \cup {<<slots[i], "no", SlotAt(slots, i + 2)>> : i \in {j \in DOMAIN slots : slots[j][2] = "condition"}}

-----------------------------------------------------------------------------
(* Properties *)

TabTypeOK ==
    /\ \A row \in lines : row.id \in 1 .. made /\ row.place \in Nat \ {0} /\ row.says \in Draft
    /\ \A row, other \in lines : row.id = other.id \/ row.place = other.place => row = other
    /\ made \in 0 .. MaxIds /\ inQueue \subseteq 1 .. made /\ strokes \in 0 .. MaxStrokes
    /\ \A e \in Screen :
          /\ screens[e].tab \in {"journey", "messages"} /\ screens[e].sync \in Sync \cup {NoSync}
          /\ screens[e].fetch \in {"none", "asked", "answered"}
          /\ screens[e].mood \in {"edited", "saving", "landed", "settled"}
          /\ screens[e].sync # NoSync => syncs[screens[e].sync].by = e
    /\ \A s \in Sync : syncs[s].by \in Screen \cup {NoScreen}

(***************************************************************************)
(* Journey.tsx, "deletes first: a delete frees the sequence_order a later  *)
(* create may want": a save that nobody disturbs is stopped by nothing but *)
(* a draft the server will not send, and when it lands the database has    *)
(* the canvas, as its requests said it, numbered from 1.                   *)
(***************************************************************************)
CalmSaveLands ==
    \A s \in Sync : syncs[s].by # NoScreen /\ syncs[s].calm =>
        IF syncs[s].todo = <<>>
        THEN /\ Gist(InOrder(lines)) = syncs[s].goal
             /\ {row.place : row \in lines} = DOMAIN syncs[s].goal
        ELSE LET ask == Head(syncs[s].todo)
             IN  Denied(ask) => ask.op # "DELETE" /\ ask.says \in Unsendable

(***************************************************************************)
(* Journey.tsx, "a Save button that goes quiet after a successful write":  *)
(* after a save during which nobody else wrote or typed, and whose rows    *)
(* have been received, the canvas is what is stored.  There are two        *)
(* exceptions, after which the answer is the same as before, nothing is    *)
(* seeded again and the button stays lit: a message that was switched off  *)
(* already when it was removed stays, and a step may still hold what its   *)
(* request left out (onChange({ channel }) keeps the subject of an e-mail  *)
(* that becomes an SMS), while what is stored is what the request said.    *)
(***************************************************************************)
ButtonGoesQuiet ==
    \A e \in Screen : screens[e].mood = "settled" =>
        /\ screens[e].list = InOrder(lines)
        /\ Dirty(e) =>
              LET steps == screens[e].steps
                  gone == Removed(steps, screens[e].list)
              IN  /\ gone # <<>> \/ \E i \in DOMAIN steps : BodyOf[steps[i].says] # steps[i].says
                  /\ \A i \in DOMAIN gone : ~gone[i].on /\ gone[i].id \in inQueue
                  /\ \A i \in DOMAIN steps : \E row \in lines :
                        row.id = steps[i].id /\ row.says = BodyOf[steps[i].says] /\ row.on = steps[i].on

(***************************************************************************)
(* Journey.tsx, "skip exactly one message and rejoin": the graph that is   *)
(* drawn leads through every step in the order of the list, and the "no"   *)
(* of a condition to where its own message would have gone on.             *)
(***************************************************************************)
GraphIsTheSequence ==
    \A e \in Screen :
        LET steps == screens[e].steps
            links == Links(Slots(steps))
            Begin(i) == IF i > Len(steps) THEN <<NoName, "exit">> ELSE SlotsOf(steps[i])[1]
        IN  /\ \A i \in DOMAIN steps : \A link \in links :
                  /\ link[1] = <<steps[i].name, "send">> => link[3] = Begin(i + 1)
                  /\ link[1] = <<steps[i].name, "condition">> =>
                        link[3] = IF link[2] = "yes" THEN <<steps[i].name, "send">> ELSE Begin(i + 1)
            /\ \A link \in links : link[1] = <<NoName, "trigger">> => link[3] = Begin(1)
=============================================================================
