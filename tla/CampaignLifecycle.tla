------------------------- MODULE CampaignLifecycle -------------------------
(***************************************************************************)
(* One campaign under the operators who edit it                            *)
(* (packages/api/src/routes/campaigns.ts, routes/flow.ts and               *)
(* services/campaigns.ts).  Every endpoint first loads the campaign on the *)
(* pool, decides on what it read, and then writes by id with no guard on   *)
(* what it had read; activation, duplication, test sends and the journey   *)
(* canvas write in a transaction at READ COMMITTED.  The journeys that are *)
(* running queue rows of its messages at any time.                         *)
(***************************************************************************)
EXTENDS Integers, Sequences, FiniteSets, FiniteSetsExt

CONSTANTS
    Operator,       \* operators with a request under way
    Hand, Node,     \* messages written by hand, and those of canvas nodes
    Flows,          \* journeys that are saved: sequences of distinct nodes
    NoMessage,
    MaxRequests,    \* bound: requests of all operators together
    MaxQueued       \* bound: rows queued by running journeys

CampaignMessage == Hand \cup Node
CampaignCategory == {"promotional", "transactional"}
Text == CampaignMessage \X BOOLEAN      \* a message, and whether its text has an opt-out
MessageRow == [seq : Nat \ {0}, optOut : BOOLEAN, enabled : BOOLEAN]

ASSUME CampaignConstants ==
    /\ NoMessage \notin CampaignMessage \cup MessageRow
    /\ Hand \cap Node = {} /\ IsFiniteSet(CampaignMessage)
    /\ Flows \subseteq Seq(Node)
    /\ MaxRequests \in Nat /\ MaxQueued \in Nat

VARIABLES
    status, category,
    message,        \* campaign_messages; the id of a canvas message is its node
    flow,           \* flow_definition
    versions,       \* campaign_versions, by number
    active,         \* active_version_id, 0 for none
    queued,          \* rows of message_queue: the message, its version, its text
    copies,         \* what duplication copied
    desk,           \* the request each operator has under way
    requests,
    raced           \* history: a write was decided on what no longer held

table == <<status, category, message, flow, versions, active, queued, copies>>
campaignVars == <<table, desk, requests, raced>>

Present == {m \in CampaignMessage : message[m] # NoMessage}
Enabled == {m \in Present : message[m].enabled}
Taken == {message[m].seq : m \in Present}
Texts == {<<m, message[m].optOut>> : m \in Enabled}

\* What validateTemplate refuses: a marketing message without an opt-out.
Valid(optOut, cat) == cat = "transactional" \/ optOut
AllValid(texts, cat) == \A text \in texts : Valid(text[2], cat)
Sendable(shot) == shot.texts # {} /\ AllValid(shot.texts, shot.category)

Blank == [category |-> "transactional", texts |-> {}]
NoChange == [of |-> "nothing", to |-> FALSE]
Off == [op |-> "none", at |-> "off", on |-> NoMessage, wants |-> "transactional",
        change |-> NoChange, flow |-> << >>, optOut |-> FALSE,
        category |-> "transactional", texts |-> {}, optOutSeen |-> FALSE,
        shot |-> Blank, number |-> 0, plan |-> {}, visible |-> {}]

CampaignInit ==
    /\ status = "draft" /\ category \in CampaignCategory
    /\ \E optOut \in BOOLEAN, h \in Hand :
          /\ Valid(optOut, category)
          /\ message = [m \in CampaignMessage |->
                IF m = h THEN [seq |-> 1, optOut |-> optOut, enabled |-> TRUE] ELSE NoMessage]
    /\ flow = << >> /\ versions = << >> /\ active = 0 /\ queued = {} /\ copies = {}
    /\ desk = [o \in Operator |-> Off]
    /\ requests = 0 /\ raced = FALSE

-----------------------------------------------------------------------------
(* A request: it loads the campaign, and is answered in the end *)

\* loadCampaign: the category it decides by is that of this moment.
Load(o, request) ==
    /\ desk[o] = Off /\ requests < MaxRequests
    /\ requests' = requests + 1
    /\ desk' = [desk EXCEPT ![o] = [request EXCEPT !.category = category]]
    /\ UNCHANGED <<table, raced>>

Does(o, op, at) == desk[o].op = op /\ desk[o].at = at
Done(o) == desk' = [desk EXCEPT ![o] = Off]
Proceeds(o, news) == desk' = [desk EXCEPT ![o] = news]

\* 404, 409, 422 or a violated constraint: nothing was written.
Refused(o) == Done(o) /\ UNCHANGED <<table, requests, raced>>

\* A flow save that parked its rows holds their locks until it commits.
Saving == {o \in Operator : Does(o, "flow", "commit") /\ desk[o].visible # {}}
Free(m) == \A o \in Saving : m \notin desk[o].visible

Archive(o) ==
    \/ Load(o, [Off EXCEPT !.op = "archive", !.at = "write"])
    \/ /\ Does(o, "archive", "write") /\ Done(o)
       /\ status' = "archived"
       /\ UNCHANGED <<category, message, flow, versions, active, queued, copies, requests, raced>>

\* Refused for a campaign that is archived, at the time it is loaded.
PauseCampaign(o) ==
    \/ status # "archived" /\ Load(o, [Off EXCEPT !.op = "pause", !.at = "write"])
    \/ /\ Does(o, "pause", "write") /\ Done(o)
       /\ status' = "paused"
       /\ UNCHANGED <<category, message, flow, versions, active, queued, copies, requests, raced>>

\* Mutant of CheckMessages: the category is changed as any other column.
CheckNothing(o) ==
    /\ Does(o, "patch", "check")
    /\ Proceeds(o, [desk[o] EXCEPT !.at = "write", !.texts = Texts])
    /\ UNCHANGED <<table, requests, raced>>

\* assertAllMessagesValidFor the new category, if it is one.
CheckMessages(o) ==
    /\ Does(o, "patch", "check")
    /\ IF AllValid(Texts, desk[o].wants)
       THEN /\ Proceeds(o, [desk[o] EXCEPT !.at = "write", !.texts = Texts])
            /\ UNCHANGED <<table, requests, raced>>
       ELSE Refused(o)

PatchCampaign(o) ==
    \/ \E cat \in CampaignCategory :
          Load(o, [Off EXCEPT !.op = "patch", !.wants = cat, !.at = IF cat = category THEN "write" ELSE "check"])
    \/ CheckMessages(o)
    \/ /\ Does(o, "patch", "write") /\ Done(o)
       /\ category' = desk[o].wants
       /\ raced' = \/ raced \/ desk[o].category # category
                   \/ (desk[o].wants # desk[o].category /\ desk[o].texts # Texts)
       /\ UNCHANGED <<status, message, flow, versions, active, queued, copies, requests>>

-----------------------------------------------------------------------------
(* Activation, test sends and copies *)

\* Mutant of Validate: messages are not looked at again when they are there.
ValidateCount(o) ==
    /\ Does(o, "activate", "validate")
    /\ IF Present # {}
       THEN /\ Proceeds(o, [desk[o] EXCEPT !.at = "snapshot", !.texts = Texts])
            /\ UNCHANGED <<table, requests, raced>>
       ELSE Refused(o)

\* validateForActivation, outside the transaction.
Validate(o) ==
    /\ Does(o, "activate", "validate")
    /\ IF Sendable([category |-> desk[o].category, texts |-> Texts])
       THEN /\ Proceeds(o, [desk[o] EXCEPT !.at = "snapshot", !.texts = Texts])
            /\ UNCHANGED <<table, requests, raced>>
       ELSE Refused(o)

\* snapshotCampaign: it reads the campaign again, and takes the next number.
Snapshot(o) ==
    /\ desk[o].at = "snapshot"
    /\ Proceeds(o, [desk[o] EXCEPT !.at = "commit", !.number = Len(versions) + 1,
                !.shot = [category |-> category, texts |-> Texts]])
    /\ UNCHANGED <<table, requests, raced>>

\* UNIQUE (campaign_id, version): of two with one number the later rolls back.
NumberFree(o) == desk[o].number = Len(versions) + 1

Activate(o) ==
    \/ Load(o, [Off EXCEPT !.op = "activate", !.at = "validate"])
    \/ Validate(o)
    \/ /\ Does(o, "activate", "commit") /\ NumberFree(o) /\ Done(o)
       /\ status' = "active"
       /\ versions' = Append(versions, desk[o].shot) /\ active' = desk[o].number
       /\ raced' = (raced \/ desk[o].shot # [category |-> desk[o].category, texts |-> desk[o].texts])
       /\ UNCHANGED <<category, message, flow, queued, copies, requests>>
    \/ Does(o, "activate", "commit") /\ ~NumberFree(o) /\ Refused(o)

QueueEntry(m, version, optOut) == [message |-> m, version |-> version, optOut |-> optOut]

\* A test send queues a row for the version it loaded, or for a snapshot it
\* makes; the message may be gone by then (foreign key).
TestSend(o) ==
    \/ \E m \in Enabled :
          Load(o, [Off EXCEPT !.op = "test", !.on = m, !.optOut = message[m].optOut, !.number = active,
                   !.at = IF active = 0 THEN "snapshot" ELSE "queue"])
    \/ LET own == desk[o].at = "commit" IN
       /\ Does(o, "test", "commit") \/ Does(o, "test", "queue")
       /\ IF desk[o].on \in Present /\ (own => NumberFree(o))
          THEN /\ versions' = IF own THEN Append(versions, desk[o].shot) ELSE versions
               /\ queued' = queued \cup {QueueEntry(desk[o].on, desk[o].number, desk[o].optOut)}
               /\ Done(o)
               /\ UNCHANGED <<status, category, message, flow, active, copies, requests, raced>>
          ELSE Refused(o)

\* The campaign and its messages are copied by two statements of one transaction.
Duplicate(o) ==
    \/ Load(o, [Off EXCEPT !.op = "duplicate", !.at = "campaign"])
    \/ /\ Does(o, "duplicate", "campaign")
       /\ Proceeds(o, [desk[o] EXCEPT !.at = "messages", !.wants = category])
       /\ UNCHANGED <<table, requests, raced>>
    \/ /\ Does(o, "duplicate", "messages") /\ Done(o)
       /\ copies' = copies \cup {[category |-> desk[o].wants, texts |-> Texts]}
       /\ raced' = (raced \/ desk[o].wants # category)
       /\ UNCHANGED <<status, category, message, flow, versions, active, queued, requests>>

-----------------------------------------------------------------------------
(* Messages *)

\* A new message is validated in the category that was loaded; its number may be
\* taken, also by a save of the canvas that must first end.
PostMessage(o) ==
    \/ \E m \in Hand \ Present, optOut \in BOOLEAN :
          /\ Valid(optOut, category)
          /\ Load(o, [Off EXCEPT !.op = "post", !.at = "insert", !.on = m, !.optOut = optOut])
    \/ \E seq \in 1..Cardinality(CampaignMessage), enabled \in BOOLEAN :
       /\ Does(o, "post", "insert")
       /\ IF seq \in Taken \/ desk[o].on \in Present
          THEN Saving = {} /\ Refused(o)
          ELSE /\ Done(o)
               /\ message' = [message EXCEPT ![desk[o].on] =
                                [seq |-> seq, optOut |-> desk[o].optOut, enabled |-> enabled]]
               /\ raced' = (raced \/ desk[o].category # category)
               /\ UNCHANGED <<status, category, flow, versions, active, queued, copies, requests>>

\* One column of a message is changed; UNIQUE (campaign_id, sequence_order).
Change == [of : {"optOut", "enabled"}, to : BOOLEAN] \cup [of : {"seq"}, to : 1..Cardinality(CampaignMessage)]
Changed(row, change) ==
    CASE change.of = "optOut" -> [row EXCEPT !.optOut = change.to]
      [] change.of = "enabled" -> [row EXCEPT !.enabled = change.to]
      [] change.of = "seq" -> [row EXCEPT !.seq = change.to]
NumberTaken(row, change) == change.of = "seq" /\ change.to \in Taken \ {row.seq}

\* The result of the change is validated in the category that was loaded.
PatchMessage(o) ==
    \/ \E m \in Present, change \in Change :
          Load(o, [Off EXCEPT !.op = "edit", !.at = "read", !.on = m, !.change = change])
    \/ LET row == message[desk[o].on] IN
       /\ Does(o, "edit", "read")
       /\ IF desk[o].on \in Present /\ Valid(Changed(row, desk[o].change).optOut, desk[o].category)
          THEN /\ Proceeds(o, [desk[o] EXCEPT !.at = "write", !.optOutSeen = row.optOut])
               /\ UNCHANGED <<table, requests, raced>>
          ELSE Refused(o)
    \/ LET row == message[desk[o].on] IN
       /\ Does(o, "edit", "write") /\ Free(desk[o].on)
       /\ IF desk[o].on \in Present /\ ~NumberTaken(row, desk[o].change)
          THEN /\ message' = [message EXCEPT ![desk[o].on] = Changed(row, desk[o].change)]
               /\ raced' = (raced \/ desk[o].category # category \/ desk[o].optOutSeen # row.optOut)
               /\ Done(o)
               /\ UNCHANGED <<status, category, flow, versions, active, queued, copies, requests>>
          ELSE (desk[o].on \in Present => Saving = {}) /\ Refused(o)

\* Mutant of Erase: the rows have no foreign key.
EraseMessage(o) ==
    /\ Does(o, "delete", "erase") /\ Free(desk[o].on)
    /\ message' = [message EXCEPT ![desk[o].on] = NoMessage]
    /\ Done(o)
    /\ UNCHANGED <<status, category, flow, versions, active, queued, copies, requests, raced>>

\* ON DELETE CASCADE: a row that was queued since the rows were counted goes too.
Erase(o) ==
    /\ Does(o, "delete", "erase") /\ Free(desk[o].on)
    /\ message' = [message EXCEPT ![desk[o].on] = NoMessage]
    /\ queued' = {row \in queued : row.message # desk[o].on}
    /\ Done(o)
    /\ UNCHANGED <<status, category, flow, versions, active, copies, requests, raced>>

\* A message with rows is disabled, one without is deleted.
DeleteMessage(o) ==
    \/ \E m \in Present : Load(o, [Off EXCEPT !.op = "delete", !.at = "count", !.on = m])
    \/ /\ Does(o, "delete", "count")
       /\ Proceeds(o, [desk[o] EXCEPT !.at = IF \E row \in queued : row.message = desk[o].on
                                              THEN "disable" ELSE "erase"])
       /\ UNCHANGED <<table, requests, raced>>
    \/ /\ Does(o, "delete", "disable") /\ Free(desk[o].on)
       /\ IF desk[o].on \in Present
          THEN /\ message' = [message EXCEPT ![desk[o].on].enabled = FALSE] /\ Done(o)
               /\ UNCHANGED <<status, category, flow, versions, active, queued, copies, requests, raced>>
          ELSE Refused(o)
    \/ Erase(o)

-----------------------------------------------------------------------------
(* The canvas: PUT /campaigns/:id/flow *)

Nodes(o) == {desk[o].flow[i] : i \in DOMAIN desk[o].flow}
Place(o, n) == CHOOSE i \in DOMAIN desk[o].flow : desk[o].flow[i] = n

\* The transaction reads which messages there are.
ReadPlan(o) ==
    /\ Does(o, "flow", "plan")
    /\ Proceeds(o, [desk[o] EXCEPT !.at = "park", !.plan = Present])
    /\ UNCHANGED <<table, requests, raced>>

\* All numbers are made negative: the statement sees the rows of this moment,
\* and may have to wait for another save that holds them.
Park(o) ==
    \/ /\ Does(o, "flow", "park")
       /\ Proceeds(o, [desk[o] EXCEPT !.visible = Present,
                                      !.at = IF Saving = {} \/ Present = {} THEN "commit" ELSE "wait"])
       /\ UNCHANGED <<table, requests, raced>>
    \/ /\ Does(o, "flow", "wait") /\ Saving = {}
       /\ Proceeds(o, [desk[o] EXCEPT !.at = "commit"])
       /\ UNCHANGED <<table, requests, raced>>

\* Rows that came after the parking keep their numbers, and may be in the way.
Collides(o) ==
    \/ (Nodes(o) \ desk[o].plan) \cap Present # {}
    \/ \E m \in Present \ (desk[o].visible \cup Nodes(o)) : message[m].seq \in DOMAIN desk[o].flow

\* The parked rows that no node claims go above the live numbers, in their order.
Orphans(o) == (Present \cap desk[o].visible) \ Nodes(o)
Above(o, m) ==
    LET live == DOMAIN desk[o].flow \cup {message[s].seq : s \in Present \ (desk[o].visible \cup Nodes(o))}
    IN  Max(live \cup {0}) + Cardinality({k \in Orphans(o) : message[k].seq <= message[m].seq})

\* Mutant of SyncedRow: an orphan returns to the number it was parked from.
SyncedRowRestored(o, m) ==
    CASE m \in Nodes(o) /\ (m \in Present \/ m \notin desk[o].plan) ->
            [seq |-> Place(o, m), optOut |-> desk[o].optOut, enabled |-> TRUE]
      [] m \in Orphans(o) -> [message[m] EXCEPT !.enabled = FALSE]
      [] OTHER -> message[m]

\* Mutant of SyncedRow: messages that were taken out before are not put back.
SyncedRowAsWas(o, m) ==
    CASE m \in Nodes(o) /\ (m \in Present \/ m \notin desk[o].plan) ->
            [seq |-> Place(o, m), optOut |-> desk[o].optOut,
             enabled |-> IF m \in Present THEN message[m].enabled ELSE TRUE]
      [] m \in Orphans(o) -> [message[m] EXCEPT !.seq = Above(o, m), !.enabled = FALSE]
      [] OTHER -> message[m]

SyncedRow(o, m) ==
    CASE m \in Nodes(o) /\ (m \in Present \/ m \notin desk[o].plan) ->
            [seq |-> Place(o, m), optOut |-> desk[o].optOut, enabled |-> TRUE]
      [] m \in Orphans(o) -> [message[m] EXCEPT !.seq = Above(o, m), !.enabled = FALSE]
      [] OTHER -> message[m]

SaveFlow(o) ==
    \/ \E f \in Flows, optOut \in BOOLEAN :
          /\ Valid(optOut, category)
          /\ Load(o, [Off EXCEPT !.op = "flow", !.at = "plan", !.flow = f, !.optOut = optOut])
    \/ ReadPlan(o)
    \/ Park(o)
    \/ Does(o, "flow", "commit") /\ Collides(o) /\ Refused(o)
    \/ /\ Does(o, "flow", "commit") /\ ~Collides(o) /\ Done(o)
       /\ message' = [m \in CampaignMessage |-> SyncedRow(o, m)]
       /\ flow' = desk[o].flow
       /\ raced' = (raced \/ desk[o].category # category)
       /\ UNCHANGED <<status, category, versions, active, queued, copies, requests>>

\* A running journey queues a row of an enabled message, with the text it has now
\* and the version that is active.
Journey(m) ==
    /\ status = "active" /\ m \in Enabled /\ Cardinality(queued) < MaxQueued
    /\ queued' = queued \cup {QueueEntry(m, active, message[m].optOut)}
    /\ UNCHANGED <<status, category, message, flow, versions, active, copies, desk, requests, raced>>

CampaignNext ==
    \/ \E o \in Operator :
          \/ Archive(o) \/ PauseCampaign(o) \/ PatchCampaign(o)
          \/ Activate(o) \/ Snapshot(o) \/ TestSend(o) \/ Duplicate(o)
          \/ PostMessage(o) \/ PatchMessage(o) \/ DeleteMessage(o) \/ SaveFlow(o)
    \/ \E m \in CampaignMessage : Journey(m)

CampaignSpec == CampaignInit /\ [][CampaignNext]_campaignVars

-----------------------------------------------------------------------------
CampaignTypeOK ==
    /\ status \in {"draft", "active", "paused", "archived"} /\ category \in CampaignCategory
    /\ message \in [CampaignMessage -> MessageRow \cup {NoMessage}]
    /\ flow \in Flows \cup {<< >>}
    /\ \A n \in DOMAIN versions : versions[n] \in [category : CampaignCategory, texts : SUBSET Text]
    /\ active \in 0..Len(versions) /\ (status = "active" => active # 0)
    /\ \A row \in queued : row.message \in Present /\ row.version \in DOMAIN versions
    /\ copies \subseteq [category : CampaignCategory, texts : SUBSET Text]
    /\ requests \in 0..MaxRequests /\ raced \in BOOLEAN

(***************************************************************************)
(* I7: no sequence of requests, through whichever of the six routes that   *)
(* write templates or categories, leaves the campaign or a copy of it a    *)
(* marketing message without an opt-out; only a write decided on what      *)
(* another request has since changed can.                                  *)
(***************************************************************************)
MarketingOptOut ==
    raced \/ (/\ AllValid(Texts, category)
              /\ \A copy \in copies : AllValid(copy.texts, copy.category))

(***************************************************************************)
(* What is frozen as the active version is what was validated: not empty,  *)
(* and with its opt-outs (activation reads the campaign again after it     *)
(* validated it, and test sends take version numbers in between).          *)
(***************************************************************************)
ActiveVersionSendable == raced \/ active = 0 \/ Sendable(versions[active])

(***************************************************************************)
(* No two messages of a campaign have one number, through any saves of the *)
(* canvas that park, insert, disable and give numbers back.                *)
(***************************************************************************)
NumbersDistinct ==
    \A m, k \in Present : m # k => message[m].seq # message[k].seq

(***************************************************************************)
(* A saved journey is what runs: its nodes enabled, in its order, nothing  *)
(* else enabled; unless a message came or went while it was being saved.   *)
(***************************************************************************)
SavedFlowRuns ==
    [][\A o \in Operator :
          /\ Does(o, "flow", "commit") /\ desk'[o] = Off /\ ~Collides(o)
          /\ desk[o].plan = Present /\ desk[o].visible = Present
          => /\ Enabled' = Nodes(o)
             /\ \A n \in Nodes(o) : message'[n].seq = Place(o, n)]_campaignVars
=============================================================================
