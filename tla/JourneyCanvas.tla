--------------------------- MODULE JourneyCanvas ---------------------------
(***************************************************************************)
(* The compiler between the journey canvas and campaign_messages           *)
(* (packages/core/src/campaigns/flow.ts): validateFlow, lineariseFlow,     *)
(* collapseRejoins and planMessageSync, over every canvas of a few boxes.  *)
(* A box is a node with its data; the order of the edge list, which the    *)
(* traversal follows, is Rank.  The statements that write a plan are       *)
(* CampaignLifecycle's SaveFlow.                                           *)
(***************************************************************************)
EXTENDS Integers, Sequences, FiniteSets, SequencesExt, FiniteSetsExt

CONSTANTS
    Box,            \* nodes the editor can put on the canvas
    Kind,           \* node.type of each
    Wait,           \* its delayMinutes or waitMinutes
    Question,       \* what a recipient may have done: opened, clicked, replied
    Asks,           \* the condition of a condition box
    Unfilled,       \* send boxes without their text
    Deletable,      \* bound: the boxes that are deleted
    Rank,           \* the order of edges in the list
    DepthBound,     \* the 64 of lineariseFlow
    MostNodes, MostEdges,   \* MAX_NODES and MAX_EDGES
    MaxEdges        \* bound of the model

Handle == {"yes", "no"}
Edge == {e \in Box \X Handle \X Box :
            Kind[e[1]] # "exit" /\ (Kind[e[1]] # "condition" => e[2] = "yes")}
Send == {b \in Box : Kind[b] = "send"}
Always == <<"always">>
Condition == {Always} \cup ({"is", "not"} \X Question)

ASSUME CanvasConstants ==
    /\ Kind \in [Box -> {"trigger", "delay", "send", "condition", "exit"}]
    /\ IsFiniteSet(Box) /\ Wait \in [Box -> Nat] /\ Asks \in [Box -> Condition] /\ Unfilled \subseteq Send
    /\ Rank \in [Edge -> Int] /\ \A e, f \in Edge : Rank[e] = Rank[f] => e = f
    /\ {DepthBound, MostNodes, MostEdges, MaxEdges} \subseteq Nat

VARIABLES
    boxes, edges,   \* flow_definition: the graph that is saved
    stored,         \* campaign_messages of the campaign, by node
    saved

canvasVars == <<boxes, edges, stored, saved>>

\* Every message is there from an earlier journey.
CanvasInit ==
    /\ boxes = {b \in Box : Kind[b] = "trigger"} /\ edges = {}
    /\ stored = [s \in Send |->
                   [seq |-> 1, delay |-> 0, condition |-> Always, enabled |-> TRUE]]
    /\ saved = FALSE

Canvas == [nodes |-> boxes, edges |-> edges]

-----------------------------------------------------------------------------
(* validateFlow *)

Triggers(graph) == {b \in graph.nodes : Kind[b] = "trigger"}

\* reachableFrom: what a walk of the edges meets, however long.
Onward(from, es) == from \cup {e[3] : e \in {f \in es : f[1] \in from}}
Reached(from, es) ==
    LET within[n \in 0 .. Cardinality(Box)] ==
            IF n = 0 THEN from ELSE Onward(within[n - 1], es)
    IN within[Cardinality(Box)]

\* findCycle: a box that can be come back to.  Edges to boxes that are gone are skipped.
OnCycle(graph, b) == b \in Reached({e[3] : e \in {f \in graph.edges : f[1] = b}}, graph.edges)

Looping(graph) == {b \in graph.nodes : OnCycle(graph, b)}

Dangling(graph) == {e \in graph.edges : e[1] \notin graph.nodes \/ e[3] \notin graph.nodes}

Faulty(graph, b) ==
    \/ b \in Unfilled
    \/ Kind[b] = "delay" /\ Wait[b] = 0
    \/ Kind[b] = "condition" /\ ~\E e \in graph.edges : e[1] = b

ValidFlow(graph) ==
    /\ Cardinality(graph.nodes) <= MostNodes /\ Cardinality(graph.edges) <= MostEdges
    /\ Cardinality(Triggers(graph)) = 1
    /\ graph.nodes \cap Send # {}
    /\ Dangling(graph) = {}
    /\ \A b \in graph.nodes : ~Faulty(graph, b)
    /\ Looping(graph) = {}

-----------------------------------------------------------------------------
(* lineariseFlow *)

Negate(condition) ==
    CASE condition[1] = "is" -> <<"not", condition[2]>>
      [] condition[1] = "not" -> <<"is", condition[2]>>
      [] OTHER -> condition

\* The edges that leave a box, in the order of the list.
From(graph, b) ==
    LET out == {e \in graph.edges : e[1] = b}
    IN  [i \in 1 .. Cardinality(out) |->
            CHOOSE e \in out : Cardinality({f \in out : Rank[f] <= Rank[e]}) = i]

\* The branch of a condition's edge: 'no' asks the opposite, anything else is 'yes'.
Chosen(b, handle) == IF handle = "yes" THEN Asks[b] ELSE Negate(Asks[b])

Visit == [box : Box, delay : Nat, branch : {"none"} \cup Handle, condition : Condition, depth : Nat]

AtTrigger(graph) ==
    [box |-> CHOOSE t \in Triggers(graph) : TRUE, delay |-> 0, branch |-> "none",
     condition |-> Always, depth |-> 0]

Halts(graph, visit) ==
    visit.depth > DepthBound \/ visit.box \notin graph.nodes \/ Kind[visit.box] = "exit"

Met(visit) ==
    IF Kind[visit.box] = "send"
    THEN <<[box |-> visit.box, delay |-> visit.delay, branch |-> visit.branch, condition |-> visit.condition]>>
    ELSE <<>>

GoOn(visit, e) ==
    LET kind == Kind[visit.box] IN
    [box |-> e[3], depth |-> visit.depth + 1,
     delay |-> IF kind \in {"delay", "condition"} THEN visit.delay + Wait[visit.box] ELSE visit.delay,
     branch |-> IF kind = "condition" THEN e[2] ELSE visit.branch,
     condition |-> CASE kind = "condition" -> Chosen(visit.box, e[2])
                     [] kind = "trigger" -> Always
                     [] OTHER -> visit.condition]

\* walk: the messages met from a box on, once for every path, in the order of the edges.
Walk(graph) ==
    LET walk[visit \in Visit] ==
            IF Halts(graph, visit) THEN <<>>
            ELSE Met(visit) \o FlattenSeq([i \in DOMAIN From(graph, visit.box) |->
                                             walk[GoOn(visit, From(graph, visit.box)[i])]])
    IN  walk

Linearised(graph) == Walk(graph)[AtTrigger(graph)]

-----------------------------------------------------------------------------
(* planMessageSync *)

Meetings(messages, b) == {i \in DOMAIN messages : messages[i].box = b}

\* Mutant of Collapse: a box met again keeps the row of the path met first.
CollapseFirst(messages) ==
    LET met == {messages[i].box : i \in DOMAIN messages}
        first(b) == messages[Min(Meetings(messages, b))]
        place(b) == Min(Meetings(messages, b))
    IN [b \in met |->
          [seq |-> Cardinality({c \in met : place(c) <= place(b)}), delay |-> first(b).delay,
           condition |-> first(b).condition, enabled |-> TRUE]]

\* collapseRejoins: one row for a box, the earliest delay, and no condition once two
\* paths come with different ones; the rows are numbered without gaps.
Collapse(messages) ==
    LET met == {messages[i].box : i \in DOMAIN messages}
        first(b) == messages[Min(Meetings(messages, b))]
        agreed(b) == \A i \in Meetings(messages, b) :
                        /\ messages[i].condition = first(b).condition
                        /\ messages[i].branch = first(b).branch
        place(b) == Min(Meetings(messages, b))
    IN [b \in met |->
          [seq |-> Cardinality({c \in met : place(c) <= place(b)}),
           delay |-> Min({messages[i].delay : i \in Meetings(messages, b)}),
           condition |-> IF agreed(b) THEN first(b).condition ELSE Always,
           enabled |-> TRUE]]

\* create and update write the row of a box that is met; disable turns the others off.
Planned(b) ==
    LET rows == Collapse(Linearised(Canvas))
    IN IF b \in DOMAIN rows THEN rows[b] ELSE [stored[b] EXCEPT !.enabled = FALSE]

-----------------------------------------------------------------------------
(* Drawing and saving *)

\* The editor: boxes are connected, in the order of the list.
Connect(e) ==
    /\ ~saved /\ Cardinality(edges) < MaxEdges /\ Dangling(Canvas) = {}
    /\ \A f \in edges : Rank[f] < Rank[e]
    /\ edges' = edges \cup {e} /\ boxes' = boxes \cup {e[1], e[3]}
    /\ UNCHANGED <<stored, saved>>

\* A box is deleted and the edges at it stay behind.
DeleteBox(b) ==
    /\ ~saved /\ b \in Deletable \cap boxes
    /\ boxes' = boxes \ {b}
    /\ UNCHANGED <<edges, stored, saved>>

SaveJourney ==
    /\ ~saved /\ ValidFlow(Canvas)
    /\ stored' = [s \in Send |-> Planned(s)]
    /\ saved' = TRUE
    /\ UNCHANGED <<boxes, edges>>

CanvasNext ==
    \/ \E e \in Edge : Connect(e)
    \/ \E b \in Box : DeleteBox(b)
    \/ SaveJourney

CanvasSpec == CanvasInit /\ [][CanvasNext]_canvasVars

-----------------------------------------------------------------------------
(* What the canvas says: the ways that are drawn on it, as far as they are *)
(* walked.                                                                 *)

\* A way so far: what was waited on it, and the branch and question it was led by last.
SetOut(t) == [way |-> <<t>>, waited |-> 0, branch |-> "none", condition |-> Always]

\* One box further: the wait of a delay or a question is behind whoever leaves it.
Further(trip, e) ==
    LET kind == Kind[e[1]] IN
    [way |-> Append(trip.way, e[3]),
     waited |-> trip.waited + (IF kind \in {"delay", "condition"} THEN Wait[e[1]] ELSE 0),
     branch |-> IF kind = "condition" THEN e[2] ELSE trip.branch,
     condition |-> CASE kind = "condition" -> Chosen(e[1], e[2])
                     [] kind = "trigger" -> Always
                     [] OTHER -> trip.condition]

\* The trips of n steps.
Trips(graph) ==
    LET trips[n \in 0 .. DepthBound] ==
            IF n = 0 THEN {SetOut(t) : t \in Triggers(graph)}
            ELSE UNION {{Further(trip, e) : e \in {f \in graph.edges : f[1] = Last(trip.way)}} : trip \in trips[n - 1]}
    IN  trips

Ways(graph) == LET trips == Trips(graph) IN UNION {trips[n] : n \in 0 .. DepthBound}

WaysTo(graph, s) == {trip \in Ways(graph) : Last(trip.way) = s}

CanvasTypeOK ==
    /\ boxes \subseteq Box /\ edges \subseteq Edge /\ saved \in BOOLEAN
    /\ stored \in [Send -> [seq : 1 .. Cardinality(Send), delay : Nat, condition : Condition, enabled : BOOLEAN]]

\* What a save leaves of the canvas depends on the ways that are drawn, not on the order
\* in which the traversal meets them (collapseRejoins, flow.ts:406-451): a send box has a
\* live row exactly if a way leads to it, the row is due after the least that is waited on
\* any of them, and it asks what they all ask by the same branch, or nothing at all: no
\* way is held to the question of another.
\* Whether a recipient then gets the message is not decided here: the send asks about the
\* latest message sent to them before it (orchestrator.ts:386-464), so the second send
\* behind a question asks about the first, and not what led there.
RowsFollowWays ==
    saved => \A s \in Send :
        LET row == stored[s]
            trips == WaysTo(Canvas, s)
        IN /\ row.enabled <=> trips # {}
           /\ trips # {} => \E trip \in trips : row.delay = trip.waited
           /\ \A trip \in trips :
                 /\ row.delay <= trip.waited
                 /\ row.condition = IF \A other \in trips : /\ other.condition = trip.condition
                                                            /\ other.branch = trip.branch
                                    THEN trip.condition ELSE Always

\* The journey runs in the order of the canvas: a send box that every way drawn to
\* another one passes through has the smaller sequence_order, and the numbers have no gap.
SequenceFollowsCanvas ==
    saved =>
    LET live == {s \in Send : stored[s].enabled}
        drawn == {trip.way : trip \in Ways(Canvas)}
    IN /\ {stored[s].seq : s \in live} = 1 .. Cardinality(live)
       /\ \A a, b \in live :
             /\ a # b
             /\ \A way \in drawn : Last(way) = b => \E i \in DOMAIN way : way[i] = a
             => stored[a].seq < stored[b].seq
=============================================================================
