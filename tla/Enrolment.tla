----------------------------- MODULE Enrolment -----------------------------
(***************************************************************************)
(* Triggers and enrolment (packages/core/src/triggers): how an order or    *)
(* the hourly time-trigger job enrols contacts, queues the messages of     *)
(* their journeys, and how stop conditions end a journey.  Every statement *)
(* of an evaluation is a step, because nothing wraps them in a             *)
(* transaction: other evaluations, jobs and deliveries run in between, and *)
(* an evaluation may end after any of them.                                *)
(***************************************************************************)
EXTENDS Naturals, Sequences, FiniteSets

CONSTANTS
    Campaign, Contact, Order, Message,
    NoOrder,        \* the NULL anchor of an enrolment no order caused
    NoCampaign, NoContact,
    Evaluator,      \* checkouts and runs of the time-trigger job
    TriggerOf,      \* trigger_type of each campaign
    OneTime,        \* the campaigns with one_time_per_contact
    Journey,        \* the enabled messages of each campaign, in their order
    OnDelivery,     \* the messages with delay_anchor = 'delivery'
    BuyerOf,        \* the contact of each order
    Unreachable,    \* messages a contact has no address or no send window for
    Ceiling,        \* maxEnrolmentsPerRun
    Pass,           \* passes of the queue: a worker's drain, a request's flush
    Followed,       \* bound: the rows whose delivery is followed
    MaxTroubles     \* bound: changes of a campaign's status, statements that throw or
                    \* crash, and claims a live pass has held for too long

Anchor == Order \cup {NoOrder}
Trigger == {"order_placed", "days_since_last_order"}
Enrolled == Campaign \X Contact \X Anchor
Queued == Message \X Contact \X Anchor

ASSUME EnrolmentConstants ==
    /\ NoOrder \notin Order /\ NoCampaign \notin Campaign /\ NoContact \notin Contact
    /\ TriggerOf \in [Campaign -> Trigger]
    /\ OneTime \subseteq Campaign /\ OnDelivery \subseteq Message
    /\ Unreachable \subseteq Message \X Contact /\ Followed \subseteq Queued
    /\ Journey \in [Campaign -> Seq(Message)]
    /\ \A c \in Campaign, d \in Campaign : \A i \in DOMAIN Journey[c], j \in DOMAIN Journey[d] :
          Journey[c][i] = Journey[d][j] => c = d /\ i = j
    /\ BuyerOf \in [Order -> Contact]
    /\ Ceiling \in Nat /\ MaxTroubles \in Nat
    /\ Pass \cap {"none", "parked", "pending", "sent", "failed", "cancelled"} = {}

CampaignStatus == {"draft", "active", "observe", "paused", "archived"}

\* A row that says 'processing' says whose claim it is; it stands for both.
RowStatus == {"none", "parked", "pending", "sent", "failed", "cancelled"} \cup Pass
Cancellable == {"parked", "pending"} \cup Pass

VARIABLES
    campaign,    \* campaigns.status
    order,       \* how far each order has come
    lapsed,      \* contacts whose last order lies between the floor and the threshold
    enrolment,   \* enrollments.status by its unique key, "none" where there is no row
    row,         \* message_queue by its deduplication key
    eval,        \* the progress of each evaluation
    stopping,    \* the stop-condition job: what it found, and what it is in the middle of
    work,        \* the row each pass has in hand, and how far it has come with it
    troubles,
    abandoned,   \* history: enrolments whose evaluation died before it had queued
    silenced,    \* history: enrolments the job has stopped and cleared
    late,        \* history: passes whose claim the job cancelled when it was confirmed
    raced        \* history: contacts two evaluations were about to enrol at once

vars == <<campaign, order, lapsed, enrolment, row, eval, stopping, work, troubles,
          abandoned, silenced, late, raced>>
tables == <<campaign, order, lapsed, enrolment, row>>
history == <<abandoned, silenced, late, raced>>

Idle == [at |-> "idle", anchor |-> NoOrder, todo |-> {}, live |-> {}, on |-> NoCampaign,
         candidates |-> {}, who |-> NoContact, left |-> <<>>, delivered |-> FALSE]

Progress == [at : {"idle", "walk", "judge", "insert", "read", "queue"},
             anchor : Anchor, todo : SUBSET Campaign, live : SUBSET Campaign, on : Campaign \cup {NoCampaign},
             candidates : SUBSET Contact, who : Contact \cup {NoContact},
             left : Seq(Message), delivered : BOOLEAN]

NotStopping == [found |-> {}, clear |-> {}]

\* A pass between two rows, and one that has a row in hand.
Free == [at |-> "idle"]
AtWork == [at : {"claimed", "passed", "defer", "cancel", "refreshed", "handed"}, row : Queued]

Init ==
    /\ campaign \in [Campaign -> {"draft", "active", "observe"}]
    /\ order = [o \in Order |-> "placed"]
    /\ lapsed = {}
    /\ enrolment = [k \in Enrolled |-> "none"]
    /\ row = [q \in Queued |-> "none"]
    /\ eval = [e \in Evaluator |-> Idle]
    /\ stopping = NotStopping
    /\ work = [p \in Pass |-> Free]
    /\ troubles = 0
    /\ abandoned = {} /\ silenced = {} /\ late = {} /\ raced = {}

-----------------------------------------------------------------------------
(* Names for rows *)

Key(e) == <<eval[e].on, eval[e].who, eval[e].anchor>>

RowsOf(k) == {q \in Queued : /\ \E i \in DOMAIN Journey[k[1]] : Journey[k[1]][i] = q[1]
                             /\ q[2] = k[2] /\ q[3] = k[3]}

EnrolmentOf(q) == CHOOSE k \in Enrolled : q \in RowsOf(k)

EnrolledIn(c, k) == {a \in Anchor : enrolment[<<c, k, a>>] # "none"}

WithRows(S, status) == [q \in Queued |-> IF q \in S THEN status ELSE row[q]]

Goes(e, step) == eval' = [eval EXCEPT ![e] = [@ EXCEPT !.at = step]]

\* Done with one contact: on to the next, to the next campaign, or done.
NextUp(p) ==
    IF p.candidates # {} THEN [p EXCEPT !.at = "judge", !.who = NoContact, !.left = <<>>, !.delivered = FALSE]
    ELSE IF p.todo # {} THEN [Idle EXCEPT !.at = "walk", !.anchor = p.anchor, !.todo = p.todo, !.live = p.live]
    ELSE Idle

GoesOn(e) == eval' = [eval EXCEPT ![e] = NextUp(@)]

-----------------------------------------------------------------------------
(* The world *)

OrderDelivered(o) ==
    /\ order[o] = "placed"
    /\ order' = [order EXCEPT ![o] = "delivered"]
    /\ UNCHANGED <<campaign, lapsed, enrolment, row, eval, stopping, work, troubles, history>>

\* Time passes, and the last order of a contact is long enough ago.
Lapse(k) ==
    /\ k \notin lapsed
    /\ lapsed' = lapsed \cup {k}
    /\ UNCHANGED <<campaign, order, enrolment, row, eval, stopping, work, troubles, history>>

\* An operator pauses, resumes or archives a campaign that once went live.
SetCampaign(c, status) ==
    /\ troubles < MaxTroubles
    /\ campaign[c] # "draft" /\ status # "draft" /\ campaign[c] # status
    /\ campaign' = [campaign EXCEPT ![c] = status]
    /\ troubles' = troubles + 1
    /\ UNCHANGED <<order, lapsed, enrolment, row, eval, stopping, work, history>>

-----------------------------------------------------------------------------
(* Evaluations.  The candidate campaigns are read once, with their status: *)
(* one in observe mode is evaluated and leaves only decisions.             *)

Considered(trigger) == {c \in Campaign : /\ TriggerOf[c] = trigger
                                         /\ campaign[c] \in {"active", "observe"}}

Begin(e, anchor, trigger) ==
    /\ eval[e].at = "idle"
    /\ eval' = [eval EXCEPT ![e] =
         NextUp([Idle EXCEPT !.anchor = anchor, !.todo = Considered(trigger),
                             !.live = {c \in Considered(trigger) : campaign[c] = "active"}])]
    /\ UNCHANGED <<tables, stopping, work, troubles, history>>

\* evaluateTrigger, called with an order any number of times.
EvaluateTrigger(e, o) == Begin(e, o, "order_placed")

RunTimeTriggers(e) == Begin(e, NoOrder, "days_since_last_order")

\* The contacts the job may enrol: lapsed, and never enrolled in the campaign.
Candidates(c) == {k \in lapsed : EnrolledIn(c, k) = {}}

\* The next campaign of the list; the circuit breaker ends the whole run.
PickCampaign(e, c) ==
    LET subjects == IF eval[e].anchor = NoOrder THEN Candidates(c)
                                                ELSE {BuyerOf[eval[e].anchor]}
        tripped == eval[e].anchor = NoOrder /\ Cardinality(subjects) > Ceiling
        picked == [eval[e] EXCEPT !.on = c, !.todo = @ \ {c}, !.candidates = subjects]
    IN  /\ eval[e].at = "walk" /\ c \in eval[e].todo
        /\ eval' = [eval EXCEPT ![e] = IF tripped THEN Idle ELSE NextUp(picked)]
        /\ UNCHANGED <<tables, stopping, work, troubles, history>>

\* Mutant of Judge: one_time_per_contact is left to the unique index.
JudgeUnchecked(e, k, taken) ==
    LET judged == [eval[e] EXCEPT !.candidates = @ \ {k}]
    IN  /\ eval[e].at = "judge" /\ k \in eval[e].candidates
        /\ eval' = [eval EXCEPT ![e] = IF taken /\ eval[e].on \in eval[e].live
                                       THEN [judged EXCEPT !.at = "insert", !.who = k]
                                       ELSE NextUp(judged)]
        /\ UNCHANGED <<tables, stopping, work, troubles, history>>

\* The audience query and the dry run, whose outcome is `taken`, observe mode,
\* and one_time_per_contact, a SELECT of its own.
Judge(e, k, taken) ==
    LET checked == eval[e].on \in OneTime /\ eval[e].anchor # NoOrder
        judged == [eval[e] EXCEPT !.candidates = @ \ {k}]
    IN  /\ eval[e].at = "judge" /\ k \in eval[e].candidates
        /\ eval' = [eval EXCEPT ![e] =
             IF /\ taken /\ eval[e].on \in eval[e].live
                /\ checked => EnrolledIn(eval[e].on, k) = {}
             THEN [judged EXCEPT !.at = "insert", !.who = k]
             ELSE NextUp(judged)]
        /\ UNCHANGED <<tables, stopping, work, troubles, history>>

\* INSERT ... ON CONFLICT (campaign_id, contact_id, anchor_id) DO NOTHING.
CreateEnrolment(e) ==
    /\ eval[e].at = "insert"
    /\ IF enrolment[Key(e)] = "none"
       THEN enrolment' = [enrolment EXCEPT ![Key(e)] = "active"] /\ Goes(e, "read")
       ELSE enrolment' = enrolment /\ GoesOn(e)
    /\ raced' = IF \E d \in Evaluator \ {e} : /\ eval[d].at = "insert"
                                             /\ eval[d].on = eval[e].on /\ eval[d].who = eval[e].who
                THEN raced \cup {<<eval[e].on, eval[e].who>>} ELSE raced
    /\ UNCHANGED <<campaign, order, lapsed, row, stopping, work, troubles, abandoned, silenced, late>>

\* scheduleMessages reads the order and the messages before it walks them.
ReadJourney(e) ==
    /\ eval[e].at = "read"
    /\ eval' = [eval EXCEPT ![e] =
         IF Journey[eval[e].on] = <<>> THEN NextUp(@)
         ELSE [@ EXCEPT !.at = "queue", !.left = Journey[eval[e].on],
                        !.delivered = eval[e].anchor # NoOrder /\ order[eval[e].anchor] = "delivered"]]
    /\ UNCHANGED <<tables, stopping, work, troubles, history>>

\* Mutant of QueueMessage: the deduplication key has no anchor.
QueueMessageOnce(e) ==
    LET m == Head(eval[e].left)
        q == <<m, eval[e].who, eval[e].anchor>>
        due == IF m \in OnDelivery /\ ~eval[e].delivered THEN "parked" ELSE "pending"
        known == \E a \in Anchor : row[<<m, eval[e].who, a>>] # "none"
    IN  /\ eval[e].at = "queue"
        /\ row' = IF ~known /\ <<m, q[2]>> \notin Unreachable THEN [row EXCEPT ![q] = due] ELSE row
        /\ IF Len(eval[e].left) = 1 THEN GoesOn(e)
                                    ELSE eval' = [eval EXCEPT ![e] = [@ EXCEPT !.left = Tail(eval[e].left)]]
        /\ UNCHANGED <<campaign, order, lapsed, enrolment, stopping, work, troubles, history>>

\* One message: the deduplication key decides whether there is a row already.
QueueMessage(e) ==
    LET m == Head(eval[e].left)
        q == <<m, eval[e].who, eval[e].anchor>>
        due == IF m \in OnDelivery /\ ~eval[e].delivered THEN "parked" ELSE "pending"
    IN  /\ eval[e].at = "queue"
        /\ row' = IF row[q] = "none" /\ <<m, q[2]>> \notin Unreachable THEN [row EXCEPT ![q] = due] ELSE row
        /\ IF Len(eval[e].left) = 1 THEN GoesOn(e)
                                    ELSE eval' = [eval EXCEPT ![e] = [@ EXCEPT !.left = Tail(eval[e].left)]]
        /\ UNCHANGED <<campaign, order, lapsed, enrolment, stopping, work, troubles, history>>

\* A statement throws, or the process ends: nothing is rolled back.
Die(e) ==
    /\ eval[e].at # "idle" /\ troubles < MaxTroubles
    /\ troubles' = troubles + 1
    /\ eval' = [eval EXCEPT ![e] = Idle]
    /\ abandoned' = IF eval[e].at \in {"read", "queue"} THEN abandoned \cup {Key(e)}
                                                        ELSE abandoned
    /\ UNCHANGED <<tables, stopping, work, silenced, late, raced>>

-----------------------------------------------------------------------------
(* Jobs *)

\* evaluateStopConditions finds the enrolments a stop event has come for since
\* they began, and then writes two statements for each of them.
FindStopped(found) ==
    /\ stopping = NotStopping /\ found # {}
    /\ \A k \in found : campaign[k[1]] = "active" /\ enrolment[k] = "active"
    /\ stopping' = [NotStopping EXCEPT !.found = found]
    /\ UNCHANGED <<tables, eval, work, troubles, history>>

StopEnrolment(k) ==
    /\ k \in stopping.found /\ stopping.clear = {}
    /\ enrolment' = [enrolment EXCEPT ![k] = "stopped"]
    /\ stopping' = [found |-> stopping.found \ {k}, clear |-> {k}]
    /\ UNCHANGED <<campaign, order, lapsed, row, eval, work, troubles, history>>

\* The passes that may no longer be stopped from handing over a message of k.
Confirmed(k) == {p \in Pass : work[p].at = "refreshed" /\ work[p].row \in RowsOf(k)}

\* Mutant of ClearStopped: the rows in flight are left to the worker.
ClearStoppedWaiting(k) ==
    /\ k \in stopping.clear
    /\ row' = WithRows({q \in RowsOf(k) : row[q] \in Cancellable \ Pass}, "cancelled")
    /\ stopping' = [stopping EXCEPT !.clear = {}]
    /\ silenced' = silenced \cup {k} /\ late' = late \cup Confirmed(k)
    /\ UNCHANGED <<campaign, order, lapsed, enrolment, eval, work, troubles, abandoned, raced>>

ClearStopped(k) ==
    /\ k \in stopping.clear
    /\ row' = WithRows({q \in RowsOf(k) : row[q] \in Cancellable}, "cancelled")
    /\ stopping' = [stopping EXCEPT !.clear = {}]
    /\ silenced' = silenced \cup {k} /\ late' = late \cup Confirmed(k)
    /\ UNCHANGED <<campaign, order, lapsed, enrolment, eval, work, troubles, abandoned, raced>>

\* The job dies in between: the next run looks at active enrolments only.
StopJobDies ==
    /\ stopping # NotStopping /\ troubles < MaxTroubles
    /\ troubles' = troubles + 1
    /\ stopping' = NotStopping
    /\ UNCHANGED <<tables, eval, work, history>>

Resolvable(q) == row[q] = "parked" /\ q[3] # NoOrder /\ order[q[3]] = "delivered"

DeliveryAnchors ==
    /\ \E q \in Queued : Resolvable(q)
    /\ row' = WithRows({q \in Queued : Resolvable(q)}, "pending")
    /\ UNCHANGED <<campaign, order, lapsed, enrolment, eval, stopping, work, troubles, history>>

\* A row may be old enough at any time; whether its order has come is not asked.
ExpireAnchors(q) ==
    /\ row[q] = "parked"
    /\ row' = WithRows({q}, "cancelled")
    /\ UNCHANGED <<campaign, order, lapsed, enrolment, eval, stopping, work, troubles, history>>

-----------------------------------------------------------------------------
(* Delivery of a row: what a pass does with one of its batch, statement by  *)
(* statement.  Campaign and enrolment are read once; the verdicts of the   *)
(* later gates and of the provider are not decided here.                   *)

Delivers == UNCHANGED <<campaign, order, lapsed, enrolment, eval, stopping, abandoned, silenced, raced>>

\* The fence of every write: claimed_by is this pass and the row 'processing'.
Holds(p) == row[work[p].row] = p

Moves(p, step) == work' = [work EXCEPT ![p] = [@ EXCEPT !.at = step]]

Fenced(p, status) == row' = IF Holds(p) THEN WithRows({work[p].row}, status) ELSE row

ClaimRow(p, q) ==
    /\ work[p] = Free /\ q \in Followed /\ row[q] = "pending"
    /\ row' = WithRows({q}, p)
    /\ work' = [work EXCEPT ![p] = [at |-> "claimed", row |-> q]]
    /\ Delivers /\ UNCHANGED <<troubles, late>>

\* Mutant of Gates: a stopped enrolment is held like a paused campaign.
GatesHoldStopped(p, further) ==
    LET k == EnrolmentOf(work[p].row)
    IN  /\ work[p].at = "claimed"
        /\ Moves(p, CASE campaign[k[1]] = "paused"  -> "defer"
                      [] campaign[k[1]] \in {"observe", "archived"} -> "cancel"
                      [] enrolment[k] # "active"    -> "defer"
                      [] OTHER                      -> further)
        /\ Delivers /\ UNCHANGED <<row, troubles, late>>

\* loadContext, campaignStillActive and enrollmentStillActive: one snapshot.
\* The gates after them, and the lookup of a sender, may still hold it back.
Gates(p, further) ==
    LET k == EnrolmentOf(work[p].row)
    IN  /\ work[p].at = "claimed"
        /\ Moves(p, CASE campaign[k[1]] = "paused"  -> "defer"
                      [] campaign[k[1]] \in {"observe", "archived"} -> "cancel"
                      [] enrolment[k] # "active"    -> "cancel"
                      [] OTHER                      -> further)
        /\ Delivers /\ UNCHANGED <<row, troubles, late>>

\* refreshClaim: a claim that is lost or cancelled ends the delivery here.
Refresh(p) ==
    /\ work[p].at = "passed"
    /\ work' = [work EXCEPT ![p] = IF Holds(p) THEN [@ EXCEPT !.at = "refreshed"] ELSE Free]
    /\ Delivers /\ UNCHANGED <<row, troubles, late>>

\* provider.send is called: nothing is read or asked any more.
HandOver(p) ==
    /\ work[p].at = "refreshed"
    /\ Moves(p, "handed") /\ late' = late \ {p}
    /\ Delivers /\ UNCHANGED <<row, troubles>>

\* deferClaimed and markCancelled after a gate, or what the provider's answer
\* is worth: markSent, scheduleRetry or markFailed.
Outcome(at) == CASE at = "defer"  -> {"pending"}
                 [] at = "cancel" -> {"cancelled"}
                 [] at = "handed" -> {"sent", "pending", "failed"}
                 [] OTHER         -> {}

Write(p) ==
    /\ \E status \in Outcome(work[p].at) : Fenced(p, status)
    /\ work' = [work EXCEPT ![p] = Free]
    /\ Delivers /\ UNCHANGED <<troubles, late>>

\* A statement throws and the catch block fails the row; or it throws as well,
\* or the process ends, and the row keeps its claim.
Break(p) ==
    /\ work[p] # Free /\ troubles < MaxTroubles
    /\ troubles' = troubles + 1
    /\ Fenced(p, "failed") \/ row' = row
    /\ work' = [work EXCEPT ![p] = Free] /\ late' = late \ {p}
    /\ Delivers

\* reclaimStale: a claim nobody is at work on, or one whose pass is slow and
\* does not hear of it.
Reclaim(q) ==
    LET slow == work[row[q]] # Free /\ work[row[q]].row = q
    IN  /\ row[q] \in Pass
        /\ slow => troubles < MaxTroubles
        /\ troubles' = IF slow THEN troubles + 1 ELSE troubles
        /\ \E status \in {"pending", "failed"} : row' = WithRows({q}, status)
        /\ Delivers /\ UNCHANGED <<work, late>>

-----------------------------------------------------------------------------
Evaluate(e) ==
    \/ \E o \in Order : EvaluateTrigger(e, o)
    \/ RunTimeTriggers(e)
    \/ \E c \in Campaign : PickCampaign(e, c)
    \/ \E k \in Contact, taken \in BOOLEAN : Judge(e, k, taken)
    \/ CreateEnrolment(e) \/ ReadJourney(e) \/ QueueMessage(e) \/ Die(e)

Jobs ==
    \/ \E found \in SUBSET {k \in Enrolled : enrolment[k] = "active"} : FindStopped(found)
    \/ \E k \in Enrolled : StopEnrolment(k) \/ ClearStopped(k)
    \/ StopJobDies \/ DeliveryAnchors
    \/ \E q \in Queued : ExpireAnchors(q)

World ==
    \/ \E o \in Order : OrderDelivered(o)
    \/ \E k \in Contact : Lapse(k)
    \/ \E c \in Campaign, s \in CampaignStatus : SetCampaign(c, s)

Deliver(p) ==
    \/ \E q \in Queued : ClaimRow(p, q)
    \/ \E further \in {"passed", "defer", "cancel"} : Gates(p, further)
    \/ Refresh(p) \/ HandOver(p) \/ Write(p) \/ Break(p)

Delivery == (\E p \in Pass : Deliver(p)) \/ (\E q \in Queued : Reclaim(q))

Next == (\E e \in Evaluator : Evaluate(e)) \/ Jobs \/ World \/ Delivery

Spec == Init /\ [][Next]_vars

\* Cron starts the jobs again and again, what is due comes to the head of the
\* queue, and a pass goes on until it has dealt with its row; nothing is
\* assumed of evaluations, orders, operators and providers.
JobFairness ==
    /\ \A q \in Followed : /\ WF_vars(ExpireAnchors(q)) /\ WF_vars(Reclaim(q))
                           /\ SF_vars(\E p \in Pass : ClaimRow(p, q))
    /\ \A p \in Pass : /\ WF_vars(\E further \in {"passed", "defer", "cancel"} : Gates(p, further))
                       /\ WF_vars(Refresh(p)) /\ WF_vars(HandOver(p)) /\ WF_vars(Write(p))

FairSpec == Spec /\ JobFairness

-----------------------------------------------------------------------------
EnrolmentTypeOK ==
    /\ campaign \in [Campaign -> CampaignStatus]
    /\ order \in [Order -> {"placed", "delivered"}]
    /\ lapsed \subseteq Contact
    /\ enrolment \in [Enrolled -> {"none", "active", "stopped"}]
    /\ row \in [Queued -> RowStatus]
    /\ eval \in [Evaluator -> Progress]
    /\ stopping \in [found : SUBSET Enrolled, clear : SUBSET Enrolled]
    /\ work \in [Pass -> {Free} \cup AtWork]
    /\ troubles \in 0..MaxTroubles
    /\ abandoned \subseteq Enrolled /\ silenced \subseteq Enrolled
    /\ late \subseteq Pass /\ raced \subseteq Campaign \X Contact

\* An evaluation is still queueing the journey of k.
Scheduling(k) == \E e \in Evaluator : eval[e].at \in {"read", "queue"} /\ Key(e) = k

(***************************************************************************)
(* Whoever enrolled a contact and lived has queued every message of the    *)
(* journey that can reach them: evaluations that meet on the unique index, *)
(* redelivered events and earlier orders of the same contact take none of  *)
(* it away (createEnrolment, scheduleMessages, the deduplication key).     *)
(***************************************************************************)
JourneyQueued ==
    \A k \in Enrolled :
        enrolment[k] # "none" /\ k \notin abandoned /\ ~Scheduling(k)
            => \A q \in RowsOf(k) : <<q[1], q[2]>> \notin Unreachable => row[q] # "none"

(***************************************************************************)
(* A campaign that takes each contact once takes them twice only if two    *)
(* evaluations were past the SELECT for this contact at the same time: the *)
(* check misses what overlapping evaluations are about to write, and never *)
(* what an earlier one has written (one_time_per_contact).                 *)
(***************************************************************************)
OneTimeUnlessRaced ==
    \A c \in OneTime, k \in Contact :
        Cardinality(EnrolledIn(c, k)) > 1 => <<c, k>> \in raced

(***************************************************************************)
(* After the stop-condition job has dealt with an enrolment, none of its   *)
(* messages is handed to a provider: not one that was past the gates, nor  *)
(* one that a slow evaluation queues afterwards, nor one the provider has  *)
(* refused once.  Only a pass whose claim refreshClaim had confirmed when  *)
(* the cancelling UPDATE committed is beyond recall, and hands over that   *)
(* one message: no statement stands between refreshClaim and provider.send.*)
(***************************************************************************)
StoppedStaysSilent ==
    [][\A p \in Pass : work[p].at = "refreshed" /\ work'[p].at = "handed"
            => EnrolmentOf(work[p].row) \notin silenced \/ p \in late]_vars

(***************************************************************************)
(* No message of a stopped enrolment waits for ever unless its campaign is *)
(* paused, although the job may have died between its two statements and   *)
(* never looks at that enrolment again, and although the order a parked    *)
(* message waits for may never be delivered.                               *)
(***************************************************************************)
StoppedSettles ==
    \A q \in Followed :
        row[q] # "none" /\ enrolment[EnrolmentOf(q)] = "stopped"
            ~> row[q] \in {"sent", "failed", "cancelled"} \/ campaign[EnrolmentOf(q)[1]] = "paused"
=============================================================================
