-------------------------- MODULE EnrolmentProofs --------------------------
(***************************************************************************)
(* For any campaigns, contacts, orders, journeys and evaluations, any      *)
(* number of troubles and any deliveries followed: a one-time campaign     *)
(* takes a contact twice only in a race, whoever enrolled a contact and    *)
(* lived has queued the journey, and a stopped enrolment stays silent.     *)
(***************************************************************************)
EXTENDS Enrolment, FiniteSetTheorems, SequenceTheorems, TLAPS

-----------------------------------------------------------------------------
(* What an evaluation carries with it                                      *)

\* An order causes the enrolments of one kind of campaign, no order those of
\* the other.
Fits(c, a) == a = NoOrder <=> TriggerOf[c] = "days_since_last_order"

\* What NextUp may be applied to.
Underway(p) ==
    /\ p.anchor \in Anchor /\ p.candidates \subseteq Contact /\ p.left \in Seq(Message)
    /\ \A c \in p.todo : c \in Campaign /\ Fits(c, p.anchor)
    /\ p.candidates # {} => p.on \in Campaign /\ Fits(p.on, p.anchor)

Proper(p) ==
    /\ Underway(p)
    /\ p.at \in {"judge", "insert", "read", "queue"} => p.on \in Campaign /\ Fits(p.on, p.anchor)
    /\ p.at \in {"insert", "read", "queue"} => p.who \in Contact
    /\ p.at = "queue" =>
          /\ p.left # <<>>
          /\ \A j \in DOMAIN p.left : \E i \in DOMAIN Journey[p.on] : Journey[p.on][i] = p.left[j]

(***************************************************************************)
(* The relations between the tables every further invariant rests on: an   *)
(* enrolment fits its anchor, the stop-condition job works on enrolments   *)
(* that exist and marks the stopped ones, a row belongs to a journey.      *)
(***************************************************************************)
StopsFit ==
    /\ stopping \in [found : SUBSET Enrolled, clear : SUBSET Enrolled]
    /\ silenced \subseteq Enrolled
    /\ \A k \in stopping.found : enrolment[k] # "none"
    /\ \A k \in stopping.clear \cup silenced : enrolment[k] = "stopped"

Base ==
    /\ DOMAIN eval = Evaluator /\ \A e \in Evaluator : Proper(eval[e])
    /\ enrolment \in [Enrolled -> {"none", "active", "stopped"}]
    /\ row \in [Queued -> RowStatus]
    /\ lapsed \subseteq Contact
    /\ \A k \in Enrolled : enrolment[k] # "none" => Fits(k[1], k[3])
    /\ StopsFit
    /\ \A q \in Queued : row[q] # "none" => \E k \in Enrolled : q \in RowsOf(k)

LEMMA IdleProper == Proper(Idle)
BY DEF Idle, Proper, Underway, Anchor

LEMMA NextUpProper ==
    ASSUME NEW p, Underway(p)
    PROVE  Proper(NextUp(p)) /\ NextUp(p).at \in {"idle", "walk", "judge"}
<1>1. CASE p.candidates # {}
  <2> DEFINE n == [p EXCEPT !.at = "judge", !.who = NoContact, !.left = <<>>, !.delivered = FALSE]
  <2>1. NextUp(p) = n
    BY <1>1 DEF NextUp
  <2>2. /\ n.at = "judge" /\ n.on = p.on /\ n.todo = p.todo /\ n.anchor = p.anchor
        /\ n.candidates = p.candidates /\ n.left = <<>>
    OBVIOUS
  <2> HIDE DEF n
  <2> QED BY <1>1, <2>1, <2>2 DEF Proper, Underway
<1>2. CASE p.candidates = {} /\ p.todo # {}
  <2> DEFINE n == [Idle EXCEPT !.at = "walk", !.anchor = p.anchor, !.todo = p.todo, !.live = p.live]
  <2>1. NextUp(p) = n
    BY <1>2 DEF NextUp
  <2>2. /\ n.at = "walk" /\ n.todo = p.todo /\ n.anchor = p.anchor /\ n.candidates = {}
        /\ n.left = <<>>
    BY DEF Idle
  <2> HIDE DEF n
  <2> QED BY <2>1, <2>2 DEF Proper, Underway
<1>3. CASE p.candidates = {} /\ p.todo = {}
  <2>1. NextUp(p) = Idle
    BY <1>3 DEF NextUp
  <2> QED BY <2>1, IdleProper DEF Idle
<1> QED BY <1>1, <1>2, <1>3

LEMMA BaseStart == Init => Base
<1> SUFFICES ASSUME Init PROVE Base
  OBVIOUS
<1>1. DOMAIN eval = Evaluator /\ \A e \in Evaluator : Proper(eval[e])
  BY IdleProper DEF Init
<1>2. stopping.found = {} /\ stopping.clear = {} /\ silenced = {}
  BY DEF Init, NotStopping
<1>3. enrolment \in [Enrolled -> {"none", "active", "stopped"}] /\ row \in [Queued -> RowStatus]
  BY DEF Init, RowStatus
<1> QED BY <1>1, <1>2, <1>3 DEF Init, Base, StopsFit, NotStopping

-----------------------------------------------------------------------------
(* The steps, by what they may disturb                                     *)

\* An evaluation moves on without writing anything and enrols nobody.
Wanders(e) ==
    /\ eval[e].at \in {"idle", "walk", "judge"}
    /\ \E p : /\ eval' = [eval EXCEPT ![e] = p] /\ Proper(p)
              /\ p.at \in {"idle", "walk", "judge"}
    /\ UNCHANGED <<tables, stopping, history>>

\* An evaluation has decided to enrol a contact.
Takes(e) ==
    /\ eval[e].at = "judge"
    /\ \E p : /\ eval' = [eval EXCEPT ![e] = p] /\ Proper(p) /\ p.at = "insert"
              /\ p.on \in OneTime /\ p.anchor # NoOrder => EnrolledIn(p.on, p.who) = {}
    /\ UNCHANGED <<tables, stopping, history>>

\* A job, the world or a delivery: no enrolment and no row comes or goes.
Leaves ==
    /\ UNCHANGED <<eval, abandoned, raced>> /\ lapsed' \subseteq Contact
    /\ enrolment' \in [Enrolled -> {"none", "active", "stopped"}]
    /\ row' \in [Queued -> RowStatus]
    /\ \A k \in Enrolled : /\ enrolment'[k] = "none" <=> enrolment[k] = "none"
                           /\ enrolment[k] = "stopped" => enrolment'[k] = "stopped"
    /\ \A q \in Queued : row'[q] = "none" <=> row[q] = "none"

LEMMA BeginWanders ==
    ASSUME Base, NEW e \in Evaluator, NEW anchor \in Anchor, NEW trigger \in Trigger,
           anchor = NoOrder <=> trigger = "days_since_last_order", Begin(e, anchor, trigger)
    PROVE  Wanders(e)
<1> DEFINE fresh == [Idle EXCEPT !.anchor = anchor, !.todo = Considered(trigger),
                                 !.live = {c \in Considered(trigger) : campaign[c] = "active"}]
<1>1. /\ eval[e].at = "idle" /\ eval' = [eval EXCEPT ![e] = NextUp(fresh)]
      /\ UNCHANGED <<tables, stopping, history>>
  BY DEF Begin
<1>2. /\ fresh.anchor = anchor /\ fresh.todo = Considered(trigger) /\ fresh.candidates = {}
      /\ fresh.left = <<>>
  BY DEF Idle
<1> HIDE DEF fresh
<1>3. Underway(fresh)
  BY <1>2 DEF Underway, Fits, Considered
<1> QED BY <1>1, <1>3, NextUpProper DEF Wanders

LEMMA PickWanders ==
    ASSUME Base, NEW e \in Evaluator, NEW c \in Campaign, PickCampaign(e, c)
    PROVE  Wanders(e)
<1> DEFINE subjects == IF eval[e].anchor = NoOrder THEN Candidates(c) ELSE {BuyerOf[eval[e].anchor]}
           tripped == eval[e].anchor = NoOrder /\ Cardinality(subjects) > Ceiling
           picked == [eval[e] EXCEPT !.on = c, !.todo = eval[e].todo \ {c}, !.candidates = subjects]
<1>1. /\ eval[e].at = "walk" /\ c \in eval[e].todo
      /\ eval' = [eval EXCEPT ![e] = IF tripped THEN Idle ELSE NextUp(picked)]
      /\ UNCHANGED <<tables, stopping, history>>
  BY DEF PickCampaign
<1>2. /\ picked.anchor = eval[e].anchor /\ picked.left = eval[e].left
      /\ picked.todo = eval[e].todo \ {c} /\ picked.on = c /\ picked.candidates = subjects
  OBVIOUS
<1>3. Proper(eval[e])
  BY DEF Base
<1>4. subjects \subseteq Contact
  BY <1>3, EnrolmentConstants DEF Base, Candidates, Proper, Underway, Anchor
<1> HIDE DEF subjects, tripped, picked
<1>5. Underway(picked)
  BY <1>1, <1>2, <1>3, <1>4 DEF Underway, Proper
<1>6. Idle.at = "idle"
  BY DEF Idle
<1>7. CASE tripped
  BY <1>1, <1>6, <1>7, IdleProper DEF Wanders
<1>8. CASE ~tripped
  BY <1>1, <1>5, <1>8, NextUpProper DEF Wanders
<1> QED BY <1>7, <1>8

LEMMA JudgeMoves ==
    ASSUME Base, NEW e \in Evaluator, NEW k \in Contact, NEW taken \in BOOLEAN, Judge(e, k, taken)
    PROVE  Wanders(e) \/ Takes(e)
<1> DEFINE checked == eval[e].on \in OneTime /\ eval[e].anchor # NoOrder
           judged == [eval[e] EXCEPT !.candidates = eval[e].candidates \ {k}]
           chosen == [judged EXCEPT !.at = "insert", !.who = k]
           enrols == /\ taken /\ eval[e].on \in eval[e].live
                     /\ checked => EnrolledIn(eval[e].on, k) = {}
<1>1. /\ eval[e].at = "judge" /\ UNCHANGED <<tables, stopping, history>>
      /\ eval' = [eval EXCEPT ![e] = IF enrols THEN chosen ELSE NextUp(judged)]
  BY DEF Judge
<1>2. /\ judged.anchor = eval[e].anchor /\ judged.left = eval[e].left /\ judged.on = eval[e].on
      /\ judged.todo = eval[e].todo /\ judged.candidates = eval[e].candidates \ {k}
  OBVIOUS
<1>3. /\ chosen.anchor = judged.anchor /\ chosen.left = judged.left /\ chosen.on = judged.on
      /\ chosen.todo = judged.todo /\ chosen.candidates = judged.candidates
      /\ chosen.at = "insert" /\ chosen.who = k
  OBVIOUS
<1>4. Proper(eval[e])
  BY DEF Base
<1>5. enrols => (checked => EnrolledIn(eval[e].on, k) = {})
  OBVIOUS
<1> HIDE DEF enrols, chosen, judged
<1>6. Underway(judged)
  BY <1>1, <1>2, <1>4 DEF Underway, Proper
<1>7. Proper(chosen)
  BY <1>1, <1>2, <1>3, <1>4, <1>6 DEF Underway, Proper
<1>8. CASE enrols
  <2>1. eval' = [eval EXCEPT ![e] = chosen]
    BY <1>1, <1>8
  <2>2. chosen.on \in OneTime /\ chosen.anchor # NoOrder => EnrolledIn(chosen.on, chosen.who) = {}
    BY <1>2, <1>3, <1>5, <1>8
  <2> QED BY <1>1, <1>3, <1>7, <2>1, <2>2 DEF Takes
<1>9. CASE ~enrols
  BY <1>1, <1>6, <1>9, NextUpProper DEF Wanders
<1> QED BY <1>8, <1>9

LEMMA EvaluateMoves ==
    ASSUME Base, NEW e \in Evaluator, Evaluate(e)
    PROVE  Wanders(e) \/ Takes(e) \/ CreateEnrolment(e) \/ ReadJourney(e) \/ QueueMessage(e) \/ Die(e)
<1>1. ASSUME NEW o \in Order, EvaluateTrigger(e, o) PROVE Wanders(e)
  BY <1>1, BeginWanders, EnrolmentConstants DEF EvaluateTrigger, Anchor, Trigger
<1>2. ASSUME RunTimeTriggers(e) PROVE Wanders(e)
  BY <1>2, BeginWanders DEF RunTimeTriggers, Anchor, Trigger
<1>3. ASSUME NEW c \in Campaign, PickCampaign(e, c) PROVE Wanders(e)
  BY <1>3, PickWanders
<1>4. ASSUME NEW k \in Contact, NEW taken \in BOOLEAN, Judge(e, k, taken)
      PROVE  Wanders(e) \/ Takes(e)
  BY <1>4, JudgeMoves
<1> QED BY <1>1, <1>2, <1>3, <1>4 DEF Evaluate

LEMMA RowsKept ==
    ASSUME Base, NEW S, NEW status \in RowStatus \ {"none"}, row' = WithRows(S, status),
           \A q \in S : q \in Queued => row[q] # "none"
    PROVE  /\ row' \in [Queued -> RowStatus]
           /\ \A q \in Queued : row'[q] = IF q \in S THEN status ELSE row[q]
           /\ \A q \in Queued : row'[q] = "none" <=> row[q] = "none"
<1>1. \A q \in Queued : row'[q] = IF q \in S THEN status ELSE row[q]
  BY DEF WithRows
<1>2. row' \in [Queued -> RowStatus]
  BY DEF WithRows, Base
<1> QED BY <1>1, <1>2

LEMMA DeliveryLeaves ==
    ASSUME Base, Delivery
    PROVE  Leaves /\ stopping' = stopping /\ silenced' = silenced /\ enrolment' = enrolment
<1> DEFINE Done == Leaves /\ stopping' = stopping /\ silenced' = silenced /\ enrolment' = enrolment
<1>1. ASSUME Delivers, row' = row PROVE Done
  BY <1>1 DEF Delivers, Leaves, Base
<1>2. ASSUME NEW S, NEW status \in RowStatus \ {"none"}, row' = WithRows(S, status), Delivers,
             \A r \in S : row[r] # "none"
      PROVE  Done
  <2>1. /\ row' \in [Queued -> RowStatus]
        /\ \A r \in Queued : row'[r] = "none" <=> row[r] = "none"
    BY <1>2, RowsKept
  <2> QED BY <1>2, <2>1 DEF Delivers, Leaves, Base
<1>3. Pass \subseteq RowStatus \ {"none"} /\ {"pending", "sent", "failed", "cancelled"} \subseteq RowStatus \ {"none"}
  BY EnrolmentConstants DEF RowStatus
<1>4. ASSUME NEW p \in Pass, NEW status \in {"pending", "sent", "failed", "cancelled"},
             Fenced(p, status), Delivers
      PROVE  Done
  <2>1. CASE Holds(p)
    <3>1. row' = WithRows({work[p].row}, status) /\ row[work[p].row] # "none"
      BY <1>3, <1>4, <2>1 DEF Fenced, Holds
    <3> QED BY <1>2, <1>3, <1>4, <3>1
  <2>2. CASE ~Holds(p)
    BY <1>1, <1>4, <2>2 DEF Fenced
  <2> QED BY <2>1, <2>2
<1>5. ASSUME NEW p \in Pass, NEW q \in Queued, ClaimRow(p, q) PROVE Done
  BY <1>2, <1>3, <1>5 DEF ClaimRow
<1>6. ASSUME NEW p \in Pass, (\E further \in {"passed", "defer", "cancel"} : Gates(p, further))
                               \/ Refresh(p) \/ HandOver(p)
      PROVE  Done
  BY <1>1, <1>6 DEF Gates, Refresh, HandOver
<1>7. ASSUME NEW p \in Pass, Write(p) PROVE Done
  BY <1>4, <1>7 DEF Write, Outcome
<1>8. ASSUME NEW p \in Pass, Break(p) PROVE Done
  BY <1>1, <1>4, <1>8 DEF Break
<1>9. ASSUME NEW q \in Queued, Reclaim(q) PROVE Done
  <2>1. PICK status \in {"pending", "failed"} : row' = WithRows({q}, status)
    BY <1>9 DEF Reclaim
  <2>2. row[q] # "none" /\ Delivers
    BY <1>3, <1>9 DEF Reclaim
  <2> QED BY <1>2, <1>3, <2>1, <2>2
<1> QED BY <1>5, <1>6, <1>7, <1>8, <1>9 DEF Delivery, Deliver

LEMMA JobsLeave ==
    ASSUME Base, Jobs
    PROVE  Leaves /\ StopsFit'
<1>1. ASSUME NEW found \in SUBSET {k \in Enrolled : enrolment[k] = "active"}, FindStopped(found)
      PROVE  Leaves /\ StopsFit'
  <2>1. stopping' = [found |-> found, clear |-> {}] /\ UNCHANGED <<tables, eval, history>>
    BY <1>1 DEF FindStopped, NotStopping
  <2>2. StopsFit'
    BY <2>1 DEF Base, StopsFit, tables, history
  <2> QED BY <2>1, <2>2 DEF Leaves, Base, tables, history
<1>2. ASSUME NEW k \in Enrolled, StopEnrolment(k) PROVE Leaves /\ StopsFit'
  <2>1. /\ k \in stopping.found /\ enrolment[k] # "none"
        /\ enrolment' = [enrolment EXCEPT ![k] = "stopped"]
        /\ stopping' = [found |-> stopping.found \ {k}, clear |-> {k}]
        /\ UNCHANGED <<lapsed, row, eval, history>>
    BY <1>2 DEF StopEnrolment, Base, StopsFit
  <2>2. /\ enrolment' \in [Enrolled -> {"none", "active", "stopped"}]
        /\ enrolment'[k] = "stopped"
        /\ \A j \in Enrolled : j # k => enrolment'[j] = enrolment[j]
    BY <2>1 DEF Base
  <2>3. StopsFit'
    BY <2>1, <2>2 DEF Base, StopsFit, history
  <2> QED BY <2>1, <2>2, <2>3 DEF Leaves, Base, history
<1>3. ASSUME NEW k \in Enrolled, ClearStopped(k) PROVE Leaves /\ StopsFit'
  <2>1. /\ k \in stopping.clear /\ stopping' = [stopping EXCEPT !.clear = {}]
        /\ silenced' = silenced \cup {k}
        /\ UNCHANGED <<lapsed, enrolment, eval, abandoned, raced>>
        /\ row' = WithRows({q \in RowsOf(k) : row[q] \in Cancellable}, "cancelled")
    BY <1>3 DEF ClearStopped
  <2>2. /\ row' \in [Queued -> RowStatus]
        /\ \A q \in Queued : row'[q] = "none" <=> row[q] = "none"
    <3>1. "cancelled" \in RowStatus \ {"none"} /\ "none" \notin Cancellable
      BY EnrolmentConstants DEF Cancellable, RowStatus
    <3> QED BY <2>1, <3>1, RowsKept
  <2>3. StopsFit'
    BY <2>1 DEF Base, StopsFit
  <2> QED BY <2>1, <2>2, <2>3 DEF Leaves, Base
<1>4. ASSUME StopJobDies PROVE Leaves /\ StopsFit'
  BY <1>4 DEF StopJobDies, NotStopping, Base, StopsFit, Leaves, tables, history
<1>5. ASSUME NEW S, NEW status \in RowStatus \ {"none"}, row' = WithRows(S, status),
             \A q \in S : row[q] = "parked",
             UNCHANGED <<lapsed, enrolment, eval, stopping, history>>
      PROVE  Leaves /\ StopsFit'
  <2>1. /\ row' \in [Queued -> RowStatus]
        /\ \A q \in Queued : row'[q] = "none" <=> row[q] = "none"
    BY <1>5, RowsKept
  <2> QED BY <1>5, <2>1 DEF Base, StopsFit, Leaves, history
<1>6. ASSUME DeliveryAnchors PROVE Leaves /\ StopsFit'
  BY <1>5, <1>6 DEF DeliveryAnchors, Resolvable, RowStatus
<1>7. ASSUME NEW q \in Queued, ExpireAnchors(q) PROVE Leaves /\ StopsFit'
  BY <1>5, <1>7 DEF ExpireAnchors, RowStatus
<1> QED BY <1>1, <1>2, <1>3, <1>4, <1>6, <1>7 DEF Jobs

\* What is not a step of an evaluation leaves the evaluations alone.
LEMMA OthersLeave ==
    ASSUME Base, Jobs \/ World \/ Delivery \/ UNCHANGED vars
    PROVE  Leaves /\ StopsFit'
<1>1. CASE Jobs
  BY <1>1, JobsLeave
<1>2. CASE World \/ UNCHANGED vars
  <2>1. UNCHANGED <<enrolment, row, eval, stopping, history>> /\ lapsed' \subseteq Contact
    BY <1>2 DEF World, OrderDelivered, Lapse, SetCampaign, vars, history, Base
  <2> QED BY <2>1 DEF Base, StopsFit, Leaves, history
<1>3. CASE Delivery
  <2>1. Leaves /\ stopping' = stopping /\ silenced' = silenced /\ enrolment' = enrolment
    BY <1>3, DeliveryLeaves
  <2> QED BY <2>1 DEF Base, StopsFit
<1> QED BY <1>1, <1>2, <1>3

-----------------------------------------------------------------------------
(* The base is kept                                                        *)

LEMMA EvalStaysProper ==
    ASSUME Base, NEW e \in Evaluator, NEW p, Proper(p), eval' = [eval EXCEPT ![e] = p]
    PROVE  /\ DOMAIN eval' = Evaluator /\ \A d \in Evaluator : Proper(eval'[d])
           /\ eval'[e] = p /\ \A d \in Evaluator : d # e => eval'[d] = eval[d]
BY DEF Base

\* Where an evaluation is when it creates, reads or queues.
LEMMA KeyEnrolled ==
    ASSUME Base, NEW e \in Evaluator, eval[e].at \in {"insert", "read", "queue"}
    PROVE  /\ Key(e) \in Enrolled /\ eval[e].on \in Campaign /\ eval[e].who \in Contact
           /\ eval[e].anchor \in Anchor /\ Fits(eval[e].on, eval[e].anchor)
BY DEF Base, Proper, Underway, Key, Enrolled

\* The next message of a journey is one of the campaign's.
LEMMA NextMessage ==
    ASSUME Base, NEW e \in Evaluator, eval[e].at = "queue"
    PROVE  /\ eval[e].left \in Seq(Message) /\ eval[e].left # <<>>
           /\ <<Head(eval[e].left), eval[e].who, eval[e].anchor>> \in Queued
           /\ <<Head(eval[e].left), eval[e].who, eval[e].anchor>> \in RowsOf(Key(e))
<1>1. /\ eval[e].left \in Seq(Message) /\ eval[e].left # <<>>
      /\ \A j \in DOMAIN eval[e].left :
            \E i \in DOMAIN Journey[eval[e].on] : Journey[eval[e].on][i] = eval[e].left[j]
  BY DEF Base, Proper, Underway
<1>2. 1 \in DOMAIN eval[e].left /\ Head(eval[e].left) = eval[e].left[1] /\ Head(eval[e].left) \in Message
  BY <1>1
<1>3. \E i \in DOMAIN Journey[eval[e].on] : Journey[eval[e].on][i] = Head(eval[e].left)
  BY <1>1, <1>2
<1>4. eval[e].who \in Contact /\ eval[e].anchor \in Anchor
  BY KeyEnrolled
<1> DEFINE q == <<Head(eval[e].left), eval[e].who, eval[e].anchor>>
<1>5. q \in Queued
  BY <1>2, <1>4 DEF Queued
<1>6. q \in RowsOf(Key(e))
  BY <1>3, <1>5 DEF RowsOf, Key
<1> QED BY <1>1, <1>5, <1>6

\* An evaluation that stays with its contact.
SameKey(p, e) == p.on = eval[e].on /\ p.who = eval[e].who /\ p.anchor = eval[e].anchor

\* What the three writing steps do to the evaluation.
LEMMA CreateMoves ==
    ASSUME Base, NEW e \in Evaluator, CreateEnrolment(e)
    PROVE  /\ eval[e].at = "insert" /\ UNCHANGED <<lapsed, row, stopping, abandoned, silenced>>
           /\ \E p : /\ eval' = [eval EXCEPT ![e] = p] /\ Proper(p)
                     /\ \/ /\ enrolment[Key(e)] = "none" /\ p.at = "read" /\ SameKey(p, e)
                           /\ enrolment' = [enrolment EXCEPT ![Key(e)] = "active"]
                        \/ /\ p.at \in {"idle", "walk", "judge"} /\ enrolment' = enrolment
<1>1. eval[e].at = "insert" /\ UNCHANGED <<lapsed, row, stopping, abandoned, silenced>>
  BY DEF CreateEnrolment
<1>2. Proper(eval[e])
  BY DEF Base
<1>3. CASE enrolment[Key(e)] = "none"
  <2> DEFINE p == [eval[e] EXCEPT !.at = "read"]
  <2>1. eval' = [eval EXCEPT ![e] = p] /\ enrolment' = [enrolment EXCEPT ![Key(e)] = "active"]
    BY <1>3 DEF CreateEnrolment, Goes
  <2>2. /\ p.at = "read" /\ p.on = eval[e].on /\ p.who = eval[e].who /\ p.anchor = eval[e].anchor
        /\ p.todo = eval[e].todo /\ p.candidates = eval[e].candidates /\ p.left = eval[e].left
    OBVIOUS
  <2> HIDE DEF p
  <2>3. Proper(p)
    BY <1>1, <1>2, <2>2 DEF Proper, Underway
  <2> QED BY <1>1, <1>3, <2>1, <2>2, <2>3 DEF SameKey
<1>4. CASE enrolment[Key(e)] # "none"
  <2>1. eval' = [eval EXCEPT ![e] = NextUp(eval[e])] /\ enrolment' = enrolment
    BY <1>4 DEF CreateEnrolment, GoesOn
  <2>2. Proper(NextUp(eval[e])) /\ NextUp(eval[e]).at \in {"idle", "walk", "judge"}
    BY <1>2, NextUpProper DEF Proper
  <2> QED BY <1>1, <2>1, <2>2
<1> QED BY <1>3, <1>4

LEMMA ReadMoves ==
    ASSUME Base, NEW e \in Evaluator, ReadJourney(e)
    PROVE  /\ eval[e].at = "read" /\ UNCHANGED <<tables, stopping, history>>
           /\ \E p : /\ eval' = [eval EXCEPT ![e] = p] /\ Proper(p)
                     /\ \/ p.at = "queue" /\ SameKey(p, e) /\ p.left = Journey[eval[e].on]
                        \/ p.at \in {"idle", "walk", "judge"} /\ Journey[eval[e].on] = <<>>
<1>1. eval[e].at = "read" /\ UNCHANGED <<tables, stopping, history>>
  BY DEF ReadJourney
<1>2. Proper(eval[e])
  BY DEF Base
<1>3. CASE Journey[eval[e].on] = <<>>
  <2>1. eval' = [eval EXCEPT ![e] = NextUp(eval[e])]
    BY <1>3 DEF ReadJourney
  <2>2. Proper(NextUp(eval[e])) /\ NextUp(eval[e]).at \in {"idle", "walk", "judge"}
    BY <1>2, NextUpProper DEF Proper
  <2> QED BY <1>1, <1>3, <2>1, <2>2
<1>4. CASE Journey[eval[e].on] # <<>>
  <2> DEFINE delivered == eval[e].anchor # NoOrder /\ order[eval[e].anchor] = "delivered"
             p == [eval[e] EXCEPT !.at = "queue", !.left = Journey[eval[e].on],
                                  !.delivered = delivered]
  <2>1. eval' = [eval EXCEPT ![e] = p]
    BY <1>4 DEF ReadJourney
  <2>2. /\ p.at = "queue" /\ p.on = eval[e].on /\ p.who = eval[e].who /\ p.anchor = eval[e].anchor
        /\ p.todo = eval[e].todo /\ p.candidates = eval[e].candidates
        /\ p.left = Journey[eval[e].on]
    OBVIOUS
  <2> HIDE DEF p
  <2>3. eval[e].on \in Campaign /\ Journey[eval[e].on] \in Seq(Message)
    BY <1>1, KeyEnrolled, EnrolmentConstants
  <2>4. Proper(p)
    BY <1>1, <1>2, <1>4, <2>2, <2>3 DEF Proper, Underway
  <2> QED BY <1>1, <2>1, <2>2, <2>4 DEF SameKey
<1> QED BY <1>3, <1>4

LEMMA QueueMoves ==
    ASSUME Base, NEW e \in Evaluator, QueueMessage(e)
    PROVE  LET q == <<Head(eval[e].left), eval[e].who, eval[e].anchor>>
           IN  /\ eval[e].at = "queue" /\ UNCHANGED <<lapsed, enrolment, stopping, history>>
               /\ row' \in [Queued -> RowStatus]
               /\ \A r \in Queued : row'[r] # row[r] =>
                     r = q /\ row[r] = "none" /\ row'[r] \in {"parked", "pending"}
               /\ <<q[1], q[2]>> \in Unreachable \/ row'[q] # "none"
               /\ \E p : /\ eval' = [eval EXCEPT ![e] = p] /\ Proper(p)
                         /\ \/ p.at = "queue" /\ SameKey(p, e) /\ p.left = Tail(eval[e].left)
                            \/ p.at \in {"idle", "walk", "judge"} /\ Len(eval[e].left) = 1
<1> DEFINE m == Head(eval[e].left)
           q == <<m, eval[e].who, eval[e].anchor>>
           due == IF m \in OnDelivery /\ ~eval[e].delivered THEN "parked" ELSE "pending"
<1>1. /\ eval[e].at = "queue" /\ UNCHANGED <<lapsed, enrolment, stopping, history>>
      /\ row' = IF row[q] = "none" /\ <<m, q[2]>> \notin Unreachable THEN [row EXCEPT ![q] = due] ELSE row
  BY DEF QueueMessage
<1>2. Proper(eval[e]) /\ row \in [Queued -> RowStatus]
  BY DEF Base
<1>3. q \in Queued /\ eval[e].left \in Seq(Message) /\ eval[e].left # <<>>
  BY <1>1, NextMessage
<1>4. due \in {"parked", "pending"}
  OBVIOUS
<1> HIDE DEF due
<1>5. /\ row' \in [Queued -> RowStatus]
      /\ \A r \in Queued : row'[r] # row[r] =>
            r = q /\ row[r] = "none" /\ row'[r] \in {"parked", "pending"}
      /\ <<q[1], q[2]>> \in Unreachable \/ row'[q] # "none"
  <2>1. CASE row[q] = "none" /\ <<m, q[2]>> \notin Unreachable
    <3>1. row' = [row EXCEPT ![q] = due]
      BY <1>1, <2>1
    <3> HIDE DEF q
    <3> QED BY <1>2, <1>3, <1>4, <2>1, <3>1 DEF RowStatus
  <2>2. CASE ~(row[q] = "none" /\ <<m, q[2]>> \notin Unreachable)
    <3>1. row' = row
      BY <1>1, <2>2
    <3> QED BY <1>2, <2>2, <3>1
  <2> QED BY <2>1, <2>2
<1>6. \E p : /\ eval' = [eval EXCEPT ![e] = p] /\ Proper(p)
             /\ \/ p.at = "queue" /\ SameKey(p, e) /\ p.left = Tail(eval[e].left)
                \/ p.at \in {"idle", "walk", "judge"} /\ Len(eval[e].left) = 1
  <2>1. CASE Len(eval[e].left) = 1
    <3>1. eval' = [eval EXCEPT ![e] = NextUp(eval[e])]
      BY <2>1 DEF QueueMessage, GoesOn
    <3>2. Proper(NextUp(eval[e])) /\ NextUp(eval[e]).at \in {"idle", "walk", "judge"}
      BY <1>2, NextUpProper DEF Proper
    <3> QED BY <2>1, <3>1, <3>2
  <2>2. CASE Len(eval[e].left) # 1
    <3> DEFINE p == [eval[e] EXCEPT !.left = Tail(eval[e].left)]
    <3>1. eval' = [eval EXCEPT ![e] = p]
      BY <2>2 DEF QueueMessage
    <3>2. /\ p.at = eval[e].at /\ p.on = eval[e].on /\ p.who = eval[e].who /\ p.anchor = eval[e].anchor
          /\ p.todo = eval[e].todo /\ p.candidates = eval[e].candidates
          /\ p.left = Tail(eval[e].left)
      OBVIOUS
    <3> HIDE DEF p
    <3>3. /\ Tail(eval[e].left) \in Seq(Message) /\ Tail(eval[e].left) # <<>>
          /\ \A j \in DOMAIN Tail(eval[e].left) :
                j + 1 \in DOMAIN eval[e].left /\ Tail(eval[e].left)[j] = eval[e].left[j + 1]
      <4> DEFINE s == eval[e].left
      <4>1. s \in Seq(Message) /\ s # <<>> /\ Len(s) # 1
        BY <1>3, <2>2
      <4> HIDE DEF s
      <4>2. /\ Tail(s) \in Seq(Message) /\ Len(Tail(s)) = Len(s) - 1
            /\ \A j \in 1 .. Len(Tail(s)) : Tail(s)[j] = s[j + 1]
        BY <4>1, HeadTailProperties
      <4>3. Len(s) # 0 /\ (Tail(s) = <<>> => Len(Tail(s)) = 0)
        BY <4>1, <4>2, EmptySeq
      <4>5. Len(s) \in Nat /\ DOMAIN s = 1 .. Len(s) /\ DOMAIN Tail(s) = 1 .. Len(Tail(s))
        BY <4>1, <4>2, LenProperties
      <4>4. Len(Tail(s)) # 0 /\ \A j \in 1 .. Len(s) - 1 : j + 1 \in 1 .. Len(s)
        BY <4>1, <4>2, <4>3, <4>5
      <4> QED BY <4>1, <4>2, <4>3, <4>4, <4>5 DEF s
    <3>4. \A j \in DOMAIN p.left : \E i \in DOMAIN Journey[p.on] : Journey[p.on][i] = p.left[j]
      BY SMTT(30), <1>1, <1>2, <3>2, <3>3 DEF Proper
    <3>5. Underway(p)
      BY <1>2, <3>2, <3>3 DEF Proper, Underway
    <3>6. Proper(p)
      BY <1>1, <1>2, <3>2, <3>3, <3>4, <3>5 DEF Proper
    <3> QED BY <1>1, <3>1, <3>2, <3>6 DEF SameKey
  <2> QED BY <2>1, <2>2
<1> QED BY <1>1, <1>5, <1>6

LEMMA BaseStep == Base /\ [Next]_vars => Base'
<1> SUFFICES ASSUME Base, [Next]_vars PROVE Base'
  OBVIOUS
<1>1. ASSUME UNCHANGED <<enrolment, row, stopping, silenced>>, lapsed' \subseteq Contact,
             NEW e \in Evaluator, NEW p, Proper(p), eval' = [eval EXCEPT ![e] = p]
      PROVE  Base'
  <2>1. DOMAIN eval' = Evaluator /\ \A d \in Evaluator : Proper(eval'[d])
    BY <1>1, EvalStaysProper
  <2>2. StopsFit'
    BY <1>1 DEF Base, StopsFit
  <2> QED BY <1>1, <2>1, <2>2 DEF Base
<1>2. ASSUME NEW e \in Evaluator, Wanders(e) \/ Takes(e) \/ ReadJourney(e) \/ Die(e)
      PROVE  Base'
  <2>1. UNCHANGED <<enrolment, row, stopping, silenced, lapsed>>
    BY <1>2 DEF Wanders, Takes, ReadJourney, Die, tables, history
  <2>2. \E p : Proper(p) /\ eval' = [eval EXCEPT ![e] = p]
    BY <1>2, ReadMoves, IdleProper DEF Wanders, Takes, Die
  <2> QED BY <1>1, <2>1, <2>2 DEF Base
<1>3. ASSUME NEW e \in Evaluator, CreateEnrolment(e) PROVE Base'
  <2>1. PICK p : /\ eval' = [eval EXCEPT ![e] = p] /\ Proper(p)
                 /\ \/ /\ enrolment[Key(e)] = "none"
                       /\ enrolment' = [enrolment EXCEPT ![Key(e)] = "active"]
                    \/ enrolment' = enrolment
    BY <1>3, CreateMoves
  <2>2. eval[e].at = "insert" /\ UNCHANGED <<lapsed, row, stopping, abandoned, silenced>>
    BY <1>3, CreateMoves
  <2>3. CASE enrolment' = enrolment
    BY <1>1, <2>1, <2>2, <2>3 DEF Base
  <2>4. CASE /\ enrolment[Key(e)] = "none"
             /\ enrolment' = [enrolment EXCEPT ![Key(e)] = "active"]
    <3>1. Key(e) \in Enrolled /\ Fits(Key(e)[1], Key(e)[3])
      BY <2>2, KeyEnrolled DEF Key
    <3>2. /\ enrolment' \in [Enrolled -> {"none", "active", "stopped"}]
          /\ \A k \in Enrolled : k # Key(e) => enrolment'[k] = enrolment[k]
      BY <2>4, <3>1 DEF Base
    <3>3. StopsFit'
      BY <2>2, <2>4, <3>2 DEF Base, StopsFit
    <3>4. \A k \in Enrolled : enrolment'[k] # "none" => Fits(k[1], k[3])
      BY <3>1, <3>2 DEF Base
    <3>5. DOMAIN eval' = Evaluator /\ \A d \in Evaluator : Proper(eval'[d])
      BY <2>1, EvalStaysProper
    <3> QED BY <2>2, <3>2, <3>3, <3>4, <3>5 DEF Base
  <2> QED BY <2>1, <2>3, <2>4
<1>4. ASSUME NEW e \in Evaluator, QueueMessage(e) PROVE Base'
  <2> DEFINE q == <<Head(eval[e].left), eval[e].who, eval[e].anchor>>
  <2>1. /\ eval[e].at = "queue" /\ UNCHANGED <<lapsed, enrolment, stopping, history>>
        /\ row' \in [Queued -> RowStatus]
        /\ \A r \in Queued : row'[r] # row[r] => r = q
        /\ \E p : eval' = [eval EXCEPT ![e] = p] /\ Proper(p)
    BY <1>4, QueueMoves
  <2>2. q \in RowsOf(Key(e)) /\ Key(e) \in Enrolled
    BY <2>1, NextMessage, KeyEnrolled
  <2> HIDE DEF q
  <2>3. \A r \in Queued : row'[r] # "none" => \E k \in Enrolled : r \in RowsOf(k)
    BY <2>1, <2>2 DEF Base
  <2>4. StopsFit'
    BY <2>1 DEF Base, StopsFit, history
  <2>5. DOMAIN eval' = Evaluator /\ \A d \in Evaluator : Proper(eval'[d])
    BY <2>1, EvalStaysProper
  <2> QED BY <2>1, <2>3, <2>4, <2>5 DEF Base
<1>5. ASSUME Jobs \/ World \/ Delivery \/ UNCHANGED vars PROVE Base'
  <2>1. Leaves /\ StopsFit'
    BY <1>5, OthersLeave
  <2>2. \A q \in Queued : row'[q] # "none" => \E k \in Enrolled : q \in RowsOf(k)
    BY <2>1 DEF Base, Leaves
  <2>3. \A k \in Enrolled : enrolment'[k] # "none" => Fits(k[1], k[3])
    BY <2>1 DEF Base, Leaves
  <2> QED BY <2>1, <2>2, <2>3 DEF Base, Leaves
<1>6. ASSUME NEW e \in Evaluator, Evaluate(e) PROVE Base'
  BY <1>2, <1>3, <1>4, <1>6, EvaluateMoves
<1> QED BY <1>5, <1>6 DEF Next

\* The tables fit each other in every state of every instance.
THEOREM BaseHolds == Spec => []Base
BY BaseStart, BaseStep, PTL DEF Spec

-----------------------------------------------------------------------------
(* Campaigns that take a contact once                                      *)

Twice(c, k) ==
    \E a \in Anchor, b \in Anchor :
        a # b /\ enrolment[<<c, k, a>>] # "none" /\ enrolment[<<c, k, b>>] # "none"

\* The SELECT still tells the truth to whoever has not been raced.
Chosen(p) ==
    p.at = "insert" /\ p.on \in OneTime
        => <<p.on, p.who>> \in raced \/ p.anchor = NoOrder \/ EnrolledIn(p.on, p.who) = {}

(***************************************************************************)
(* OneTimeUnlessRaced is not inductive: an INSERT must be known to come    *)
(* after a SELECT that found nothing, or to have met another one.          *)
(***************************************************************************)
Once ==
    /\ \A e \in Evaluator : Chosen(eval[e])
    /\ \A c \in OneTime, k \in Contact : Twice(c, k) => <<c, k>> \in raced

LEMMA OnceStart == Init => Once
<1> SUFFICES ASSUME Init PROVE Once
  OBVIOUS
<1>1. ASSUME NEW e \in Evaluator PROVE Chosen(eval[e])
  <2>1. eval[e].at = "idle"
    BY DEF Init, Idle
  <2> QED BY <2>1 DEF Chosen
<1>2. ASSUME NEW c \in OneTime, NEW k \in Contact, NEW a \in Anchor
      PROVE  enrolment[<<c, k, a>>] = "none"
  <2>1. <<c, k, a>> \in Enrolled
    BY EnrolmentConstants DEF Enrolled
  <2> QED BY <2>1 DEF Init
<1> QED BY <1>1, <1>2 DEF Once, Twice

\* Nobody is enrolled and nobody has raced.
LEMMA OnceKept ==
    ASSUME Base, Once, raced' = raced,
           \A k \in Enrolled : enrolment'[k] = "none" <=> enrolment[k] = "none",
           \A e \in Evaluator : \/ eval'[e] = eval[e] \/ eval'[e].at # "insert"
                                \/ eval'[e].on \in OneTime /\ eval'[e].anchor # NoOrder
                                      => EnrolledIn(eval'[e].on, eval'[e].who) = {},
           Base'
    PROVE  Once'
<1>1. \A c \in Campaign, k \in Contact :
          EnrolledIn(c, k)' = EnrolledIn(c, k) /\ (Twice(c, k)' <=> Twice(c, k))
  BY DEF EnrolledIn, Twice, Enrolled
<1>2. \A c \in OneTime, k \in Contact : Twice(c, k)' => <<c, k>> \in raced'
  BY <1>1, EnrolmentConstants DEF Once
<1>3. ASSUME NEW e \in Evaluator, eval'[e].at = "insert"
      PROVE  eval'[e].on \in Campaign /\ eval'[e].who \in Contact
  BY <1>3 DEF Base, Proper
<1>4. ASSUME NEW e \in Evaluator PROVE Chosen(eval[e])'
  BY <1>1, <1>3 DEF Once, Chosen
<1> QED BY <1>2, <1>4 DEF Once

LEMMA OnceCreated ==
    ASSUME Base, Once, Base', NEW e \in Evaluator, CreateEnrolment(e)
    PROVE  Once'
<1> DEFINE c == eval[e].on  k == eval[e].who  a == eval[e].anchor
<1>1. /\ eval[e].at = "insert" /\ Key(e) = <<c, k, a>> /\ Key(e) \in Enrolled
      /\ c \in Campaign /\ k \in Contact /\ a \in Anchor /\ Fits(c, a)
  BY CreateMoves, KeyEnrolled DEF Key
<1>2. PICK p : /\ eval' = [eval EXCEPT ![e] = p] /\ Proper(p)
               /\ \/ /\ enrolment[Key(e)] = "none" /\ p.at = "read"
                     /\ enrolment' = [enrolment EXCEPT ![Key(e)] = "active"]
                  \/ /\ p.at \in {"idle", "walk", "judge"} /\ enrolment' = enrolment
  BY CreateMoves
<1>3. /\ raced \subseteq raced'
      /\ \A d \in Evaluator : d # e /\ eval[d].at = "insert" /\ eval[d].on = c /\ eval[d].who = k
            => <<c, k>> \in raced'
  BY DEF CreateEnrolment
<1>4. eval'[e] = p /\ \A d \in Evaluator : d # e => eval'[d] = eval[d]
  BY <1>2, EvalStaysProper
<1>5. \A j \in Enrolled : j # Key(e) => enrolment'[j] = enrolment[j]
  BY <1>1, <1>2 DEF Base
<1> HIDE DEF c, k, a
<1>6. ASSUME NEW d \in Evaluator PROVE Chosen(eval[d])'
  <2>1. CASE d = e
    BY <1>2, <1>4, <2>1 DEF Chosen
  <2>2. CASE d # e /\ eval[d].at = "insert" /\ eval[d].on \in OneTime
    <3>1. CASE eval[d].on = c /\ eval[d].who = k
      BY <1>3, <1>4, <2>2, <3>1 DEF Chosen
    <3>2. CASE ~(eval[d].on = c /\ eval[d].who = k)
      <4>1. eval[d].on \in Campaign /\ eval[d].who \in Contact
        BY <2>2 DEF Base, Proper
      <4>2. EnrolledIn(eval[d].on, eval[d].who)' = EnrolledIn(eval[d].on, eval[d].who)
        BY <1>1, <1>4, <1>5, <2>2, <3>2, <4>1 DEF EnrolledIn, Enrolled
      <4> QED BY <1>3, <1>4, <2>2, <4>2 DEF Once, Chosen
    <3> QED BY <3>1, <3>2
  <2>3. CASE d # e /\ ~(eval[d].at = "insert" /\ eval[d].on \in OneTime)
    BY <1>4, <2>3 DEF Chosen
  <2> QED BY <2>1, <2>2, <2>3
<1>7. ASSUME NEW d \in OneTime, NEW j \in Contact, Twice(d, j)' PROVE <<d, j>> \in raced'
  <2>1. CASE Twice(d, j)
    BY <1>3, <2>1, <1>7 DEF Once
  <2>2. CASE ~Twice(d, j)
    <3>1. d \in Campaign
      BY EnrolmentConstants
    <3>2. d = c /\ j = k /\ enrolment[Key(e)] = "none"
      BY <1>1, <1>2, <1>5, <1>7, <2>2, <3>1 DEF Twice, Enrolled
    <3>3. PICK b \in Anchor : b # a /\ enrolment[<<c, k, b>>] # "none"
      BY <1>1, <1>5, <1>7, <3>2 DEF Twice, Enrolled
    <3>4. b \in EnrolledIn(c, k) /\ Fits(c, b)
      BY <1>1, <3>3 DEF EnrolledIn, Base, Enrolled
    <3>5. a # NoOrder
      BY <1>1, <3>3, <3>4 DEF Fits
    <3>6. Chosen(eval[e])
      BY DEF Once
    <3> QED BY <1>1, <1>3, <1>7, <3>2, <3>4, <3>5, <3>6 DEF Chosen, c, k, a
  <2> QED BY <2>1, <2>2
<1> QED BY <1>6, <1>7 DEF Once

LEMMA OnceStep == Base /\ Base' /\ Once /\ [Next]_vars => Once'
<1> SUFFICES ASSUME Base, Base', Once, [Next]_vars PROVE Once'
  OBVIOUS
<1>1. ASSUME NEW e \in Evaluator, Wanders(e) \/ Takes(e) \/ ReadJourney(e) \/ Die(e)
      PROVE  Once'
  <2>1. UNCHANGED <<enrolment, raced>>
    BY <1>1 DEF Wanders, Takes, ReadJourney, Die, tables, history
  <2>2. PICK p : /\ eval' = [eval EXCEPT ![e] = p] /\ Proper(p)
                 /\ \/ p.at # "insert"
                    \/ p.on \in OneTime /\ p.anchor # NoOrder => EnrolledIn(p.on, p.who) = {}
    <3>1. CASE Wanders(e) \/ Takes(e)
      BY <3>1 DEF Wanders, Takes
    <3>2. CASE ReadJourney(e)
      BY <3>2, ReadMoves
    <3>3. CASE Die(e)
      <4>1. eval' = [eval EXCEPT ![e] = Idle] /\ Idle.at # "insert"
        BY <3>3 DEF Die, Idle
      <4> QED BY <4>1, IdleProper
    <3> QED BY <1>1, <3>1, <3>2, <3>3
  <2>3. eval'[e] = p /\ \A d \in Evaluator : d # e => eval'[d] = eval[d]
    BY <2>2, EvalStaysProper
  <2> QED BY <2>1, <2>2, <2>3, OnceKept
<1>2. ASSUME NEW e \in Evaluator, QueueMessage(e) PROVE Once'
  <2>1. UNCHANGED <<enrolment, raced>>
    BY <1>2 DEF QueueMessage, history
  <2>2. PICK p : eval' = [eval EXCEPT ![e] = p] /\ Proper(p) /\ p.at # "insert"
    BY <1>2, QueueMoves
  <2>3. eval'[e] = p /\ \A d \in Evaluator : d # e => eval'[d] = eval[d]
    BY <2>2, EvalStaysProper
  <2> QED BY <2>1, <2>2, <2>3, OnceKept
<1>3. ASSUME Jobs \/ World \/ Delivery \/ UNCHANGED vars PROVE Once'
  BY <1>3, OthersLeave, OnceKept DEF Leaves
<1>4. ASSUME NEW e \in Evaluator, Evaluate(e) PROVE Once'
  BY <1>1, <1>2, <1>4, EvaluateMoves, OnceCreated
<1> QED BY <1>3, <1>4 DEF Next

LEMMA OnceImplies == Base /\ Once => OneTimeUnlessRaced
<1> SUFFICES ASSUME Base, Once, NEW c \in OneTime, NEW k \in Contact, <<c, k>> \notin raced
             PROVE  ~(Cardinality(EnrolledIn(c, k)) > 1)
  BY DEF OneTimeUnlessRaced
<1>1. CASE EnrolledIn(c, k) = {}
  BY <1>1, FS_EmptySet
<1>2. CASE EnrolledIn(c, k) # {}
  <2>1. PICK a \in Anchor : a \in EnrolledIn(c, k)
    BY <1>2 DEF EnrolledIn
  <2>2. EnrolledIn(c, k) = {a}
    BY <2>1 DEF Once, Twice, EnrolledIn
  <2> QED BY SMTT(30), <2>2, FS_Singleton
<1> QED BY <1>1, <1>2

\* A one-time campaign takes a contact twice only if two evaluations were past the
\* SELECT together: OneTimeUnlessRaced, for every instance.
THEOREM OneTimeExceptInRaces == Spec => []OneTimeUnlessRaced
BY BaseHolds, OnceStart, OnceStep, OnceImplies, PTL DEF Spec

-----------------------------------------------------------------------------
(* Journeys                                                                *)

\* The message of q cannot reach the contact, or has its row.
Came(q) == <<q[1], q[2]>> \in Unreachable \/ row[q] # "none"

\* What an evaluation no longer has before it has come.
Behind(e) ==
    eval[e].at = "queue"
        => \A q \in RowsOf(Key(e)) : Came(q) \/ \E j \in DOMAIN eval[e].left : eval[e].left[j] = q[1]

(***************************************************************************)
(* JourneyQueued says nothing of a journey that is being queued; the       *)
(* messages an evaluation has left make it inductive.                      *)
(***************************************************************************)
Queueing ==
    /\ \A e \in Evaluator : Behind(e)
    /\ JourneyQueued

LEMMA QueueingStart == Init => Queueing
<1> SUFFICES ASSUME Init PROVE Queueing
  OBVIOUS
<1>1. ASSUME NEW e \in Evaluator PROVE Behind(e)
  <2>1. eval[e].at = "idle"
    BY DEF Init, Idle
  <2> QED BY <2>1 DEF Behind
<1>2. JourneyQueued
  BY DEF Init, JourneyQueued
<1> QED BY <1>1, <1>2 DEF Queueing

LEMMA BehindKept ==
    ASSUME NEW e \in Evaluator, Behind(e), eval'[e] = eval[e],
           \A q \in Queued : row[q] # "none" => row'[q] # "none"
    PROVE  Behind(e)'
<1>1. Key(e)' = Key(e)
  BY DEF Key
<1>2. RowsOf(Key(e)) \subseteq Queued
  BY DEF RowsOf
<1>3. \A q \in RowsOf(Key(e)) : Came(q) => Came(q)'
  BY <1>2 DEF Came
<1>4. ASSUME eval[e].at = "queue", NEW q \in RowsOf(Key(e))
      PROVE  Came(q)' \/ \E j \in DOMAIN eval[e].left : eval[e].left[j] = q[1]
  BY <1>3, <1>4 DEF Behind
<1>5. ASSUME eval'[e].at = "queue", NEW q \in RowsOf(Key(e)')
      PROVE  Came(q)' \/ \E j \in DOMAIN eval'[e].left : eval'[e].left[j] = q[1]
  BY <1>1, <1>4, <1>5
<1> QED BY <1>5 DEF Behind

\* A row that came stays; nobody starts or stops queueing.
LEMMA QueueingKept ==
    ASSUME Base, Queueing,
           \A k \in Enrolled : enrolment'[k] = "none" <=> enrolment[k] = "none",
           \A q \in Queued : row[q] # "none" => row'[q] # "none",
           abandoned' = abandoned,
           \A e \in Evaluator : \/ eval'[e] = eval[e]
                                \/ /\ eval'[e].at \notin {"read", "queue"}
                                   /\ eval[e].at \notin {"read", "queue"}
    PROVE  Queueing'
<1>1. ASSUME NEW e \in Evaluator PROVE Behind(e)'
  <2>1. CASE eval'[e] = eval[e]
    BY <2>1, BehindKept DEF Queueing
  <2>2. CASE eval'[e].at \notin {"read", "queue"}
    BY <2>2 DEF Behind
  <2> QED BY <2>1, <2>2
<1>2. \A k \in Enrolled : Scheduling(k) => Scheduling(k)'
  BY DEF Scheduling, Key
<1>3. JourneyQueued'
  BY <1>2 DEF Queueing, JourneyQueued, RowsOf
<1> QED BY <1>1, <1>3 DEF Queueing

LEMMA QueueingCreated ==
    ASSUME Base, Queueing, NEW e \in Evaluator, CreateEnrolment(e)
    PROVE  Queueing'
<1>1. /\ eval[e].at = "insert" /\ UNCHANGED <<row, abandoned>> /\ Key(e) \in Enrolled
  BY CreateMoves, KeyEnrolled
<1>2. PICK p : /\ eval' = [eval EXCEPT ![e] = p] /\ Proper(p)
               /\ \/ /\ p.at = "read" /\ SameKey(p, e)
                     /\ enrolment' = [enrolment EXCEPT ![Key(e)] = "active"]
                  \/ /\ p.at \in {"idle", "walk", "judge"} /\ enrolment' = enrolment
  BY CreateMoves
<1>3. eval'[e] = p /\ \A d \in Evaluator : d # e => eval'[d] = eval[d]
  BY <1>2, EvalStaysProper
<1>4. CASE enrolment' = enrolment /\ p.at \in {"idle", "walk", "judge"}
  BY <1>1, <1>3, <1>4, QueueingKept
<1>5. CASE /\ p.at = "read" /\ SameKey(p, e)
           /\ enrolment' = [enrolment EXCEPT ![Key(e)] = "active"]
  <2>1. ASSUME NEW d \in Evaluator PROVE Behind(d)'
    <3>1. CASE d = e
      BY <1>3, <1>5, <3>1 DEF Behind
    <3>2. CASE d # e
      BY <1>1, <1>3, <3>2, BehindKept DEF Queueing
    <3> QED BY <3>1, <3>2
  <2>2. eval'[e].at = "read" /\ Key(e)' = Key(e)
    BY <1>3, <1>5 DEF SameKey, Key
  <2>3. \A k \in Enrolled : Scheduling(k) => Scheduling(k)'
    <3>1. \A d \in Evaluator : eval[d].at \in {"read", "queue"} => eval'[d] = eval[d]
      BY <1>1, <1>3
    <3> QED BY <3>1 DEF Scheduling, Key
  <2>4. ASSUME NEW k \in Enrolled, (enrolment[k] # "none")', (k \notin abandoned)', ~Scheduling(k)',
               NEW q \in RowsOf(k), <<q[1], q[2]>> \notin Unreachable
        PROVE  row'[q] # "none"
    <3>1. k # Key(e)
      BY <2>2, <2>4 DEF Scheduling
    <3>2. enrolment[k] # "none" /\ ~Scheduling(k) /\ k \notin abandoned
      BY <1>1, <1>5, <2>3, <2>4, <3>1 DEF Base
    <3> QED BY <1>1, <2>4, <3>2 DEF Queueing, JourneyQueued
  <2> QED BY <2>1, <2>4 DEF Queueing, JourneyQueued
<1> QED BY <1>2, <1>4, <1>5

LEMMA QueueingRead ==
    ASSUME Base, Queueing, NEW e \in Evaluator, ReadJourney(e)
    PROVE  Queueing'
<1>1. /\ eval[e].at = "read" /\ UNCHANGED <<row, enrolment, abandoned>> /\ Key(e) \in Enrolled
  BY ReadMoves, KeyEnrolled DEF tables, history
<1>2. PICK p : /\ eval' = [eval EXCEPT ![e] = p] /\ Proper(p)
               /\ \/ p.at = "queue" /\ SameKey(p, e) /\ p.left = Journey[eval[e].on]
                  \/ p.at \in {"idle", "walk", "judge"} /\ Journey[eval[e].on] = <<>>
  BY ReadMoves
<1>3. eval'[e] = p /\ \A d \in Evaluator : d # e => eval'[d] = eval[d]
  BY <1>2, EvalStaysProper
<1>4. ASSUME NEW d \in Evaluator PROVE Behind(d)'
  <2>1. CASE d = e /\ p.at = "queue"
    <3>1. Key(e)' = Key(e) /\ p.left = Journey[eval[e].on]
      BY <1>2, <1>3, <2>1 DEF SameKey, Key
    <3>2. \A q \in RowsOf(Key(e)) : \E j \in DOMAIN p.left : p.left[j] = q[1]
      BY <3>1 DEF RowsOf, Key
    <3>3. \A q \in RowsOf(Key(e)') : \E j \in DOMAIN eval'[e].left : eval'[e].left[j] = q[1]
      BY <1>3, <3>1, <3>2
    <3> QED BY <2>1, <3>3 DEF Behind
  <2>2. CASE d = e /\ p.at # "queue"
    BY <1>3, <2>2 DEF Behind
  <2>3. CASE d # e
    BY <1>1, <1>3, <2>3, BehindKept DEF Queueing
  <2> QED BY <2>1, <2>2, <2>3
<1>5. ASSUME NEW k \in Enrolled, Scheduling(k), ~Scheduling(k)' PROVE RowsOf(k) = {}
  <2>1. PICK d \in Evaluator : eval[d].at \in {"read", "queue"} /\ Key(d) = k
    BY <1>5 DEF Scheduling
  <2>2. d = e
    BY <1>3, <1>5, <2>1 DEF Scheduling, Key
  <2>3. CASE p.at = "queue" /\ SameKey(p, e)
    <3>1. eval'[e].at = "queue" /\ Key(e)' = Key(e)
      BY <1>3, <2>3 DEF SameKey, Key
    <3> QED BY <1>5, <2>1, <2>2, <3>1 DEF Scheduling, Key
  <2>4. CASE Journey[eval[e].on] = <<>>
    BY <2>1, <2>2, <2>4 DEF RowsOf, Key
  <2> QED BY <1>2, <2>3, <2>4
<1>6. JourneyQueued'
  BY <1>1, <1>5 DEF Queueing, JourneyQueued
<1> QED BY <1>4, <1>6 DEF Queueing

LEMMA QueueingQueued ==
    ASSUME Base, Queueing, NEW e \in Evaluator, QueueMessage(e)
    PROVE  Queueing'
<1> DEFINE head == <<Head(eval[e].left), eval[e].who, eval[e].anchor>>
           rest == Tail(eval[e].left)
<1>1. /\ eval[e].at = "queue" /\ UNCHANGED <<enrolment, abandoned>>
      /\ \A r \in Queued : row'[r] # row[r] => row[r] = "none"
      /\ <<head[1], head[2]>> \in Unreachable \/ row'[head] # "none"
  BY QueueMoves DEF history
<1>2. PICK p : /\ eval' = [eval EXCEPT ![e] = p] /\ Proper(p)
               /\ \/ p.at = "queue" /\ SameKey(p, e) /\ p.left = rest
                  \/ p.at \in {"idle", "walk", "judge"} /\ Len(eval[e].left) = 1
  BY QueueMoves
<1>3. eval'[e] = p /\ \A d \in Evaluator : d # e => eval'[d] = eval[d]
  BY <1>2, EvalStaysProper
<1>4. /\ eval[e].left \in Seq(Message) /\ eval[e].left # <<>>
      /\ \A q \in Queued : row[q] # "none" => row'[q] # "none"
  BY <1>1, NextMessage
<1>5. /\ Head(eval[e].left) = eval[e].left[1] /\ DOMAIN eval[e].left = 1 .. Len(eval[e].left)
      /\ \A j \in DOMAIN eval[e].left \ {1} : j - 1 \in DOMAIN rest /\ rest[j - 1] = eval[e].left[j]
  <2> DEFINE s == eval[e].left
  <2>1. s \in Seq(Message) /\ s # <<>>
    BY <1>4
  <2> HIDE DEF s
  <2>2. /\ Tail(s) \in Seq(Message) /\ Len(Tail(s)) = Len(s) - 1
        /\ \A j \in 1 .. Len(Tail(s)) : Tail(s)[j] = s[j + 1]
    BY <2>1, HeadTailProperties
  <2>3. Len(s) \in Nat /\ DOMAIN s = 1 .. Len(s) /\ DOMAIN Tail(s) = 1 .. Len(Tail(s))
    BY <2>1, <2>2, LenProperties
  <2>4. Head(s) = s[1]
    BY <2>1
  <2>5. \A j \in 1 .. Len(s) : j # 1 => j - 1 \in 1 .. Len(Tail(s)) /\ (j - 1) + 1 = j
    BY <2>2, <2>3
  <2> QED BY <2>2, <2>3, <2>4, <2>5 DEF s
<1> HIDE DEF head, rest
<1>6. ASSUME NEW q \in RowsOf(Key(e))
      PROVE  Came(q)' \/ \E j \in DOMAIN eval[e].left \ {1} : eval[e].left[j] = q[1]
  <2>1. Came(q) \/ \E j \in DOMAIN eval[e].left : eval[e].left[j] = q[1]
    BY <1>1 DEF Queueing, Behind
  <2>2. q \in Queued /\ q = <<q[1], eval[e].who, eval[e].anchor>>
    BY DEF RowsOf, Key, Queued
  <2>3. CASE Came(q)
    BY <1>4, <2>2, <2>3 DEF Came
  <2>4. CASE q[1] = eval[e].left[1]
    <3>1. q = head
      BY <1>5, <2>2, <2>4 DEF head
    <3> QED BY <1>1, <3>1 DEF Came
  <2> QED BY <2>1, <2>3, <2>4
<1>7. ASSUME NEW d \in Evaluator PROVE Behind(d)'
  <2>1. CASE d # e
    BY <1>3, <1>4, <2>1, BehindKept DEF Queueing
  <2>2. CASE d = e /\ p.at = "queue"
    <3>1. Key(e)' = Key(e) /\ p.left = rest
      BY <1>2, <1>3, <2>2 DEF SameKey, Key
    <3>2. ASSUME NEW q \in RowsOf(Key(e)')
          PROVE  Came(q)' \/ \E j \in DOMAIN eval'[e].left : eval'[e].left[j] = q[1]
      BY <1>3, <1>5, <1>6, <3>1
    <3> QED BY <2>2, <3>2 DEF Behind
  <2>3. CASE d = e /\ p.at # "queue"
    BY <1>3, <2>3 DEF Behind
  <2> QED BY <2>1, <2>2, <2>3
<1>8. ASSUME NEW k \in Enrolled, Scheduling(k), ~Scheduling(k)'
      PROVE  \A q \in RowsOf(k) : Came(q)'
  <2>1. PICK d \in Evaluator : eval[d].at \in {"read", "queue"} /\ Key(d) = k
    BY <1>8 DEF Scheduling
  <2>2. d = e
    BY <1>3, <1>8, <2>1 DEF Scheduling, Key
  <2>3. CASE p.at = "queue" /\ SameKey(p, e)
    <3>1. eval'[e].at = "queue" /\ Key(e)' = Key(e)
      BY <1>3, <2>3 DEF SameKey, Key
    <3> QED BY <1>8, <2>1, <2>2, <3>1 DEF Scheduling, Key
  <2>4. CASE Len(eval[e].left) = 1
    BY <1>5, <1>6, <2>1, <2>2, <2>4
  <2> QED BY <1>2, <2>3, <2>4
<1>9. \A k \in Enrolled : \A q \in RowsOf(k) : q \in Queued
  BY DEF RowsOf
<1>10. JourneyQueued'
  BY <1>1, <1>4, <1>8, <1>9 DEF Queueing, JourneyQueued, Came
<1> QED BY <1>7, <1>10 DEF Queueing

LEMMA QueueingDied ==
    ASSUME Base, Queueing, NEW e \in Evaluator, Die(e)
    PROVE  Queueing'
<1>1. /\ eval' = [eval EXCEPT ![e] = Idle] /\ UNCHANGED <<enrolment, row>>
      /\ abandoned' = IF eval[e].at \in {"read", "queue"} THEN abandoned \cup {Key(e)} ELSE abandoned
  BY DEF Die, tables
<1>2. /\ eval'[e] = Idle /\ Idle.at = "idle"
      /\ \A d \in Evaluator : d # e => eval'[d] = eval[d]
  BY <1>1, IdleProper, EvalStaysProper DEF Idle
<1>3. ASSUME NEW d \in Evaluator PROVE Behind(d)'
  <2>1. CASE d = e
    BY <1>2, <2>1 DEF Behind
  <2>2. CASE d # e
    BY <1>1, <1>2, <2>2, BehindKept DEF Queueing
  <2> QED BY <2>1, <2>2
<1>4. ASSUME NEW k \in Enrolled, Scheduling(k), ~Scheduling(k)' PROVE k \in abandoned'
  <2>1. PICK d \in Evaluator : eval[d].at \in {"read", "queue"} /\ Key(d) = k
    BY <1>4 DEF Scheduling
  <2>2. d = e
    BY <1>2, <1>4, <2>1 DEF Scheduling, Key
  <2> QED BY <1>1, <2>1, <2>2
<1>5. abandoned \subseteq abandoned'
  BY <1>1
<1>6. JourneyQueued'
  BY <1>1, <1>4, <1>5 DEF Queueing, JourneyQueued
<1> QED BY <1>3, <1>6 DEF Queueing

LEMMA QueueingStep == Base /\ Queueing /\ [Next]_vars => Queueing'
<1> SUFFICES ASSUME Base, Queueing, [Next]_vars PROVE Queueing'
  OBVIOUS
<1>1. ASSUME NEW e \in Evaluator, Wanders(e) \/ Takes(e) PROVE Queueing'
  <2>1. /\ UNCHANGED <<enrolment, row, abandoned>> /\ eval[e].at \notin {"read", "queue"}
        /\ \E p : eval' = [eval EXCEPT ![e] = p] /\ Proper(p) /\ p.at \notin {"read", "queue"}
    BY <1>1 DEF Wanders, Takes, tables, history
  <2>2. /\ eval'[e].at \notin {"read", "queue"}
        /\ \A d \in Evaluator : d # e => eval'[d] = eval[d]
    BY <2>1, EvalStaysProper
  <2> QED BY <2>1, <2>2, QueueingKept
<1>2. ASSUME Jobs \/ World \/ Delivery \/ UNCHANGED vars PROVE Queueing'
  BY <1>2, OthersLeave, QueueingKept DEF Leaves
<1>3. ASSUME NEW e \in Evaluator, Evaluate(e) PROVE Queueing'
  BY <1>1, <1>3, EvaluateMoves, QueueingCreated, QueueingRead, QueueingQueued, QueueingDied
<1> QED BY <1>2, <1>3 DEF Next

\* Whoever enrolled a contact and lived has queued the whole journey:
\* JourneyQueued, for every instance.
THEOREM JourneysAreQueued == Spec => []JourneyQueued
<1>1. Queueing => JourneyQueued
  BY DEF Queueing
<1> QED BY <1>1, BaseHolds, QueueingStart, QueueingStep, PTL DEF Spec

-----------------------------------------------------------------------------
(* Stopped enrolments                                                      *)

(***************************************************************************)
(* The two mechanisms meet here: a pass that is past the gates has read an *)
(* active enrolment, so the UPDATE that silences it takes the claim away   *)
(* before refreshClaim asks for it, or comes too late for this pass.       *)
(***************************************************************************)
Quiet(p) ==
    EnrolmentOf(work[p].row) \in silenced
        => /\ work[p].at = "passed" => ~Holds(p)
           /\ work[p].at = "refreshed" => p \in late

\* What a pass has in hand is a row of the table.
Real(p) == work[p].at # "idle" => work[p].row \in Queued /\ row[work[p].row] # "none"

Silent ==
    /\ work \in [Pass -> {Free} \cup AtWork]
    /\ \A p \in Pass : Quiet(p) /\ Real(p)

\* No claim is taken in the step, though some may go.
Released == \A q \in Queued : row'[q] \in Pass => row'[q] = row[q]

\* A pass that stands still in a step that silences nothing.
LEMMA StandsStill ==
    ASSUME Base, Silent, Leaves, NEW p \in Pass, work'[p] = work[p], silenced' = silenced,
           p \in late => p \in late',
           work[p].at = "passed" /\ row'[work[p].row] = p => row[work[p].row] = p
    PROVE  Quiet(p)' /\ Real(p)'
<1>1. EnrolmentOf(work[p].row)' = EnrolmentOf(work[p].row)
  BY DEF EnrolmentOf, RowsOf
<1>2. Quiet(p) /\ Real(p)
  BY DEF Silent
<1>3. Quiet(p)'
  BY <1>1, <1>2 DEF Quiet, Holds
<1>4. Real(p)'
  BY <1>2 DEF Real, Leaves
<1> QED BY <1>3, <1>4

\* The passes are left alone, and no claim is taken.
LEMMA AllStandStill ==
    ASSUME Base, Silent, Leaves, Released, UNCHANGED <<work, silenced, late>>
    PROVE  Silent'
<1>1. ASSUME NEW p \in Pass PROVE Quiet(p)' /\ Real(p)'
  <2>1. work[p].at = "passed" => work[p].row \in Queued
    BY DEF Silent, Real
  <2>2. work[p].at = "passed" /\ row'[work[p].row] = p => row[work[p].row] = p
    BY <2>1 DEF Released
  <2> QED BY <2>2, StandsStill
<1> QED BY <1>1 DEF Silent

\* One pass moves to w, and the others stand still.
LEMMA OneMoves ==
    ASSUME Base, Silent, Leaves, NEW p \in Pass, NEW w \in {Free} \cup AtWork,
           work' = [work EXCEPT ![p] = w], silenced' = silenced,
           late' = late \/ late' = late \ {p},
           \A q \in Queued : row'[q] \in Pass => row'[q] = row[q] \/ row'[q] = p,
           w.at = "passed" => EnrolmentOf(w.row) \notin silenced,
           w.at = "refreshed" => EnrolmentOf(w.row) \notin silenced,
           w.at # "idle" => row[w.row] # "none"
    PROVE  Silent'
<1>1. work' \in [Pass -> {Free} \cup AtWork] /\ work'[p] = w
      /\ \A o \in Pass : o # p => work'[o] = work[o]
  BY DEF Silent
<1>2. Quiet(p)' /\ Real(p)'
  <2>1. EnrolmentOf(work[p].row)' = EnrolmentOf(w.row)
    BY <1>1 DEF EnrolmentOf, RowsOf
  <2>2. Quiet(p)'
    BY <1>1, <2>1 DEF Quiet
  <2>3. w.at # "idle" => w.row \in Queued
    BY DEF Free, AtWork
  <2>4. Real(p)'
    BY <1>1, <2>3 DEF Real, Leaves
  <2> QED BY <2>2, <2>4
<1>3. ASSUME NEW o \in Pass, o # p PROVE Quiet(o)' /\ Real(o)'
  <2>1. work[o].at = "passed" => work[o].row \in Queued
    BY DEF Silent, Real
  <2>2. work[o].at = "passed" /\ row'[work[o].row] = o => row[work[o].row] = o
    BY <1>3, <2>1
  <2> QED BY <1>1, <1>3, <2>2, StandsStill
<1> QED BY <1>1, <1>2, <1>3 DEF Silent

LEMMA FencedReleases ==
    ASSUME NEW p \in Pass, NEW status, status \notin Pass, Fenced(p, status)
    PROVE  Released
BY DEF Fenced, WithRows, Released

\* A pass with a row in hand that goes one step further.
LEMMA FurtherAtWork ==
    ASSUME NEW w \in {Free} \cup AtWork, w.at # "idle",
           NEW step \in {"claimed", "passed", "defer", "cancel", "refreshed", "handed"}
    PROVE  LET v == [w EXCEPT !.at = step] IN v \in AtWork /\ v.at = step /\ v.row = w.row
<1>1. w \in AtWork
  BY DEF Free
<1> QED BY <1>1 DEF AtWork

LEMMA DeliveryQuiet ==
    ASSUME Base, Silent, Delivery
    PROVE  Silent'
<1>1. Leaves /\ silenced' = silenced
  BY DeliveryLeaves
<1>2. Free \in {Free} \cup AtWork /\ Free.at = "idle"
  BY DEF Free
<1>3. {"pending", "sent", "failed", "cancelled"} \cap Pass = {} /\ "none" \notin Pass
  BY EnrolmentConstants
<1>4. ASSUME NEW p \in Pass PROVE work[p] \in {Free} \cup AtWork /\ Quiet(p) /\ Real(p)
  BY <1>4 DEF Silent
<1>5. ASSUME NEW p \in Pass, NEW q \in Queued, ClaimRow(p, q) PROVE Silent'
  <2> DEFINE w == [at |-> "claimed", row |-> q]
  <2>1. w \in AtWork /\ w.at = "claimed" /\ w.row = q
    BY DEF AtWork
  <2>2. /\ work' = [work EXCEPT ![p] = w] /\ late' = late /\ row[q] = "pending"
        /\ \A r \in Queued : row'[r] = row[r] \/ row'[r] = p
    BY <1>5 DEF ClaimRow, WithRows
  <2> HIDE DEF w
  <2> QED BY <1>1, <2>1, <2>2, OneMoves
<1>6. ASSUME NEW p \in Pass, NEW further \in {"passed", "defer", "cancel"}, Gates(p, further)
      PROVE  Silent'
  <2> DEFINE k == EnrolmentOf(work[p].row)
             verdict == CASE campaign[k[1]] = "paused" -> "defer"
                          [] campaign[k[1]] \in {"observe", "archived"} -> "cancel"
                          [] enrolment[k] # "active" -> "cancel"
                          [] OTHER -> further
  <2>6. work' = [work EXCEPT ![p] = [work[p] EXCEPT !.at = verdict]]
    BY <1>6 DEF Gates, Moves
  <2> HIDE DEF k
  <2>7. verdict \in {"passed", "defer", "cancel"} /\ (verdict = "passed" => enrolment[k] = "active")
    OBVIOUS
  <2> HIDE DEF verdict
  <2>1. PICK step \in {"passed", "defer", "cancel"} :
            /\ work' = [work EXCEPT ![p] = [work[p] EXCEPT !.at = step]]
            /\ step = "passed" => enrolment[EnrolmentOf(work[p].row)] = "active"
    BY <2>6, <2>7 DEF k
  <2>2. work[p].at = "claimed" /\ row' = row /\ late' = late
    BY <1>6 DEF Gates
  <2> DEFINE w == [work[p] EXCEPT !.at = step]
  <2>3. w \in AtWork /\ w.at = step /\ w.row = work[p].row
    <3>1. work[p] \in {Free} \cup AtWork /\ work[p].at # "idle"
      BY <1>4, <2>2
    <3>2. step \in {"claimed", "passed", "defer", "cancel", "refreshed", "handed"}
      OBVIOUS
    <3> QED BY <3>1, <3>2, FurtherAtWork
  <2>4. step = "passed" => EnrolmentOf(w.row) \notin silenced
    BY <2>1, <2>3 DEF Base, StopsFit
  <2>5. row[w.row] # "none"
    BY <1>4, <2>2, <2>3 DEF Real
  <2> HIDE DEF w
  <2> QED BY <1>1, <2>1, <2>2, <2>3, <2>4, <2>5, OneMoves DEF w
<1>7. ASSUME NEW p \in Pass, Refresh(p) PROVE Silent'
  <2>1. work[p].at = "passed" /\ row' = row /\ late' = late
    BY <1>7 DEF Refresh
  <2>2. CASE Holds(p)
    <3> DEFINE w == [work[p] EXCEPT !.at = "refreshed"]
    <3>1. work' = [work EXCEPT ![p] = w]
      BY <1>7, <2>2 DEF Refresh
    <3>2. w \in AtWork /\ w.at = "refreshed" /\ w.row = work[p].row
      BY <1>4, <2>1, FurtherAtWork
    <3>3. EnrolmentOf(w.row) \notin silenced /\ row[w.row] # "none"
      BY <1>4, <2>1, <2>2, <3>2 DEF Quiet, Real
    <3> HIDE DEF w
    <3> QED BY <1>1, <2>1, <3>1, <3>2, <3>3, OneMoves
  <2>3. CASE ~Holds(p)
    <3>1. work' = [work EXCEPT ![p] = Free]
      BY <1>7, <2>3 DEF Refresh
    <3> QED BY <1>1, <1>2, <2>1, <3>1, OneMoves
  <2> QED BY <2>2, <2>3
<1>8. ASSUME NEW p \in Pass, HandOver(p) PROVE Silent'
  <2> DEFINE w == [work[p] EXCEPT !.at = "handed"]
  <2>1. /\ work[p].at = "refreshed" /\ row' = row /\ late' = late \ {p}
        /\ work' = [work EXCEPT ![p] = w]
    BY <1>8 DEF HandOver, Moves
  <2>2. w \in AtWork /\ w.at = "handed" /\ w.row = work[p].row
    BY <1>4, <2>1, FurtherAtWork
  <2>3. row[w.row] # "none"
    BY <1>4, <2>1, <2>2 DEF Real
  <2> HIDE DEF w
  <2> QED BY <1>1, <2>1, <2>2, <2>3, OneMoves
<1>9. ASSUME NEW p \in Pass, Write(p) \/ Break(p) PROVE Silent'
  <2>1. Released
    <3>1. row' = row \/ \E status \in {"pending", "sent", "failed", "cancelled"} : Fenced(p, status)
      BY <1>9 DEF Write, Break, Outcome
    <3>2. CASE row' = row
      BY <3>2 DEF Released
    <3> QED BY <1>3, <3>1, <3>2, FencedReleases
  <2>2. work' = [work EXCEPT ![p] = Free] /\ (late' = late \/ late' = late \ {p})
    BY <1>9 DEF Write, Break
  <2> QED BY <1>1, <1>2, <2>1, <2>2, OneMoves DEF Released
<1>10. ASSUME NEW q \in Queued, Reclaim(q) PROVE Silent'
  <2>1. Released /\ UNCHANGED <<work, late>>
    BY <1>3, <1>10 DEF Reclaim, WithRows, Released
  <2> QED BY <1>1, <2>1, AllStandStill
<1> QED BY <1>5, <1>6, <1>7, <1>8, <1>9, <1>10 DEF Delivery, Deliver

\* A row that exists belongs to an enrolment.
LEMMA RowBelongs ==
    ASSUME Base, NEW q \in Queued, row[q] # "none"
    PROVE  EnrolmentOf(q) \in Enrolled /\ q \in RowsOf(EnrolmentOf(q))
<1>1. \E k \in Enrolled : q \in RowsOf(k)
  BY DEF Base
<1> QED BY <1>1 DEF EnrolmentOf

\* The job takes the claims of its enrolment, and marks whom it is too late for.
LEMMA ClearQuiet ==
    ASSUME Base, Silent, NEW k \in Enrolled, ClearStopped(k)
    PROVE  Silent'
<1>1. /\ row' = WithRows({q \in RowsOf(k) : row[q] \in Cancellable}, "cancelled")
      /\ silenced' = silenced \cup {k} /\ late' = late \cup Confirmed(k) /\ work' = work
  BY DEF ClearStopped
<1>2. "cancelled" \notin Pass /\ "none" \notin Pass
  BY EnrolmentConstants
<1>3. /\ \A q \in Queued : row'[q] = row[q] \/ row'[q] = "cancelled"
      /\ \A q \in RowsOf(k) : q \in Queued /\ row'[q] \notin Pass
  BY <1>1, <1>2 DEF WithRows, Cancellable, RowsOf
<1>4. ASSUME NEW p \in Pass PROVE Quiet(p)' /\ Real(p)'
  <2>1. Quiet(p) /\ Real(p) /\ work'[p] = work[p]
    BY <1>1 DEF Silent
  <2>2. EnrolmentOf(work[p].row)' = EnrolmentOf(work[p].row)
    BY <1>1 DEF EnrolmentOf, RowsOf
  <2>3. Real(p)'
    BY <1>3, <2>1 DEF Real
  <2>4. work[p].at # "idle" => work[p].row \in RowsOf(EnrolmentOf(work[p].row))
    BY <2>1, RowBelongs DEF Real
  <2>5. CASE EnrolmentOf(work[p].row) = k
    <3>1. work[p].at \in {"passed", "refreshed"} => work[p].row \in RowsOf(k)
      BY <2>4, <2>5
    <3>2. work[p].at = "passed" => row'[work[p].row] # p
      BY <1>3, <3>1
    <3>3. work[p].at = "refreshed" => p \in late'
      BY <1>1, <3>1 DEF Confirmed
    <3> QED BY <2>1, <2>3, <3>2, <3>3 DEF Quiet, Holds
  <2>6. CASE EnrolmentOf(work[p].row) # k
    <3>1. work[p].at = "passed" /\ row'[work[p].row] = p => row[work[p].row] = p
      BY <1>2, <1>3, <2>1 DEF Real
    <3> QED BY <1>1, <2>1, <2>2, <2>3, <2>6, <3>1 DEF Quiet, Holds
  <2> QED BY <2>3, <2>5, <2>6
<1> QED BY <1>1, <1>4 DEF Silent

\* The other steps write no claim and leave the passes alone.
LEMMA RestStandsStill ==
    ASSUME Base, Silent, Leaves, UNCHANGED <<work, silenced, late>>,
           \/ row' = row
           \/ \E S : \E status \in {"pending", "cancelled"} : row' = WithRows(S, status)
    PROVE  Silent'
<1>1. "pending" \notin Pass /\ "cancelled" \notin Pass
  BY EnrolmentConstants
<1>2. Released
  BY <1>1 DEF Released, WithRows
<1> QED BY <1>2, AllStandStill

\* Neither does an evaluation, which writes rows nobody has claimed.
LEMMA EvaluationQuiet ==
    ASSUME Base, Silent, NEW e \in Evaluator, Evaluate(e)
    PROVE  Silent'
<1>1. UNCHANGED <<work, silenced, late>>
  BY EvaluateMoves DEF Evaluate, EvaluateTrigger, RunTimeTriggers, Begin, PickCampaign, Judge,
     CreateEnrolment, ReadJourney, QueueMessage, Die, history
<1>2. \A q \in Queued : row'[q] # row[q] => row'[q] \in {"parked", "pending"}
  <2>1. CASE Wanders(e) \/ Takes(e) \/ ReadJourney(e) \/ Die(e) \/ CreateEnrolment(e)
    BY <2>1 DEF Wanders, Takes, ReadJourney, Die, CreateEnrolment, tables
  <2>2. CASE QueueMessage(e)
    BY <2>2, QueueMoves
  <2> QED BY <2>1, <2>2, EvaluateMoves
<1>3. {"parked", "pending"} \cap Pass = {} /\ "none" \notin {"parked", "pending"}
  BY EnrolmentConstants
<1>4. ASSUME NEW p \in Pass PROVE Quiet(p)' /\ Real(p)'
  <2>1. Quiet(p) /\ Real(p)
    BY DEF Silent
  <2>2. EnrolmentOf(work[p].row)' = EnrolmentOf(work[p].row)
    BY <1>1 DEF EnrolmentOf, RowsOf
  <2>3. Real(p)'
    BY <1>1, <1>2, <1>3, <2>1 DEF Real
  <2>4. work[p].at = "passed" /\ row'[work[p].row] = p => row[work[p].row] = p
    BY <1>2, <1>3, <2>1 DEF Real
  <2>5. Quiet(p)'
    BY <1>1, <2>1, <2>2, <2>4 DEF Quiet, Holds
  <2> QED BY <2>3, <2>5
<1> QED BY <1>1, <1>4 DEF Silent

LEMMA SilentStep == Base /\ Silent /\ [Next]_vars => Silent'
<1> SUFFICES ASSUME Base, Silent, [Next]_vars PROVE Silent'
  OBVIOUS
<1>1. ASSUME NEW e \in Evaluator, Evaluate(e) PROVE Silent'
  BY <1>1, EvaluationQuiet
<1>2. CASE Jobs
  <2>1. Leaves
    BY <1>2, JobsLeave
  <2>2. ASSUME NEW k \in Enrolled, ClearStopped(k) PROVE Silent'
    BY <2>2, ClearQuiet
  <2>3. ASSUME NEW k \in Enrolled, StopEnrolment(k) PROVE Silent'
    BY <2>1, <2>3, RestStandsStill DEF StopEnrolment, history
  <2>4. ASSUME NEW found, FindStopped(found) PROVE Silent'
    BY <2>1, <2>4, RestStandsStill DEF FindStopped, tables, history
  <2>5. CASE StopJobDies
    BY <2>1, <2>5, RestStandsStill DEF StopJobDies, tables, history
  <2>6. CASE DeliveryAnchors
    BY <2>1, <2>6, RestStandsStill DEF DeliveryAnchors, history
  <2>7. ASSUME NEW q \in Queued, ExpireAnchors(q) PROVE Silent'
    BY <2>1, <2>7, RestStandsStill DEF ExpireAnchors, history
  <2> QED BY <1>2, <2>2, <2>3, <2>4, <2>5, <2>6, <2>7 DEF Jobs
<1>3. CASE World \/ UNCHANGED vars
  <2>1. UNCHANGED <<row, work, silenced, late>>
    BY <1>3 DEF World, OrderDelivered, Lapse, SetCampaign, vars, history
  <2>2. Leaves
    BY <1>3, OthersLeave
  <2> QED BY <2>1, <2>2, RestStandsStill
<1>4. CASE Delivery
  BY <1>4, DeliveryQuiet
<1> QED BY <1>1, <1>2, <1>3, <1>4 DEF Next

LEMMA SilentStart == Init => Silent
<1> SUFFICES ASSUME Init PROVE Silent
  OBVIOUS
<1>1. work = [p \in Pass |-> Free] /\ Free.at = "idle"
  BY DEF Init, Free
<1> QED BY <1>1 DEF Silent, Quiet, Real

\* A message of an enrolment the stop-condition job has dealt with reaches a
\* provider only from a pass the job was too late for: StoppedStaysSilent, for
\* every instance, with any number of passes.
THEOREM StoppedStaySilent == Spec => StoppedStaysSilent
<1>1. Base /\ Silent /\ [Next]_vars
        => [\A p \in Pass : work[p].at = "refreshed" /\ work'[p].at = "handed"
               => EnrolmentOf(work[p].row) \notin silenced \/ p \in late]_vars
  BY DEF Silent, Quiet
<1> QED BY <1>1, BaseHolds, SilentStart, SilentStep, PTL DEF Spec, StoppedStaysSilent
=============================================================================
