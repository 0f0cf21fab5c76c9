--------------------------- MODULE DeliveryProofs ---------------------------
(***************************************************************************)
(* Proofs about Delivery, for every set of rows, passes and limits: the    *)
(* fence is exact, attempts are bounded, hand-overs are counted, a sent    *)
(* message was accepted and a claim attended to, as long as no two passes  *)
(* share an identity.                                                      *)
(***************************************************************************)
EXTENDS Delivery, MessageQueueProofs

(***************************************************************************)
(* The inductive invariant.                                                *)
(***************************************************************************)

\* A pass that delivers a row has it in its batch, and no pass keeps a batch.
PassesOK ==
    /\ pc \in [Pass -> Step]
    /\ batch \in [Pass -> SUBSET Snapshot]
    /\ cur \in [Pass -> Snapshot \cup {NoRow}]
    /\ \A p \in Pass :
          /\ pc[p] \in {"idle", "walk"} => cur[p] = NoRow
          /\ pc[p] \notin {"idle", "walk"} => cur[p] \in batch[p]
          /\ pc[p] = "idle" => batch[p] = {}

JanitorOK ==
    /\ janitor \in {"idle", "second"}
    /\ cutoffAt \in 0..now

HistoryOK ==
    /\ faults \in Nat
    /\ crashes \in Nat
    /\ accepted \in [Row -> BOOLEAN]
    /\ handovers \in [Row -> Nat]
    /\ orphaned \subseteq Row

\* Types, and the table's own invariant.
Shape == QueueInv /\ PassesOK /\ JanitorOK /\ HistoryOK

\* While the fence lets a pass write a row, its snapshot of the row is current.
\* Two snapshots of one batch are of two rows.
SnapshotsCurrent ==
    \A p \in Pass : \A s \in batch[p] :
        /\ s.attempts \in 1..AttemptCap
        /\ Owned(s.row, IdentityOf[p]) => s.attempts = queue[s.row].attempts
        /\ \A t \in batch[p] : t.row = s.row => t = s

\* A retry is only scheduled for a message that has a try left.
RetryHasRoom ==
    \A p \in Pass : pc[p] = "retry" => cur[p].attempts < AttemptCap

\* The pass has not handed the row of s over yet, under the claim of s.
NotHandedOver(p, s) ==
    s = cur[p] => pc[p] \in {"walk", "refresh", "defer", "cancel"}

\* The claim of a row not handed over yet is an attempt without a hand-over: a
\* deferral may take it back, and a hand-over may use it.
HandoverHasRoom ==
    \A p \in Pass : \A s \in batch[p] :
        /\ Owned(s.row, IdentityOf[p])
        /\ NotHandedOver(p, s)
        => handovers[s.row] + 1 <= queue[s.row].attempts

\* markSent follows an ok of the provider.
SentAfterAccepted ==
    \A p \in Pass : pc[p] = "sent" => accepted[cur[p].row]

DeliveryInv ==
    /\ Shape
    /\ FenceExact
    /\ SnapshotsCurrent
    /\ AttemptsBounded
    /\ RetryHasRoom
    /\ HandoversCounted
    /\ HandoverHasRoom
    /\ SentMeansAccepted
    /\ SentAfterAccepted

-----------------------------------------------------------------------------
(***************************************************************************)
(* What a statement does to a row, as far as the passes can tell.          *)
(***************************************************************************)

\* No claim is taken and no attempt refunded, a row goes back to wait only with
\* a try left, and nothing becomes sent.
QuietRow(old, new) ==
    /\ new.attempts = old.attempts
    /\ new.sentAt = old.sentAt
    /\ new.status = "processing" =>
          old.status = "processing" /\ new.claimedBy = old.claimedBy
    /\ new.status = "pending" => old.status = "pending" \/ new.attempts < AttemptCap
    /\ new.status = "sent" => old.status = "sent"

Quiet ==
    /\ claims' = claims
    /\ \A k \in Row : QuietRow(queue[k], queue'[k])

\* The weaker fact that the fence rests on.
NoNewClaim ==
    /\ claims' = claims
    /\ \A k \in Row : queue'[k].status = "processing" =>
          /\ queue[k].status = "processing"
          /\ queue'[k].claimedBy = queue[k].claimedBy
          /\ queue'[k].attempts = queue[k].attempts

LEMMA QuietTakesNoClaim == Quiet => NoNewClaim
  BY DEF Quiet, QuietRow, NoNewClaim

LEMMA QuietReleased ==
  ASSUME NEW row \in RowState, NEW s \in {"pending", "failed", "cancelled"},
         s = "pending" => row.attempts < AttemptCap, NEW at \in Nat
  PROVE  /\ QuietRow(row, Released(row, s))
         /\ QuietRow(row, [Released(row, s) EXCEPT !.nextAttemptAt = at])
<1>1. s \in Status
  BY DEF Status
<1> DEFINE free == Released(row, s)
<1>2. /\ free \in RowState
      /\ free.status = s
      /\ free.attempts = row.attempts
      /\ free.sentAt = row.sentAt
  BY <1>1, ReleasedColumns
<1> HIDE DEF free
<1>3. /\ [free EXCEPT !.nextAttemptAt = at].status = s
      /\ [free EXCEPT !.nextAttemptAt = at].attempts = row.attempts
      /\ [free EXCEPT !.nextAttemptAt = at].sentAt = row.sentAt
  BY <1>2 DEF RowState
<1>4. QED
  BY <1>2, <1>3 DEF QuietRow, free

LEMMA QuietRetried ==
  ASSUME NEW row \in RowState, row.attempts < AttemptCap, NEW at \in Nat
  PROVE  QuietRow(row, Retried(row, at))
<1> DEFINE free == Released(row, "pending")
<1>1. /\ free \in RowState
      /\ free.status = "pending"
      /\ free.attempts = row.attempts
      /\ free.sentAt = row.sentAt
  BY ReleasedColumns DEF Status
<1> HIDE DEF free
<1>2. ASSUME NEW a
      PROVE  LET new == [free EXCEPT !.nextAttemptAt = at, !.scheduledAt = a]
             IN  /\ new.status = "pending"
                 /\ new.attempts = row.attempts
                 /\ new.sentAt = row.sentAt
  BY <1>1 DEF RowState
<1>3. Retried(row, at) =
        [free EXCEPT !.nextAttemptAt = at, !.scheduledAt = Least(free.scheduledAt, at)]
  BY DEF Retried, free
<1>4. QED
  BY <1>2, <1>3 DEF QuietRow

\* Changing one time, or cancelling from outside, is quiet; so is a receipt.
LEMMA QuietColumn ==
  ASSUME NEW row \in RowState, NEW t, NEW s \in {"cancelled"} \cup Verdict
  PROVE  /\ QuietRow(row, row)
         /\ QuietRow(row, [row EXCEPT !.claimedAt = t])
         /\ QuietRow(row, [row EXCEPT !.scheduledAt = t])
         /\ QuietRow(row, [row EXCEPT !.status = s])
  BY DEF QuietRow, RowState, Verdict

\* A statement that leaves or quietly changes every row is quiet.
LEMMA QuietRows ==
  ASSUME QueueInv, claims' = claims,
         \A k \in Row : queue'[k] = queue[k] \/ QuietRow(queue[k], queue'[k])
  PROVE  Quiet
<1>1. \A k \in Row : queue[k] \in RowState
  BY Rows DEF RowInv
<1>2. QED
  BY <1>1, QuietColumn DEF Quiet

\* Who may be tried, by the constants.
LEMMA Limits ==
  /\ AttemptCap \in Nat /\ AttemptCap > 0
  /\ MaxAttempts \in Nat /\ MaxAttempts <= AttemptCap
  BY QueueConstants

\* The statements on one row, but for the claim, the deferral and markSent.
LEMMA QuietRowOf ==
  ASSUME QueueInv, NEW r \in Row, NEW id, NEW at \in Nat, NEW verdict \in Verdict,
         \/ Enqueue(r, at) \/ ResolveAnchor(r, at) \/ CancelRow(r)
         \/ ProviderReceipt(r, verdict)
         \/ RefreshClaim(r, id) \/ MarkFailed(r, id) \/ MarkCancelled(r, id)
         \/ /\ ScheduleRetry(r, id, at)
            /\ Owned(r, id) => queue[r].attempts < AttemptCap
  PROVE  Quiet
<1>0. /\ now \in Nat
      /\ \A k \in Row : /\ RowInv(queue[k], claims[k])
                        /\ queue[k] \in RowState
                        /\ queue[k].attempts \in Nat
  BY Rows DEF RowInv, RowState
<1>1. CASE Enqueue(r, at)
  <2>1. ASSUME queue[r].status = "absent"
        PROVE  QuietRow(queue[r], Queued(Absent, at))
    <3>1. claims[r] = 0
      BY <2>1 DEF QueueInv
    <3>2. queue[r].attempts = 0
      BY <1>0, <3>1 DEF RowInv, RowState
    <3>3. queue[r].sentAt = FALSE
      BY <1>0, <2>1 DEF RowInv, RowState, Verdict
    <3>4. /\ Queued(Absent, at).attempts = 0
          /\ Queued(Absent, at).sentAt = FALSE
          /\ Queued(Absent, at).status = "pending"
      BY DEF Queued, Absent
    <3>5. QED
      BY <3>2, <3>3, <3>4, Limits DEF QuietRow
  <2>2. QED
    BY <1>1, <2>1, QuietRows DEF Enqueue, Update, If
<1>2. CASE ResolveAnchor(r, at)
  BY <1>0, <1>2, QuietRows, QuietColumn DEF ResolveAnchor, Update, If
<1>3. CASE CancelRow(r)
  BY <1>0, <1>3, QuietRows, QuietColumn DEF CancelRow, Update, If, Cancelled
<1>4. CASE ProviderReceipt(r, verdict)
  BY <1>0, <1>4, QuietRows, QuietColumn DEF ProviderReceipt, Update, If
<1>5. CASE RefreshClaim(r, id)
  BY <1>0, <1>5, QuietRows, QuietColumn DEF RefreshClaim, Update, If
<1>6. CASE MarkFailed(r, id)
  BY <1>0, <1>6, QuietRows, QuietReleased DEF MarkFailed, Update, If
<1>7. CASE MarkCancelled(r, id)
  BY <1>0, <1>7, QuietRows, QuietReleased DEF MarkCancelled, Update, If
<1>8. CASE ScheduleRetry(r, id, at) /\ (Owned(r, id) => queue[r].attempts < AttemptCap)
  <2>1. now + at \in Nat
    BY <1>0
  <2>2. QED
    BY <1>0, <1>8, <2>1, QuietRows, QuietRetried
       DEF ScheduleRetry, Update, If, OwnedUnsent
<1>9. QED
  BY <1>1, <1>2, <1>3, <1>4, <1>5, <1>6, <1>7, <1>8

\* The statements on many rows, and the clock.
LEMMA QuietTable ==
  ASSUME QueueInv, NEW S \in SUBSET Row, NEW t \in 0..now,
         \/ ExpireAnchors(S)
         \/ ReclaimReturn(t) \/ ReclaimExhaust(t)
         \/ Tick
         \/ UNCHANGED queueVars
  PROVE  Quiet
<1>0. /\ now \in Nat
      /\ \A k \in Row : /\ RowInv(queue[k], claims[k])
                        /\ queue[k] \in RowState
                        /\ queue[k].attempts \in Nat
  BY Rows DEF RowInv, RowState
<1>1. CASE ExpireAnchors(S)
  BY <1>0, <1>1, QuietRows, QuietColumn DEF ExpireAnchors, Update, Cancelled
<1>2. CASE ReclaimReturn(t)
  <2>1. ASSUME NEW k \in Row, Stale(k, t), queue[k].attempts < MaxAttempts
        PROVE  /\ queue[k].attempts < AttemptCap
               /\ t + Backoff[queue[k].attempts] \in Nat
    <3>1. queue[k].attempts \in 1..AttemptCap
      BY <1>0, <2>1, Limits DEF RowInv, Stale
    <3>2. QED
      BY <1>0, <2>1, <3>1, Limits, QueueConstants
  <2>2. QED
    BY <1>0, <1>2, <2>1, QuietRows, QuietReleased DEF ReclaimReturn, Update
<1>3. CASE ReclaimExhaust(t)
  BY <1>0, <1>3, QuietRows, QuietReleased DEF ReclaimExhaust, Update
<1>4. CASE Tick
  BY <1>4, QuietRows DEF Tick
<1>5. CASE UNCHANGED queueVars
  BY <1>5, QuietRows DEF queueVars
<1>6. QED
  BY <1>1, <1>2, <1>3, <1>4, <1>5

LEMMA ShapeTypes == Shape => DeliveryTypeOK
  BY DEF Shape, PassesOK, JanitorOK, HistoryOK, DeliveryTypeOK, QueueInv

\* The three statements that are not quiet.

LEMMA ClaimEffect ==
  ASSUME QueueInv, NEW S \in SUBSET Row, NEW id \in Identity, ClaimRows(S, id),
         NEW k \in Row
  PROVE  /\ k \notin S => queue'[k] = queue[k] /\ claims'[k] = claims[k]
         /\ k \in S =>
               /\ queue[k].status = "pending"
               /\ queue'[k].status = "processing"
               /\ queue'[k].claimedBy = id
               /\ queue'[k].attempts = queue[k].attempts + 1
               /\ queue'[k].sentAt = queue[k].sentAt
               /\ claims'[k] = claims[k] + 1
<1>1. queue[k] \in RowState
  BY Rows DEF RowInv
<1>2. /\ Claimed(queue[k], id).status = "processing"
      /\ Claimed(queue[k], id).claimedBy = id
      /\ Claimed(queue[k], id).attempts = queue[k].attempts + 1
      /\ Claimed(queue[k], id).sentAt = queue[k].sentAt
  BY <1>1 DEF Claimed, RowState
<1>3. queue'[k] = IF k \in S THEN Claimed(queue[k], id) ELSE queue[k]
  BY DEF ClaimRows, Update
<1>4. QED
  BY <1>2, <1>3 DEF ClaimRows, Due

LEMMA DeferEffect ==
  ASSUME QueueInv, NEW r \in Row, NEW id \in Identity, NEW until \in Nat,
         DeferClaimed(r, id, until), NEW k \in Row
  PROVE  /\ claims' = claims
         /\ \/ queue'[k] = queue[k]
            \/ /\ k = r /\ Owned(k, id)
               /\ queue'[k].status = "pending"
               /\ queue'[k].attempts = queue[k].attempts - 1
               /\ queue'[k].sentAt = queue[k].sentAt
<1>1. queue[k] \in RowState /\ RowInv(queue[k], claims[k])
  BY Rows DEF RowInv
<1> DEFINE free == Released(queue[k], "pending")
<1>2. /\ free \in RowState
      /\ free.attempts = queue[k].attempts
      /\ free.sentAt = queue[k].sentAt
  BY <1>1, ReleasedColumns DEF Status
<1> HIDE DEF free
<1>3. ASSUME Owned(k, id)
      PROVE  free.attempts > 0
  BY <1>1, <1>2, <1>3 DEF RowInv, Owned
<1>4. ASSUME Owned(k, id)
      PROVE  /\ Deferred(queue[k], until).status = "pending"
             /\ Deferred(queue[k], until).attempts = queue[k].attempts - 1
             /\ Deferred(queue[k], until).sentAt = queue[k].sentAt
  <2>1. free.status = "pending"
    BY <1>1, ReleasedColumns DEF Status, free
  <2>2. Deferred(queue[k], until) =
          [free EXCEPT !.attempts = IF @ > 0 THEN @ - 1 ELSE 0, !.deferrals = @ + 1,
                       !.scheduledAt = until, !.nextAttemptAt = 0]
    BY DEF Deferred, free
  <2>3. /\ [free EXCEPT !.attempts = IF @ > 0 THEN @ - 1 ELSE 0, !.deferrals = @ + 1,
                        !.scheduledAt = until, !.nextAttemptAt = 0].attempts
              = free.attempts - 1
        /\ [free EXCEPT !.attempts = IF @ > 0 THEN @ - 1 ELSE 0, !.deferrals = @ + 1,
                        !.scheduledAt = until, !.nextAttemptAt = 0].status = "pending"
        /\ [free EXCEPT !.attempts = IF @ > 0 THEN @ - 1 ELSE 0, !.deferrals = @ + 1,
                        !.scheduledAt = until, !.nextAttemptAt = 0].sentAt = free.sentAt
    BY <1>2, <1>3, <1>4, <2>1 DEF RowState
  <2>4. QED
    BY <1>2, <2>2, <2>3
<1>5. queue'[k] = queue[k] \/ (k = r /\ Owned(k, id) /\ queue'[k] = Deferred(queue[k], until))
  BY DEF DeferClaimed, Update, If, OwnedUnsent
<1>6. QED
  BY <1>4, <1>5 DEF DeferClaimed

LEMMA SentEffect ==
  ASSUME QueueInv, NEW r \in Row, NEW id \in Identity, MarkSent(r, id), NEW k \in Row
  PROVE  /\ claims' = claims
         /\ \/ queue'[k] = queue[k]
            \/ /\ k = r /\ Owned(k, id)
               /\ queue'[k].status = "sent"
               /\ queue'[k].attempts = queue[k].attempts
               /\ queue'[k].sentAt
<1>1. queue[k] \in RowState
  BY Rows DEF RowInv
<1> DEFINE free == Released(queue[k], "sent")
<1>2. /\ free \in RowState
      /\ free.status = "sent"
      /\ free.attempts = queue[k].attempts
  BY <1>1, ReleasedColumns DEF Status
<1> HIDE DEF free
<1>3. /\ [free EXCEPT !.sentAt = TRUE].status = "sent"
      /\ [free EXCEPT !.sentAt = TRUE].attempts = queue[k].attempts
      /\ [free EXCEPT !.sentAt = TRUE].sentAt
  BY <1>2 DEF RowState
<1>4. Sent(queue[k]) = [free EXCEPT !.sentAt = TRUE]
  BY DEF Sent, free
<1>5. queue'[k] = queue[k] \/ (k = r /\ Owned(k, id) /\ queue'[k] = Sent(queue[k]))
  BY DEF MarkSent, Update, If
<1>6. QED
  BY <1>3, <1>4, <1>5 DEF MarkSent

-----------------------------------------------------------------------------
(***************************************************************************)
(* What a step does to the passes.                                         *)
(***************************************************************************)

\* A pass that is idle in this step, records its row's fate, or leaves the row.
PassQuiet(q) ==
    \/ pc'[q] = pc[q] /\ batch'[q] = batch[q] /\ cur'[q] = cur[q]
    \/ /\ pc'[q] \in {"log", "catch"}
       /\ batch'[q] = batch[q] /\ cur'[q] = cur[q]
    \/ /\ pc'[q] \in {"idle", "walk"}
       /\ batch'[q] \subseteq batch[q] \ {cur[q]}

LEMMA Holder ==
  ASSUME PassesOK, NEW p \in Pass, pc[p] \notin {"idle", "walk"}
  PROVE  /\ cur[p] \in batch[p]
         /\ cur[p] \in Snapshot
         /\ cur[p].row \in Row
         /\ IdentityOf[p] \in Identity
  BY DeliveryConstants DEF PassesOK, Snapshot

LEMMA GotoPasses ==
  ASSUME PassesOK, NEW p \in Pass, pc[p] \notin {"idle", "walk"},
         NEW step \in Step \ {"idle", "walk"}, Goto(p, step), UNCHANGED <<batch, cur>>
  PROVE  /\ PassesOK'
         /\ step \in {"log", "catch"} => \A q \in Pass : PassQuiet(q)
  BY DEF PassesOK, Goto, PassQuiet

LEMMA FinishPasses ==
  ASSUME PassesOK, NEW p \in Pass, pc[p] \notin {"idle", "walk"}, Finish(p)
  PROVE  PassesOK' /\ \A q \in Pass : PassQuiet(q)
<1> DEFINE rest == batch[p] \ {cur[p]}
<1>1. /\ batch' = [batch EXCEPT ![p] = rest]
      /\ cur' = [cur EXCEPT ![p] = NoRow]
      /\ pc' = [pc EXCEPT ![p] = IF rest = {} THEN "idle" ELSE "walk"]
  BY DEF Finish, Goto
<1>2. rest \in SUBSET Snapshot
  BY DEF PassesOK
<1>3. /\ batch' \in [Pass -> SUBSET Snapshot]
      /\ cur' \in [Pass -> Snapshot \cup {NoRow}]
      /\ pc' \in [Pass -> Step]
  BY <1>1, <1>2 DEF PassesOK, Step
<1>4. /\ batch'[p] = rest
      /\ cur'[p] = NoRow
      /\ pc'[p] = IF rest = {} THEN "idle" ELSE "walk"
      /\ \A q \in Pass \ {p} :
            batch'[q] = batch[q] /\ cur'[q] = cur[q] /\ pc'[q] = pc[q]
  BY <1>1 DEF PassesOK
<1> HIDE DEF rest
<1>5. QED
  BY <1>3, <1>4 DEF PassesOK, PassQuiet, rest

LEMMA CrashPasses ==
  ASSUME PassesOK, NEW p \in Pass, Goto(p, "idle"),
         batch' = [batch EXCEPT ![p] = {}], cur' = [cur EXCEPT ![p] = NoRow]
  PROVE  PassesOK' /\ \A q \in Pass : PassQuiet(q)
  BY DEF PassesOK, PassQuiet, Goto, Step

LEMMA SamePasses ==
  ASSUME PassesOK, UNCHANGED passVars
  PROVE  PassesOK' /\ \A q \in Pass : PassQuiet(q)
  BY DEF PassesOK, PassQuiet, passVars

LEMMA JanitorSame ==
  ASSUME JanitorOK, now \in Nat, UNCHANGED janitorVars, now' = now \/ now' = now + 1
  PROVE  JanitorOK'
  BY DEF JanitorOK, janitorVars

\* The statements that no pass issues.
LEMMA QuietUnnamed ==
  ASSUME QueueInv,
         \/ \E r \in Row, at \in SendTime \cup {Infinity} : Enqueue(r, at)
         \/ \E r \in Row, at \in SendTime : ResolveAnchor(r, at)
         \/ \E S \in SUBSET Row : ExpireAnchors(S)
         \/ \E r \in Row : CancelRow(r)
         \/ \E r \in Row, verdict \in Verdict : ProviderReceipt(r, verdict)
         \/ \E t \in 0..now : ReclaimReturn(t) \/ ReclaimExhaust(t)
         \/ Tick
         \/ UNCHANGED queueVars
  PROVE  Quiet
<1>0. now \in Nat /\ "failed" \in Verdict /\ {} \in SUBSET Row /\ 0 \in 0..now
  BY Rows DEF Verdict
<1>1. ASSUME NEW r \in Row, NEW at \in Nat,
             \/ Enqueue(r, at) \/ ResolveAnchor(r, at) \/ CancelRow(r)
             \/ \E verdict \in Verdict : ProviderReceipt(r, verdict)
      PROVE  Quiet
  <2>1. CASE \E verdict \in Verdict : ProviderReceipt(r, verdict)
    BY <2>1, <1>0, QuietRowOf
  <2>2. QED
    BY <1>0, <1>1, <2>1, QuietRowOf
<1>2. CASE \E S \in SUBSET Row : ExpireAnchors(S)
  BY <1>0, <1>2, QuietTable
<1>3. CASE \E t \in 0..now : ReclaimReturn(t) \/ ReclaimExhaust(t)
  BY <1>3, QuietTable
<1>4. CASE Tick \/ UNCHANGED queueVars
  BY <1>0, <1>4, QuietTable
<1>5. SendTime \cup {Infinity} \subseteq Nat
  BY QueueConstants
<1>6. QED
  BY <1>0, <1>1, <1>2, <1>3, <1>4, <1>5

\* A step that the invariants hardly notice.
QuietStep ==
    /\ Quiet
    /\ \A q \in Pass : PassQuiet(q)
    /\ UNCHANGED <<accepted, handovers>>

\* Every step keeps the types, and is quiet or one of six.
LEMMA StepShape ==
  ASSUME DeliveryInv, [DeliveryNext]_vars
  PROVE  /\ Shape'
         /\ \/ QuietStep
            \/ \E p \in Pass :
                  \/ \E S \in SUBSET Row : Claim(p, S)
                  \/ RecordDeferral(p) \/ RecordSent(p)
                  \/ Refresh(p) \/ RunGates(p) \/ Send(p)
<1>0. /\ QueueInv /\ PassesOK /\ JanitorOK /\ HistoryOK
      /\ now \in Nat
      /\ SnapshotsCurrent /\ AttemptsBounded /\ RetryHasRoom
  BY Rows DEF DeliveryInv, Shape
<1>1. ASSUME NEW p \in Pass, NEW S \in SUBSET Row, Claim(p, S)
      PROVE  Shape'
  <2>1. QueueInv'
    <3>1. IdentityOf[p] \in Identity
      BY DeliveryConstants
    <3>2. Next
      BY <1>1, <3>1 DEF Claim, Next
    <3>3. QED
      BY <1>0, <3>2, QueueStep
  <2>2. PassesOK'
    <3>1. ASSUME NEW r \in S
          PROVE  [row |-> r, attempts |-> queue[r].attempts + 1, ticket |-> claims[r] + 1]
                    \in Snapshot
      BY <1>0, Rows DEF Snapshot, RowInv, RowState
    <3> DEFINE copies == {[row |-> r, attempts |-> queue[r].attempts + 1,
                           ticket |-> claims[r] + 1] : r \in S}
    <3>2. copies \in SUBSET Snapshot
      BY <3>1
    <3>3. batch' = [batch EXCEPT ![p] = copies]
      BY <1>1 DEF Claim
    <3> HIDE DEF copies
    <3>4. QED
      BY <1>0, <1>1, <3>2, <3>3 DEF Claim, Goto, PassesOK, Step
  <2>3. JanitorOK' /\ HistoryOK'
    BY <1>0, <1>1, JanitorSame DEF Claim, ClaimRows, HistoryOK
  <2>4. QED
    BY <2>1, <2>2, <2>3 DEF Shape
<1>2. ASSUME NEW p \in Pass, RunGates(p)
      PROVE  Shape'
  <2>1. QueueInv'
    BY <1>0, <1>2, QueueStep DEF RunGates
  <2>2. PICK s \in batch[p] : cur' = [cur EXCEPT ![p] = s]
    BY <1>2 DEF RunGates
  <2>3. PICK verdict \in {"refresh", "defer", "cancel", "catch"} : Goto(p, verdict)
    BY <1>2 DEF RunGates
  <2>4. PassesOK'
    BY <1>0, <1>2, <2>2, <2>3 DEF RunGates, Goto, PassesOK, Step
  <2>5. JanitorOK' /\ HistoryOK'
    BY <1>0, <1>2, JanitorSame DEF RunGates, queueVars, historyVars, HistoryOK
  <2>6. QED
    BY <2>1, <2>4, <2>5 DEF Shape
\* A step of a pass from a statement to another, with one statement of its own.
<1>3. ASSUME NEW p \in Pass, pc[p] \notin {"idle", "walk"},
             NEW step \in Step \ {"idle", "walk"}, Goto(p, step),
             UNCHANGED <<batch, cur, janitorVars, crashes, orphaned>>,
             [Next]_queueVars, now' = now,
             faults' = faults \/ faults' = faults + 1,
             HistoryOK'
      PROVE  Shape'
  BY <1>0, <1>3, GotoPasses, QueueStep, JanitorSame DEF Shape
<1>4. ASSUME NEW p \in Pass, pc[p] \notin {"idle", "walk"},
             NEW step \in {"log", "catch"}, Goto(p, step),
             UNCHANGED <<batch, cur, janitorVars, crashes, historyVars>>,
             [Next]_queueVars, now' = now, Quiet,
             faults' = faults \/ faults' = faults + 1
      PROVE  Shape' /\ QuietStep
  BY <1>0, <1>3, <1>4, GotoPasses DEF historyVars, HistoryOK, QuietStep, Step
<1>5. ASSUME NEW p \in Pass, RecordDeferral(p)
      PROVE  Shape'
  <2>1. pc[p] = "defer" /\ Goto(p, "log") /\ UNCHANGED <<batch, cur, janitorVars, faults, crashes, historyVars>>
    BY <1>5 DEF RecordDeferral, Record
  <2>2. PICK d \in DeferFor : DeferClaimed(cur[p].row, IdentityOf[p], now + d)
    BY <1>5 DEF RecordDeferral
  <2>3. Next /\ now' = now
    BY <1>0, <2>1, <2>2, Holder DEF Next, DeferClaimed
  <2>4. HistoryOK'
    BY <1>0, <2>1 DEF HistoryOK, historyVars
  <2>5. QED
    BY <1>3, <2>1, <2>3, <2>4 DEF Step, historyVars
<1>6. ASSUME NEW p \in Pass, RecordSent(p)
      PROVE  Shape'
  <2>1. pc[p] = "sent" /\ Goto(p, "log") /\ UNCHANGED <<batch, cur, janitorVars, faults, crashes, historyVars>>
    BY <1>6 DEF RecordSent, Record
  <2>2. MarkSent(cur[p].row, IdentityOf[p])
    BY <1>6 DEF RecordSent
  <2>3. Next /\ now' = now
    BY <1>0, <2>1, <2>2, Holder DEF Next, MarkSent
  <2>4. HistoryOK'
    BY <1>0, <2>1 DEF HistoryOK, historyVars
  <2>5. QED
    BY <1>3, <2>1, <2>3, <2>4 DEF Step, historyVars
<1>7. ASSUME NEW p \in Pass, Refresh(p)
      PROVE  Shape'
  <2>1. pc[p] = "refresh" /\ UNCHANGED <<batch, cur, janitorVars, faults, crashes, orphaned>>
    BY <1>7 DEF Refresh
  <2>2. RefreshClaim(cur[p].row, IdentityOf[p])
    BY <1>7 DEF Refresh
  <2>3. Next /\ now' = now
    BY <1>0, <2>1, <2>2, Holder DEF Next, RefreshClaim
  <2>4. Goto(p, "send") \/ Goto(p, "log")
    BY <1>7 DEF Refresh
  <2>5. HistoryOK'
    <3>1. handovers' \in [Row -> Nat]
      <4>1. \A k \in Row : handovers[k] + 1 \in Nat /\ handovers[k] \in Nat
        BY <1>0 DEF HistoryOK
      <4>2. PICK more \in {TRUE, FALSE} :
              handovers' = [handovers EXCEPT ![cur[p].row] = IF more THEN @ + 1 ELSE @]
        BY <1>7 DEF Refresh
      <4>3. QED
        BY <1>0, <4>1, <4>2 DEF HistoryOK
    <3>2. accepted' = accepted
      BY <1>7 DEF Refresh
    <3>3. QED
      BY <1>0, <2>1, <3>1, <3>2 DEF HistoryOK
  <2>6. QED
    BY <1>3, <2>1, <2>3, <2>4, <2>5 DEF Step
<1>8. ASSUME NEW p \in Pass, Send(p)
      PROVE  Shape'
  <2>1. pc[p] = "send" /\ UNCHANGED <<queueVars, batch, cur, janitorVars, faults, crashes, orphaned>>
    BY <1>8 DEF Send
  <2>2. now' = now
    BY <2>1 DEF queueVars
  <2>3. Goto(p, "sent") \/ Goto(p, "failed") \/ Goto(p, "retry") \/ Goto(p, "catch")
    BY <1>8 DEF Send
  <2>4. HistoryOK'
    BY <1>0, <1>8 DEF HistoryOK, Send
  <2>5. QED
    BY <1>3, <2>1, <2>2, <2>3, <2>4 DEF Step
<1>9. ASSUME NEW p \in Pass,
             \/ RecordCancel(p) \/ RecordFailed(p) \/ RecordRetry(p) \/ Throw(p)
      PROVE  Shape' /\ QuietStep
  <2>1. /\ pc[p] \in {"refresh", "defer", "cancel", "sent", "failed", "retry", "log"}
        /\ Goto(p, "log") \/ Goto(p, "catch")
        /\ UNCHANGED <<batch, cur, janitorVars, crashes, historyVars>>
        /\ faults' = faults \/ faults' = faults + 1
    BY <1>9 DEF RecordCancel, RecordFailed, RecordRetry, Record, Throw
  <2>2. cur[p].row \in Row /\ IdentityOf[p] \in Identity /\ cur[p] \in batch[p]
    BY <1>0, <2>1, Holder
  <2>3. Next \/ UNCHANGED queueVars
    <3>1. cur[p].attempts \in 1..AttemptCap
      BY <1>0, <2>2 DEF SnapshotsCurrent
    <3>2. QED
      BY <1>9, <2>2, <3>1 DEF Next, RecordCancel, RecordFailed, RecordRetry, Throw
  <2>4. Quiet
    <3>1. CASE RecordRetry(p)
      <4>1. cur[p].attempts \in 1..AttemptCap /\ cur[p].attempts < AttemptCap
        BY <1>0, <2>2, <3>1 DEF SnapshotsCurrent, RetryHasRoom, RecordRetry, Record
      <4>2. Owned(cur[p].row, IdentityOf[p]) => queue[cur[p].row].attempts < AttemptCap
        BY <1>0, <2>2, <4>1 DEF SnapshotsCurrent
      <4>3. Backoff[cur[p].attempts] \in Nat
        BY <4>1, QueueConstants
      <4>4. ScheduleRetry(cur[p].row, IdentityOf[p], Backoff[cur[p].attempts])
        BY <3>1 DEF RecordRetry
      <4>5. "failed" \in Verdict
        BY DEF Verdict
      <4>6. QED
        BY <1>0, <2>2, <4>2, <4>3, <4>4, <4>5, QuietRowOf
    <3>2. CASE ~RecordRetry(p)
      <4>1. \/ MarkCancelled(cur[p].row, IdentityOf[p])
            \/ MarkFailed(cur[p].row, IdentityOf[p])
            \/ UNCHANGED queueVars
        BY <1>9, <3>2 DEF RecordCancel, RecordFailed, Throw
      <4>2. "failed" \in Verdict
        BY DEF Verdict
      <4>3. QED
        BY <1>0, <2>2, <4>1, <4>2, QuietRowOf, QuietUnnamed
    <3>3. QED
      BY <3>1, <3>2
  <2>5. now' = now
    BY <1>9 DEF RecordCancel, RecordFailed, RecordRetry, Throw, MarkCancelled,
                MarkFailed, ScheduleRetry, queueVars
  <2>6. QED
    BY <1>4, <2>1, <2>3, <2>4, <2>5
<1>10. ASSUME NEW p \in Pass, Log(p) \/ Catch(p) \/ CatchFails(p)
       PROVE  Shape' /\ QuietStep
  <2>1. pc[p] \in {"log", "catch"} /\ Finish(p)
    BY <1>10 DEF Log, Catch, CatchFails
  <2>2. cur[p].row \in Row /\ IdentityOf[p] \in Identity
    BY <1>0, <2>1, Holder
  <2>3. MarkFailed(cur[p].row, IdentityOf[p]) \/ UNCHANGED queueVars
    BY <1>10 DEF Log, Catch, CatchFails
  <2>4. (Next \/ UNCHANGED queueVars) /\ now' = now
    BY <2>2, <2>3 DEF Next, MarkFailed, queueVars
  <2>5. "failed" \in Verdict
    BY DEF Verdict
  <2>6. Quiet
    BY <1>0, <2>2, <2>3, <2>5, QuietRowOf, QuietUnnamed
  <2>7. PassesOK' /\ \A q \in Pass : PassQuiet(q)
    BY <1>0, <2>1, FinishPasses
  <2>8. StillHeld({cur[p]}) \subseteq Row
    BY <1>0, <2>1, Holder DEF StillHeld
  <2>9. HistoryOK' /\ UNCHANGED <<janitorVars, accepted, handovers>>
    BY <1>0, <1>10, <2>8 DEF Log, Catch, CatchFails, HistoryOK, historyVars
  <2>10. QED
    BY <1>0, <2>4, <2>6, <2>7, <2>9, QueueStep, JanitorSame DEF Shape, QuietStep
<1>11. ASSUME NEW p \in Pass, Crash(p)
       PROVE  Shape' /\ QuietStep
  <2>1. PassesOK' /\ \A q \in Pass : PassQuiet(q)
    BY <1>0, <1>11, CrashPasses DEF Crash
  <2>2. StillHeld(batch[p]) \subseteq Row
    BY <1>0 DEF StillHeld, PassesOK, Snapshot
  <2>3. HistoryOK' /\ UNCHANGED <<queueVars, janitorVars, accepted, handovers>>
    BY <1>0, <1>11, <2>2 DEF Crash, HistoryOK
  <2>4. Quiet
    BY <1>0, <2>3, QuietRows DEF queueVars
  <2>5. now' = now
    BY <2>3 DEF queueVars
  <2>6. QED
    BY <1>0, <2>1, <2>3, <2>4, <2>5, QueueStep, JanitorSame DEF Shape, QuietStep
<1>12. CASE ReclaimStale \/ ReclaimStaleSecond \/ JanitorCrash
  <2>1. UNCHANGED passVars /\ HistoryOK' /\ UNCHANGED <<accepted, handovers>>
    BY <1>0, <1>12 DEF ReclaimStale, ReclaimStaleSecond, JanitorCrash, historyVars, HistoryOK
  <2>2. now \in 0..now /\ cutoffAt \in 0..now
    BY <1>0 DEF JanitorOK
  <2>3. ReclaimReturn(now) \/ ReclaimExhaust(cutoffAt) \/ UNCHANGED queueVars
    BY <1>12 DEF ReclaimStale, ReclaimStaleSecond, JanitorCrash
  <2>4. (Next \/ UNCHANGED queueVars) /\ now' = now
    BY <2>2, <2>3 DEF Next, ReclaimReturn, ReclaimExhaust, queueVars
  <2>5. Quiet
    BY <1>0, <2>2, <2>3, QuietUnnamed
  <2>6. JanitorOK'
    BY <1>0, <1>12, <2>4 DEF ReclaimStale, ReclaimStaleSecond, JanitorCrash, JanitorOK
  <2>7. QED
    BY <1>0, <2>1, <2>4, <2>5, <2>6, SamePasses, QueueStep DEF Shape, QuietStep
<1>13. CASE Environment \/ TimePasses \/ UNCHANGED vars
  <2>1. /\ UNCHANGED <<passVars, janitorVars, accepted, handovers>>
        /\ HistoryOK'
    BY <1>0, <1>13 DEF Environment, TimePasses, vars, historyVars, HistoryOK
  <2>2. \/ \E r \in Row, at \in SendTime \cup {Infinity} : Enqueue(r, at)
        \/ \E r \in Row, at \in SendTime : ResolveAnchor(r, at)
        \/ \E S \in SUBSET Row : ExpireAnchors(S)
        \/ \E r \in Row : CancelRow(r)
        \/ \E r \in Row, verdict \in Verdict : ProviderReceipt(r, verdict)
        \/ Tick
        \/ UNCHANGED queueVars
    BY <1>13 DEF Environment, TimePasses, vars
  <2>3. (Next \/ UNCHANGED queueVars) /\ (now' = now \/ now' = now + 1)
    BY <2>2 DEF Next, Enqueue, ResolveAnchor, ExpireAnchors, CancelRow, ProviderReceipt,
                Tick, queueVars
  <2>4. Quiet
    BY <1>0, <2>2, QuietUnnamed
  <2>5. QED
    BY <1>0, <2>1, <2>3, <2>4, SamePasses, QueueStep, JanitorSame DEF Shape, QuietStep
<1>14. QED
  BY <1>1, <1>2, <1>5, <1>6, <1>7, <1>8, <1>9, <1>10, <1>11, <1>12, <1>13
     DEF DeliveryNext, PassStep, ProcessQueue, FlushMessages

-----------------------------------------------------------------------------
(***************************************************************************)
(* The parts of the invariant, step by step.                               *)
(***************************************************************************)

\* The steps of a pass that write no outcome.
LEMMA RefreshQuiet ==
  ASSUME QueueInv, PassesOK, NEW p \in Pass, Refresh(p) \/ RunGates(p) \/ Send(p)
  PROVE  Quiet
<1>1. CASE Refresh(p)
  <2>1. cur[p].row \in Row /\ RefreshClaim(cur[p].row, IdentityOf[p])
    BY <1>1, Holder DEF Refresh
  <2>2. 0 \in Nat /\ "failed" \in Verdict
    BY DEF Verdict
  <2>3. QED
    BY <2>1, <2>2, QuietRowOf
<1>2. CASE RunGates(p) \/ Send(p)
  BY <1>2, QuietUnnamed DEF RunGates, Send
<1>3. QED
  BY <1>1, <1>2

\* Every step but a claim.
LEMMA NoClaimStep ==
  ASSUME DeliveryInv,
         \/ QuietStep
         \/ \E p \in Pass : \/ RecordDeferral(p) \/ RecordSent(p)
                            \/ Refresh(p) \/ RunGates(p) \/ Send(p)
  PROVE  NoNewClaim /\ \A q \in Pass : batch'[q] \subseteq batch[q]
<1>0. QueueInv /\ PassesOK /\ now \in Nat
  BY Rows DEF DeliveryInv, Shape
<1>1. CASE QuietStep
  BY <1>1, QuietTakesNoClaim DEF QuietStep, PassQuiet
<1>2. ASSUME NEW p \in Pass, RecordDeferral(p)
      PROVE  NoNewClaim /\ batch' = batch
  <2>1. PICK d \in DeferFor : DeferClaimed(cur[p].row, IdentityOf[p], now + d)
    BY <1>2 DEF RecordDeferral
  <2>2. cur[p].row \in Row /\ IdentityOf[p] \in Identity /\ now + d \in Nat
    BY <1>0, <1>2, Holder, QueueConstants DEF RecordDeferral, Record
  <2>3. NoNewClaim
    BY <1>0, <2>1, <2>2, DeferEffect DEF NoNewClaim
  <2>4. QED
    BY <1>2, <2>3 DEF RecordDeferral, Record
<1>3. ASSUME NEW p \in Pass, RecordSent(p)
      PROVE  NoNewClaim /\ batch' = batch
  <2>1. cur[p].row \in Row /\ IdentityOf[p] \in Identity
    BY <1>0, <1>3, Holder DEF RecordSent, Record
  <2>2. MarkSent(cur[p].row, IdentityOf[p])
    BY <1>3 DEF RecordSent
  <2>3. NoNewClaim
    BY <1>0, <2>1, <2>2, SentEffect DEF NoNewClaim, MarkSent
  <2>4. QED
    BY <1>3, <2>3 DEF RecordSent, Record
<1>4. ASSUME NEW p \in Pass, Refresh(p) \/ RunGates(p) \/ Send(p)
      PROVE  NoNewClaim /\ batch' = batch
  <2>1. Quiet
    BY <1>0, <1>4, RefreshQuiet
  <2>2. QED
    BY <1>4, <2>1, QuietTakesNoClaim DEF Refresh, RunGates, Send
<1>5. QED
  BY <1>1, <1>2, <1>3, <1>4

LEMMA FenceStep ==
  ASSUME DistinctIdentities, DeliveryInv, [DeliveryNext]_vars
  PROVE  FenceExact' /\ SnapshotsCurrent'
<1>0. /\ QueueInv /\ PassesOK /\ FenceExact /\ SnapshotsCurrent /\ AttemptsBounded
      /\ \A p \in Pass : batch[p] \subseteq Snapshot
  BY DEF DeliveryInv, Shape, PassesOK
<1>1. ASSUME NEW p \in Pass, NEW S \in SUBSET Row, Claim(p, S)
      PROVE  FenceExact' /\ SnapshotsCurrent'
  <2> DEFINE copy(r) == [row |-> r, attempts |-> queue[r].attempts + 1,
                         ticket |-> claims[r] + 1]
  <2>1. /\ pc[p] = "idle" /\ batch[p] = {}
        /\ ClaimRows(S, IdentityOf[p])
        /\ batch' = [batch EXCEPT ![p] = {copy(r) : r \in S}]
        /\ IdentityOf[p] \in Identity
    BY <1>0, <1>1, DeliveryConstants DEF Claim, PassesOK
  <2>2. batch'[p] = {copy(r) : r \in S} /\ \A q \in Pass \ {p} : batch'[q] = batch[q]
    BY <1>0, <2>1 DEF PassesOK
  <2>3. \A r \in S : /\ queue'[r].attempts = queue[r].attempts + 1
                     /\ claims'[r] = claims[r] + 1
                     /\ queue[r].attempts + 1 \in 1..AttemptCap
    <3>1. \A r \in S : queue[r].attempts \in Nat /\ queue[r].attempts < AttemptCap
      BY <1>0, <2>1, ClaimEffect, Rows DEF AttemptsBounded, RowInv, RowState
    <3>2. QED
      BY <1>0, <2>1, <3>1, ClaimEffect, Limits
  <2>4. ASSUME NEW s \in batch'[p]
        PROVE  /\ s.ticket = claims'[s.row]
               /\ s.attempts = queue'[s.row].attempts
               /\ s.attempts \in 1..AttemptCap
               /\ \A t \in batch'[p] : t.row = s.row => t = s
    BY <2>2, <2>3
  <2>5. ASSUME NEW q \in Pass \ {p}, NEW s \in batch[q],
               queue'[s.row].status = "processing", queue'[s.row].claimedBy = IdentityOf[q]
        PROVE  /\ queue'[s.row] = queue[s.row]
               /\ claims'[s.row] = claims[s.row]
    <3>1. s.row \in Row
      BY <1>0 DEF Snapshot
    <3>2. IdentityOf[q] # IdentityOf[p]
      BY DEF DistinctIdentities
    <3>3. QED
      BY <1>0, <2>1, <2>5, <3>1, <3>2, ClaimEffect
  <2>6. FenceExact'
    BY <1>0, <2>2, <2>4, <2>5 DEF FenceExact, Owned
  <2>7. SnapshotsCurrent'
    BY <1>0, <2>2, <2>4, <2>5 DEF SnapshotsCurrent, Owned
  <2>8. QED
    BY <2>6, <2>7
<1>2. ASSUME NoNewClaim, \A q \in Pass : batch'[q] \subseteq batch[q]
      PROVE  FenceExact' /\ SnapshotsCurrent'
  <2>1. ASSUME NEW q \in Pass, NEW s \in batch'[q]
        PROVE  s \in batch[q] /\ s.row \in Row
    BY <1>0, <1>2 DEF Snapshot
  <2>2. ASSUME NEW q \in Pass, NEW k \in Row, Owned(k, IdentityOf[q])'
        PROVE  /\ Owned(k, IdentityOf[q])
               /\ queue'[k].attempts = queue[k].attempts
               /\ claims'[k] = claims[k]
    BY <1>2, <2>2 DEF NoNewClaim, Owned
  <2>3. FenceExact'
    BY <1>0, <2>1, <2>2 DEF FenceExact
  <2>4. SnapshotsCurrent'
    BY <1>0, <2>1, <2>2 DEF SnapshotsCurrent
  <2>5. QED
    BY <2>3, <2>4
<1>3. QED
  BY <1>1, <1>2, NoClaimStep, StepShape

\* The limit of a caller is within the largest of all callers.
LEMMA CallerLimits ==
  ASSUME NEW p \in Pass
  PROVE  AttemptLimit(p) \in Nat /\ AttemptLimit(p) <= AttemptCap
<1>1. MaxAttempts \in Nat /\ FlushAttempts \in Nat
  BY Limits, DeliveryConstants
<1>2. MaxAttempts <= AttemptCap /\ FlushAttempts <= AttemptCap
  BY <1>1, DeliveryConstants DEF Larger
<1>3. QED
  BY <1>1, <1>2 DEF AttemptLimit

LEMMA AttemptsStep ==
  ASSUME DeliveryInv, [DeliveryNext]_vars
  PROVE  AttemptsBounded' /\ RetryHasRoom'
<1>0. /\ QueueInv /\ PassesOK /\ SnapshotsCurrent /\ AttemptsBounded /\ RetryHasRoom
      /\ now \in Nat
      /\ \A k \in Row : queue[k].attempts \in Nat
  BY Rows DEF DeliveryInv, Shape, RowInv, RowState
<1>1. ASSUME Quiet
      PROVE  AttemptsBounded'
  BY <1>0, <1>1 DEF Quiet, QuietRow, AttemptsBounded
<1>2. CASE QuietStep
  <2>1. RetryHasRoom'
    BY <1>0, <1>2 DEF QuietStep, PassQuiet, RetryHasRoom
  <2>2. QED
    BY <1>1, <1>2, <2>1 DEF QuietStep
<1>3. ASSUME NEW p \in Pass, NEW S \in SUBSET Row, Claim(p, S)
      PROVE  AttemptsBounded' /\ RetryHasRoom'
  <2>1. ClaimRows(S, IdentityOf[p]) /\ IdentityOf[p] \in Identity
    BY <1>3, DeliveryConstants DEF Claim
  <2>2. AttemptsBounded'
    <3>1. ASSUME NEW k \in Row
          PROVE  /\ queue'[k].attempts <= AttemptCap
                 /\ queue'[k].status = "pending" => queue'[k].attempts < AttemptCap
      BY <1>0, <2>1, ClaimEffect, Limits DEF AttemptsBounded
    <3>2. QED
      BY <3>1 DEF AttemptsBounded
  <2>3. RetryHasRoom'
    BY <1>0, <1>3 DEF Claim, Goto, PassesOK, RetryHasRoom
  <2>4. QED
    BY <2>2, <2>3
<1>4. ASSUME NEW p \in Pass, RecordDeferral(p)
      PROVE  AttemptsBounded' /\ RetryHasRoom'
  <2>1. PICK d \in DeferFor : DeferClaimed(cur[p].row, IdentityOf[p], now + d)
    BY <1>4 DEF RecordDeferral
  <2>2. cur[p].row \in Row /\ IdentityOf[p] \in Identity /\ now + d \in Nat
    BY <1>0, <1>4, Holder, QueueConstants DEF RecordDeferral, Record
  <2>3. ASSUME NEW k \in Row
        PROVE  /\ queue'[k].attempts <= AttemptCap
               /\ queue'[k].status = "pending" => queue'[k].attempts < AttemptCap
    BY <1>0, <2>1, <2>2, DeferEffect, Limits DEF AttemptsBounded
  <2>4. RetryHasRoom'
    BY <1>0, <1>4 DEF RecordDeferral, Record, Goto, PassesOK, RetryHasRoom
  <2>5. QED
    BY <2>3, <2>4 DEF AttemptsBounded
<1>5. ASSUME NEW p \in Pass, RecordSent(p)
      PROVE  AttemptsBounded' /\ RetryHasRoom'
  <2>1. /\ MarkSent(cur[p].row, IdentityOf[p])
        /\ cur[p].row \in Row /\ IdentityOf[p] \in Identity
    BY <1>0, <1>5, Holder DEF RecordSent, Record
  <2>2. ASSUME NEW k \in Row
        PROVE  /\ queue'[k].attempts <= AttemptCap
               /\ queue'[k].status = "pending" => queue'[k].attempts < AttemptCap
    BY <1>0, <2>1, SentEffect DEF AttemptsBounded
  <2>3. RetryHasRoom'
    BY <1>0, <1>5 DEF RecordSent, Record, Goto, PassesOK, RetryHasRoom
  <2>4. QED
    BY <2>2, <2>3 DEF AttemptsBounded
<1>6. ASSUME NEW p \in Pass, Refresh(p) \/ RunGates(p)
      PROVE  AttemptsBounded' /\ RetryHasRoom'
  <2>1. AttemptsBounded'
    BY <1>0, <1>1, <1>6, RefreshQuiet
  <2>2. /\ \A q \in Pass \ {p} : pc'[q] = pc[q] /\ cur'[q] = cur[q]
        /\ pc'[p] # "retry"
    BY <1>0, <1>6 DEF Refresh, RunGates, Goto, PassesOK
  <2>3. QED
    BY <1>0, <2>1, <2>2 DEF RetryHasRoom
<1>7. ASSUME NEW p \in Pass, Send(p)
      PROVE  AttemptsBounded' /\ RetryHasRoom'
  <2>1. AttemptsBounded'
    BY <1>0, <1>1, <1>7, RefreshQuiet
  <2>2. cur[p].attempts \in 1..AttemptCap
    BY <1>0, <1>7, Holder DEF Send, SnapshotsCurrent
  <2>3. /\ \A q \in Pass \ {p} : pc'[q] = pc[q]
        /\ cur' = cur
    BY <1>0, <1>7 DEF Send, Goto, PassesOK
  <2>4. pc'[p] = "retry" => cur[p].attempts < AttemptCap
    <3>1. ASSUME pc'[p] = "retry"
          PROVE  \E limit \in ClassLimit :
                    ~(cur[p].attempts >= Least(limit, AttemptLimit(p)))
      BY <1>0, <1>7, <3>1 DEF Send, Goto, PassesOK
    <3>2. ASSUME NEW limit \in ClassLimit,
                 ~(cur[p].attempts >= Least(limit, AttemptLimit(p)))
          PROVE  cur[p].attempts < AttemptCap
      <4>1. limit \in Nat
        BY DeliveryConstants
      <4>2. QED
        BY <2>2, <3>2, <4>1, CallerLimits, Limits DEF Least
    <3>3. QED
      BY <3>1, <3>2
  <2>5. QED
    BY <1>0, <2>1, <2>3, <2>4 DEF RetryHasRoom
<1>8. QED
  BY <1>2, <1>3, <1>4, <1>5, <1>6, <1>7, StepShape

LEMMA HandoverStep ==
  ASSUME DistinctIdentities, DeliveryInv, [DeliveryNext]_vars
  PROVE  HandoversCounted' /\ HandoverHasRoom'
<1>0. /\ QueueInv /\ PassesOK /\ SnapshotsCurrent /\ HandoversCounted /\ HandoverHasRoom
      /\ now \in Nat
      /\ handovers \in [Row -> Nat]
      /\ \A k \in Row : queue[k].attempts \in Nat
      /\ \A q \in Pass : batch[q] \subseteq Snapshot
  BY Rows DEF DeliveryInv, Shape, HistoryOK, RowInv, RowState, PassesOK
\* Room is kept where a row not handed over before and after counts the same.
<1>1. ASSUME NoNewClaim,
             \A q \in Pass : batch'[q] \subseteq batch[q],
             \A q \in Pass : \A s \in batch[q] :
                Owned(s.row, IdentityOf[q])' /\ NotHandedOver(q, s)' =>
                   NotHandedOver(q, s) /\ handovers'[s.row] = handovers[s.row]
      PROVE  HandoverHasRoom'
  <2>1. ASSUME NEW q \in Pass, NEW s \in batch[q], Owned(s.row, IdentityOf[q])'
        PROVE  /\ Owned(s.row, IdentityOf[q])
               /\ queue'[s.row].attempts = queue[s.row].attempts
    BY <1>0, <1>1, <2>1 DEF NoNewClaim, Owned, Snapshot
  <2>2. QED
    BY <1>0, <1>1, <2>1 DEF HandoverHasRoom
<1>2. ASSUME Quiet, handovers' = handovers
      PROVE  HandoversCounted'
  BY <1>0, <1>2 DEF Quiet, QuietRow, HandoversCounted
<1>3. CASE QuietStep
  <2>1. ASSUME NEW q \in Pass, NEW s \in batch'[q], NotHandedOver(q, s)'
        PROVE  NotHandedOver(q, s)
    BY <1>3, <2>1 DEF QuietStep, PassQuiet, NotHandedOver
  <2>2. HandoverHasRoom'
    <3>1. /\ NoNewClaim
          /\ \A q \in Pass : batch'[q] \subseteq batch[q]
          /\ handovers' = handovers
      BY <1>3, NoClaimStep DEF QuietStep
    <3>2. ASSUME NEW q \in Pass, NEW s \in batch'[q],
                 Owned(s.row, IdentityOf[q])', NotHandedOver(q, s)'
          PROVE  handovers'[s.row] + 1 <= queue'[s.row].attempts
      <4>1. s \in batch[q] /\ s.row \in Row /\ NotHandedOver(q, s)
        BY <1>0, <2>1, <3>1, <3>2 DEF Snapshot
      <4>2. /\ Owned(s.row, IdentityOf[q])
            /\ queue'[s.row].attempts = queue[s.row].attempts
        BY <3>1, <3>2, <4>1 DEF NoNewClaim, Owned
      <4>3. QED
        BY <1>0, <3>1, <4>1, <4>2 DEF HandoverHasRoom
    <3>3. QED
      BY <3>2 DEF HandoverHasRoom
  <2>3. QED
    BY <1>2, <1>3, <2>2 DEF QuietStep
<1>4. ASSUME NEW p \in Pass, NEW S \in SUBSET Row, Claim(p, S)
      PROVE  HandoversCounted' /\ HandoverHasRoom'
  <2> DEFINE copy(r) == [row |-> r, attempts |-> queue[r].attempts + 1,
                         ticket |-> claims[r] + 1]
  <2>1. /\ ClaimRows(S, IdentityOf[p])
        /\ IdentityOf[p] \in Identity
        /\ handovers' = handovers
        /\ cur' = cur
        /\ \A q \in Pass \ {p} : batch'[q] = batch[q] /\ pc'[q] = pc[q]
        /\ batch'[p] = {copy(r) : r \in S}
    BY <1>0, <1>4, DeliveryConstants DEF Claim, Goto, PassesOK
  <2>2. ASSUME NEW k \in Row
        PROVE  /\ queue'[k].attempts >= queue[k].attempts
               /\ k \in S => queue'[k].attempts = queue[k].attempts + 1
               /\ k \notin S => queue'[k] = queue[k]
               /\ k \in S => queue'[k].claimedBy = IdentityOf[p]
    <3>1. /\ k \in S => queue'[k].attempts = queue[k].attempts + 1
          /\ k \notin S => queue'[k] = queue[k]
          /\ k \in S => queue'[k].claimedBy = IdentityOf[p]
      <4> HIDE DEF copy
      <4>1. QED
        BY <1>0, <2>1, ClaimEffect
    <3>2. queue[k].attempts \in Nat
      BY <1>0
    <3>3. QED
      BY <3>1, <3>2
  <2>3. HandoversCounted'
    BY <1>0, <2>1, <2>2 DEF HandoversCounted
  <2>4. ASSUME NEW s \in batch'[p]
        PROVE  handovers'[s.row] + 1 <= queue'[s.row].attempts
    <3>1. s.row \in S
      BY <2>1
    <3>2. QED
      BY <1>0, <2>1, <2>2, <3>1 DEF HandoversCounted
  <2>5. ASSUME NEW q \in Pass \ {p}, NEW s \in batch[q], Owned(s.row, IdentityOf[q])'
        PROVE  queue'[s.row] = queue[s.row] /\ s.row \in Row
    <3>1. s.row \in Row /\ IdentityOf[q] # IdentityOf[p]
      BY <1>0 DEF Snapshot, DistinctIdentities
    <3>2. QED
      BY <2>2, <2>5, <3>1 DEF Owned
  <2>6. HandoverHasRoom'
    <3>1. ASSUME NEW q \in Pass \ {p}, NEW s \in batch[q],
                 Owned(s.row, IdentityOf[q])', NotHandedOver(q, s)'
          PROVE  handovers'[s.row] + 1 <= queue'[s.row].attempts
      <4>1. NotHandedOver(q, s)
        BY <2>1, <3>1 DEF NotHandedOver
      <4>2. QED
        BY <1>0, <2>1, <2>5, <3>1, <4>1 DEF HandoverHasRoom, Owned
    <3>2. QED
      BY <2>1, <2>4, <3>1 DEF HandoverHasRoom
  <2>7. QED
    BY <2>3, <2>6
\* A pass that goes on with its row, other than to be at the row's beginning.
<1>5. ASSUME NEW p \in Pass, UNCHANGED <<batch, cur>>,
             \A q \in Pass \ {p} : pc'[q] = pc[q],
             pc'[p] \notin {"walk", "refresh", "defer", "cancel"}
      PROVE  \A q \in Pass : \A s \in batch[q] :
                NotHandedOver(q, s)' => NotHandedOver(q, s) /\ (q = p => s # cur[p])
  BY <1>5 DEF NotHandedOver
<1>6. ASSUME NEW p \in Pass, RecordDeferral(p)
      PROVE  HandoversCounted' /\ HandoverHasRoom'
  <2>1. PICK d \in DeferFor : DeferClaimed(cur[p].row, IdentityOf[p], now + d)
    BY <1>6 DEF RecordDeferral
  <2>2. /\ pc[p] = "defer" /\ UNCHANGED <<batch, cur, handovers>>
        /\ \A q \in Pass \ {p} : pc'[q] = pc[q]
        /\ pc'[p] = "log"
    BY <1>0, <1>6 DEF RecordDeferral, Record, Goto, PassesOK, historyVars
  <2>3. /\ cur[p] \in batch[p] /\ cur[p].row \in Row
        /\ IdentityOf[p] \in Identity /\ now + d \in Nat
    BY <1>0, <2>2, Holder, QueueConstants
  <2>4. Owned(cur[p].row, IdentityOf[p]) =>
           handovers[cur[p].row] + 1 <= queue[cur[p].row].attempts
    BY <1>0, <2>2, <2>3 DEF HandoverHasRoom, NotHandedOver
  <2>5. ASSUME NEW k \in Row
        PROVE  handovers'[k] <= queue'[k].attempts
    BY <1>0, <2>1, <2>2, <2>3, <2>4, DeferEffect DEF HandoversCounted
  <2>6. HandoverHasRoom'
    BY <1>1, <1>5, <1>6, <2>2, NoClaimStep
  <2>7. QED
    BY <2>5, <2>6 DEF HandoversCounted
<1>7. ASSUME NEW p \in Pass, RecordSent(p)
      PROVE  HandoversCounted' /\ HandoverHasRoom'
  <2>1. /\ pc[p] = "sent" /\ UNCHANGED <<batch, cur, handovers>>
        /\ \A q \in Pass \ {p} : pc'[q] = pc[q]
        /\ pc'[p] = "log"
        /\ MarkSent(cur[p].row, IdentityOf[p])
    BY <1>0, <1>7 DEF RecordSent, Record, Goto, PassesOK, historyVars
  <2>2. cur[p].row \in Row /\ IdentityOf[p] \in Identity
    BY <1>0, <2>1, Holder
  <2>3. ASSUME NEW k \in Row
        PROVE  handovers'[k] <= queue'[k].attempts
    BY <1>0, <2>1, <2>2, SentEffect DEF HandoversCounted
  <2>4. HandoverHasRoom'
    BY <1>1, <1>5, <1>7, <2>1, NoClaimStep
  <2>5. QED
    BY <2>3, <2>4 DEF HandoversCounted
<1>8. ASSUME NEW p \in Pass, Send(p)
      PROVE  HandoversCounted' /\ HandoverHasRoom'
  <2>1. /\ UNCHANGED <<batch, cur, handovers>>
        /\ \A q \in Pass \ {p} : pc'[q] = pc[q]
        /\ pc'[p] \in {"sent", "failed", "retry", "catch"}
    BY <1>0, <1>8 DEF Send, Goto, PassesOK
  <2>2. HandoverHasRoom'
    BY <1>1, <1>5, <1>8, <2>1, NoClaimStep
  <2>3. QED
    BY <1>0, <1>2, <1>8, <2>1, <2>2, RefreshQuiet
<1>9. ASSUME NEW p \in Pass, RunGates(p)
      PROVE  HandoversCounted' /\ HandoverHasRoom'
  <2>1. /\ pc[p] = "walk" /\ UNCHANGED <<batch, handovers>>
        /\ \A q \in Pass \ {p} : pc'[q] = pc[q] /\ cur'[q] = cur[q]
    BY <1>0, <1>9 DEF RunGates, Goto, PassesOK, historyVars
  <2>2. \A q \in Pass : \A s \in batch[q] : NotHandedOver(q, s)' => NotHandedOver(q, s)
    BY <2>1 DEF NotHandedOver
  <2>3. HandoverHasRoom'
    BY <1>1, <1>9, <2>1, <2>2, NoClaimStep
  <2>4. QED
    BY <1>0, <1>2, <1>9, <2>1, <2>3, RefreshQuiet
<1>10. ASSUME NEW p \in Pass, Refresh(p)
       PROVE  HandoversCounted' /\ HandoverHasRoom'
  <2> DEFINE r == cur[p].row
             ours == Owned(r, IdentityOf[p])
  <2>1. /\ pc[p] = "refresh" /\ UNCHANGED <<batch, cur>>
        /\ \A q \in Pass \ {p} : pc'[q] = pc[q]
        /\ pc'[p] \in {"send", "log"}
    BY <1>0, <1>10 DEF Refresh, Goto, PassesOK
  <2>2. cur[p] \in batch[p] /\ r \in Row
    BY <1>0, <2>1, Holder
  <2>3. /\ handovers'[r] = IF ours THEN handovers[r] + 1 ELSE handovers[r]
        /\ \A k \in Row \ {r} : handovers'[k] = handovers[k]
    BY <1>0, <1>10, <2>2 DEF Refresh
  <2>4. ours => handovers[r] + 1 <= queue[r].attempts
    BY <1>0, <2>1, <2>2 DEF HandoverHasRoom, NotHandedOver
  <2>5. HandoversCounted'
    <3>1. Quiet
      BY <1>0, <1>10, RefreshQuiet
    <3>2. \A k \in Row : queue'[k].attempts = queue[k].attempts
      BY <3>1 DEF Quiet, QuietRow
    <3>3. \A k \in Row : handovers'[k] <= queue[k].attempts
      BY <1>0, <2>3, <2>4 DEF HandoversCounted
    <3>4. QED
      BY <3>2, <3>3 DEF HandoversCounted
  <2>6. NoNewClaim
    BY <1>10, NoClaimStep
  <2>7. ASSUME NEW q \in Pass, NEW s \in batch[q],
               Owned(s.row, IdentityOf[q])', NotHandedOver(q, s)'
        PROVE  NotHandedOver(q, s) /\ handovers'[s.row] = handovers[s.row]
    <3>1. NotHandedOver(q, s) /\ (q = p => s # cur[p])
      BY <1>5, <2>1, <2>7
    <3>2. s.row \in Row /\ Owned(s.row, IdentityOf[q])
      BY <1>0, <2>6, <2>7 DEF NoNewClaim, Owned, Snapshot
    <3>3. CASE s.row # r
      BY <2>3, <3>1, <3>2, <3>3
    <3>4. CASE s.row = r
      <4>1. q # p
        BY <1>0, <2>2, <3>1, <3>4 DEF SnapshotsCurrent
      <4>2. IdentityOf[q] # IdentityOf[p]
        BY <4>1 DEF DistinctIdentities
      <4>3. ~ours
        BY <3>2, <3>4, <4>2 DEF Owned
      <4>4. QED
        BY <2>3, <3>1, <3>4, <4>3
    <3>5. QED
      BY <3>3, <3>4
  <2>8. HandoverHasRoom'
    BY <1>1, <2>1, <2>6, <2>7
  <2>9. QED
    BY <2>5, <2>8
<1>11. QED
  BY <1>3, <1>4, <1>6, <1>7, <1>8, <1>9, <1>10, StepShape

LEMMA SentStep ==
  ASSUME DeliveryInv, [DeliveryNext]_vars
  PROVE  SentMeansAccepted' /\ SentAfterAccepted'
<1>0. /\ QueueInv /\ PassesOK /\ SentMeansAccepted /\ SentAfterAccepted
      /\ accepted \in [Row -> BOOLEAN]
      /\ now \in Nat
      /\ \A k \in Row : queue[k].sentAt => queue[k].status \in {"sent"} \cup Verdict
  BY Rows DEF DeliveryInv, Shape, HistoryOK, QueueInv
<1>1. \A k \in Row : queue'[k].sentAt => queue'[k].status \in {"sent"} \cup Verdict
  BY StepShape DEF Shape, QueueInv
\* A step that gives no row a sent_at, and forgets no acceptance.
<1>2. ASSUME \A k \in Row : /\ queue'[k].sentAt = queue[k].sentAt
                            /\ queue'[k].status = "sent" => queue[k].status = "sent",
             \A k \in Row : accepted[k] => accepted'[k]
      PROVE  SentMeansAccepted'
  <2>1. ASSUME NEW k \in Row
        PROVE  /\ queue'[k].status = "sent" => queue'[k].sentAt
               /\ queue'[k].sentAt => accepted'[k]
    <3>1. /\ queue[k].status = "sent" => queue[k].sentAt
          /\ queue[k].sentAt => accepted[k]
      BY <1>0 DEF SentMeansAccepted
    <3>2. QED
      BY <1>2, <3>1
  <2>2. QED
    BY <1>1, <2>1 DEF SentMeansAccepted
<1>3. CASE QuietStep
  <2>1. SentMeansAccepted'
    BY <1>2, <1>3 DEF QuietStep, Quiet, QuietRow
  <2>2. SentAfterAccepted'
    BY <1>0, <1>3 DEF QuietStep, PassQuiet, SentAfterAccepted
  <2>3. QED
    BY <2>1, <2>2
<1>4. ASSUME NEW p \in Pass, NEW S \in SUBSET Row, Claim(p, S)
      PROVE  SentMeansAccepted' /\ SentAfterAccepted'
  <2>1. /\ ClaimRows(S, IdentityOf[p]) /\ IdentityOf[p] \in Identity
        /\ accepted' = accepted /\ cur' = cur
        /\ pc'[p] = "walk" /\ \A q \in Pass \ {p} : pc'[q] = pc[q]
    BY <1>0, <1>4, DeliveryConstants DEF Claim, Goto, PassesOK
  <2>2. \A k \in Row : /\ queue'[k].sentAt = queue[k].sentAt
                       /\ queue'[k].status = "sent" => queue[k].status = "sent"
    <3> SUFFICES ASSUME NEW k \in Row
                 PROVE  /\ queue'[k].sentAt = queue[k].sentAt
                        /\ queue'[k].status = "sent" => queue[k].status = "sent"
      OBVIOUS
    <3>1. PICK id \in Identity : ClaimRows(S, id)
      BY <2>1
    <3>2. /\ k \notin S => queue'[k] = queue[k]
          /\ k \in S => queue'[k].status = "processing" /\ queue'[k].sentAt = queue[k].sentAt
      BY <1>0, <3>1, ClaimEffect
    <3> QED BY <3>2
  <2>3. SentAfterAccepted'
    BY <1>0, <2>1 DEF SentAfterAccepted
  <2>4. QED
    BY <1>2, <2>1, <2>2, <2>3
<1>5. ASSUME NEW p \in Pass, RecordDeferral(p)
      PROVE  SentMeansAccepted' /\ SentAfterAccepted'
  <2>1. PICK d \in DeferFor : DeferClaimed(cur[p].row, IdentityOf[p], now + d)
    BY <1>5 DEF RecordDeferral
  <2>2. /\ accepted' = accepted /\ cur' = cur
        /\ pc'[p] = "log" /\ \A q \in Pass \ {p} : pc'[q] = pc[q]
    BY <1>0, <1>5 DEF RecordDeferral, Record, Goto, PassesOK, historyVars
  <2>3. cur[p].row \in Row /\ IdentityOf[p] \in Identity /\ now + d \in Nat
    BY <1>0, <1>5, Holder, QueueConstants DEF RecordDeferral, Record
  <2>4. \A k \in Row : /\ queue'[k].sentAt = queue[k].sentAt
                       /\ queue'[k].status = "sent" => queue[k].status = "sent"
    BY <1>0, <2>1, <2>3, DeferEffect
  <2>5. SentAfterAccepted'
    BY <1>0, <2>2 DEF SentAfterAccepted
  <2>6. QED
    BY <1>2, <2>2, <2>4, <2>5
<1>6. ASSUME NEW p \in Pass, RecordSent(p)
      PROVE  SentMeansAccepted' /\ SentAfterAccepted'
  <2>1. /\ MarkSent(cur[p].row, IdentityOf[p]) /\ pc[p] = "sent"
        /\ accepted' = accepted /\ cur' = cur
        /\ pc'[p] = "log" /\ \A q \in Pass \ {p} : pc'[q] = pc[q]
    BY <1>0, <1>6 DEF RecordSent, Record, Goto, PassesOK, historyVars
  <2>2. cur[p].row \in Row /\ IdentityOf[p] \in Identity /\ accepted[cur[p].row]
    BY <1>0, <2>1, Holder DEF SentAfterAccepted
  <2>3. ASSUME NEW k \in Row
        PROVE  /\ queue'[k].status = "sent" => queue'[k].sentAt
               /\ queue'[k].sentAt => accepted[k]
    BY <1>0, <2>1, <2>2, SentEffect DEF SentMeansAccepted
  <2>4. SentMeansAccepted'
    BY <1>1, <2>1, <2>3 DEF SentMeansAccepted
  <2>5. SentAfterAccepted'
    BY <1>0, <2>1 DEF SentAfterAccepted
  <2>6. QED
    BY <2>4, <2>5
<1>7. ASSUME NEW p \in Pass, Refresh(p) \/ RunGates(p) \/ Send(p)
      PROVE  SentMeansAccepted' /\ SentAfterAccepted'
  <2>1. Quiet
    BY <1>0, <1>7, RefreshQuiet
  <2>2. \A k \in Row : accepted[k] => accepted'[k]
    BY <1>0, <1>7 DEF Refresh, RunGates, Send, historyVars
  <2>3. SentMeansAccepted'
    BY <1>2, <2>1, <2>2 DEF Quiet, QuietRow
  <2>4. \A q \in Pass \ {p} : pc'[q] = pc[q] /\ cur'[q] = cur[q]
    BY <1>0, <1>7 DEF Refresh, RunGates, Send, Goto, PassesOK
  <2>5. pc'[p] = "sent" => accepted'[cur'[p].row]
    <3>1. CASE Send(p)
      <4>1. cur[p].row \in Row /\ cur' = cur
        BY <1>0, <3>1, Holder DEF Send
      <4>2. QED
        BY <1>0, <3>1, <4>1 DEF Send, Goto, PassesOK
    <3>2. CASE Refresh(p) \/ RunGates(p)
      BY <1>0, <3>2 DEF Refresh, RunGates, Goto, PassesOK
    <3>3. QED
      BY <1>7, <3>1, <3>2
  <2>6. \A q \in Pass \ {p} : pc'[q] = "sent" => accepted'[cur'[q].row]
    <3>1. ASSUME NEW q \in Pass \ {p}, pc'[q] = "sent"
          PROVE  cur[q].row \in Row /\ accepted[cur[q].row] /\ cur'[q] = cur[q]
      BY <1>0, <2>4, <3>1, Holder DEF SentAfterAccepted
    <3>2. QED
      BY <2>2, <3>1
  <2>7. QED
    BY <2>3, <2>5, <2>6 DEF SentAfterAccepted
<1>8. QED
  BY <1>3, <1>4, <1>5, <1>6, <1>7, StepShape

-----------------------------------------------------------------------------
(***************************************************************************)
(* The theorems.                                                           *)
(***************************************************************************)

LEMMA InitDeliveryInv == DeliveryInit => DeliveryInv
<1>1. SUFFICES ASSUME DeliveryInit PROVE DeliveryInv
  OBVIOUS
<1>2. QueueInv /\ \A r \in Row : queue[r] = Absent
  BY <1>1, InitQueueInv DEF DeliveryInit, Init
<1>3. Shape
  BY <1>1, <1>2, InitQueueInv
     DEF DeliveryInit, Init, Shape, PassesOK, JanitorOK, HistoryOK, Step
<1>4. /\ Absent.attempts = 0 /\ Absent.status = "absent" /\ ~Absent.sentAt
      /\ \A p \in Pass : pc[p] = "idle" /\ batch[p] = {}
      /\ \A r \in Row : handovers[r] = 0
  BY <1>1 DEF DeliveryInit, Absent
<1>5. FenceExact /\ SnapshotsCurrent /\ RetryHasRoom /\ HandoverHasRoom /\ SentAfterAccepted
  BY <1>4 DEF FenceExact, SnapshotsCurrent, RetryHasRoom, HandoverHasRoom, SentAfterAccepted
<1>6. AttemptsBounded /\ HandoversCounted /\ SentMeansAccepted
  BY <1>2, <1>4, Limits DEF AttemptsBounded, HandoversCounted, SentMeansAccepted
<1>7. QED
  BY <1>3, <1>5, <1>6 DEF DeliveryInv

LEMMA DeliveryStep ==
  ASSUME DistinctIdentities, DeliveryInv, [DeliveryNext]_vars
  PROVE  DeliveryInv'
  BY StepShape, FenceStep, AttemptsStep, HandoverStep, SentStep DEF DeliveryInv

\* The invariant holds as long as no two passes share an identity.
LEMMA DeliveryInvariance ==
  ASSUME DistinctIdentities
  PROVE  DeliverySpec => []DeliveryInv
<1>1. DeliveryInv /\ [DeliveryNext]_vars => DeliveryInv'
  BY DeliveryStep
<1>2. QED
  BY InitDeliveryInv, <1>1, PTL DEF DeliverySpec

\* Every variable of the passes keeps its type: in particular a pass at work
\* has the row it delivers in its batch, and an idle pass has none left.
THEOREM DeliveryTyped ==
  ASSUME DistinctIdentities
  PROVE  DeliverySpec => []DeliveryTypeOK
<1>1. DeliveryInv => DeliveryTypeOK
  BY ShapeTypes DEF DeliveryInv
<1>2. QED
  BY DeliveryInvariance, <1>1, PTL

\* The fence of message-queue.ts lets a pass write a row only under the very
\* claim the pass took (FenceExact), for any number of passes, rows, reclaims and
\* crashes, if every pass has an identity of its own.
THEOREM FenceIsExact ==
  ASSUME DistinctIdentities
  PROVE  DeliverySpec => []FenceExact
<1>1. DeliveryInv => FenceExact
  BY DEF DeliveryInv
<1>2. QED
  BY DeliveryInvariance, <1>1, PTL

\* No message is tried more often than the largest limit of any caller, although
\* no claim looks at the attempts (AttemptsBounded).
THEOREM AttemptsAreBounded ==
  ASSUME DistinctIdentities
  PROVE  DeliverySpec => []AttemptsBounded
<1>1. DeliveryInv => AttemptsBounded
  BY DEF DeliveryInv
<1>2. QED
  BY DeliveryInvariance, <1>1, PTL

\* Each hand-over to the provider is backed by an attempt that no deferral can
\* take back any more (HandoversCounted).
THEOREM HandoversAreCounted ==
  ASSUME DistinctIdentities
  PROVE  DeliverySpec => []HandoversCounted
<1>1. DeliveryInv => HandoversCounted
  BY DEF DeliveryInv
<1>2. QED
  BY DeliveryInvariance, <1>1, PTL

\* A row that says sent is of a message the provider took, and is not waiting, in
\* flight or cancelled (SentMeansAccepted).
THEOREM SentWasAccepted ==
  ASSUME DistinctIdentities
  PROVE  DeliverySpec => []SentMeansAccepted
<1>1. DeliveryInv => SentMeansAccepted
  BY DEF DeliveryInv
<1>2. QED
  BY DeliveryInvariance, <1>1, PTL

\* No statement of a pass or of reclaim-stale selects a row with a sent_at.
LEMMA SentUntouched ==
  ASSUME DeliveryInv, DeliveryNext, pc' # pc \/ janitor' # janitor
  PROVE  \A r \in Row : queue[r].sentAt => queue'[r] = queue[r]
<1>0. \A k \in Row : queue[k].sentAt => queue[k].status \notin {"pending", "processing"}
  BY DEF DeliveryInv, Shape, QueueInv, Verdict
<1> DEFINE Kept == \A k \in Row : queue[k].sentAt => queue'[k] = queue[k]
<1>1. ASSUME UNCHANGED queueVars
      PROVE  Kept
  BY <1>1 DEF queueVars
<1>2. ASSUME NEW r, NEW id, NEW t,
             \/ DeferClaimed(r, id, t) \/ MarkCancelled(r, id) \/ MarkSent(r, id)
             \/ MarkFailed(r, id) \/ ScheduleRetry(r, id, t) \/ RefreshClaim(r, id)
      PROVE  Kept
  <2>1. \A k \in Row : queue'[k] = queue[k] \/ queue[k].status = "processing"
    BY <1>2 DEF DeferClaimed, MarkCancelled, MarkSent, MarkFailed, ScheduleRetry,
                RefreshClaim, Update, If, OwnedUnsent, Owned
  <2>2. QED
    BY <1>0, <2>1
<1>3. ASSUME NEW S, NEW id, ClaimRows(S, id)
      PROVE  Kept
  BY <1>0, <1>3 DEF ClaimRows, Update, Due
<1>4. ASSUME NEW t, ReclaimReturn(t) \/ ReclaimExhaust(t)
      PROVE  Kept
  <2>1. \A k \in Row : queue'[k] = queue[k] \/ queue[k].status = "processing"
    BY <1>4 DEF ReclaimReturn, ReclaimExhaust, Update, Stale
  <2>2. QED
    BY <1>0, <2>1
<1>5. ASSUME NEW p \in Pass, ProcessQueue(p) \/ FlushMessages(p)
      PROVE  Kept
  BY <1>3, <1>5 DEF ProcessQueue, FlushMessages, Claim
<1>6. ASSUME NEW p \in Pass, PassStep(p)
      PROVE  Kept
  BY <1>1, <1>2, <1>6 DEF PassStep, RunGates, RecordDeferral, RecordCancel, RecordSent,
     RecordFailed, RecordRetry, Refresh, Send, Log, Catch
<1>7. ASSUME NEW p \in Pass, Throw(p) \/ CatchFails(p) \/ Crash(p)
      PROVE  Kept
  BY <1>1, <1>7 DEF Throw, CatchFails, Crash
<1>8. CASE ReclaimStale \/ ReclaimStaleSecond \/ JanitorCrash
  BY <1>1, <1>4, <1>8 DEF ReclaimStale, ReclaimStaleSecond, JanitorCrash
<1>9. CASE Environment \/ TimePasses
  BY <1>9 DEF Environment, TimePasses, passVars, janitorVars
<1>10. QED
  BY <1>5, <1>6, <1>7, <1>8, <1>9 DEF DeliveryNext

\* Once a message is marked sent, no pass and no reclaim changes its row
\* (SentIsFinal): a late failure, retry or cancellation finds nothing to write.
THEOREM SentStaysSent ==
  ASSUME DistinctIdentities
  PROVE  DeliverySpec => SentIsFinal
<1>1. DeliveryInv /\ [DeliveryNext]_vars =>
        [\A r \in Row :
            /\ queue[r].sentAt
            /\ pc' # pc \/ janitor' # janitor
            => queue'[r] = queue[r]]_vars
  BY SentUntouched
<1>2. QED
  BY DeliveryInvariance, <1>1, PTL DEF DeliverySpec, SentIsFinal

-----------------------------------------------------------------------------
(***************************************************************************)
(* Who attends to a row in flight.                                         *)
(***************************************************************************)

\* The last claim of a row in flight is that of the pass that holds it.
TicketsFit ==
    \A p \in Pass : \A s \in batch[p] :
        /\ s.ticket <= claims[s.row]
        /\ s.ticket = claims[s.row] /\ queue[s.row].status = "processing" =>
              queue[s.row].claimedBy = IdentityOf[p]

\* A pass that records its decision has let its row go.
RowsDealtWith == \A p \in Pass : pc[p] = "log" => ~Owned(cur[p].row, IdentityOf[p])

Attended == TicketsFit /\ RowsDealtWith /\ ClaimsAttended

\* After a statement of the pass that holds a row, it is not held any more.
LEMMA StatementLetsGo ==
  ASSUME QueueInv, NEW r \in Row, NEW id \in Identity,
         \/ \E t : DeferClaimed(r, id, t) \/ ScheduleRetry(r, id, t)
         \/ MarkCancelled(r, id) \/ MarkSent(r, id) \/ MarkFailed(r, id)
  PROVE  ~Owned(r, id)'
<1>1. /\ queue[r] \in RowState
      /\ queue[r].status = "processing" => ~queue[r].sentAt
  BY Rows DEF RowInv, Verdict
<1>2. ASSUME NEW st \in {"pending", "sent", "failed", "cancelled"}, NEW new \in RowState,
             new.status = st, queue'[r] = IF OwnedUnsent(r, id) THEN new ELSE queue[r]
      PROVE  ~Owned(r, id)'
  BY <1>1, <1>2 DEF Owned, OwnedUnsent
<1>3. ASSUME NEW new, new.status # "processing", queue'[r] = IF OwnedUnsent(r, id) THEN new ELSE queue[r]
      PROVE  ~Owned(r, id)'
  BY <1>1, <1>3 DEF Owned, OwnedUnsent
<1>4. \A st \in {"pending", "sent", "failed", "cancelled"} :
        Released(queue[r], st).status = st /\ Released(queue[r], st) \in RowState
  BY <1>1, ReleasedColumns DEF Status
<1>5. CASE \E t : DeferClaimed(r, id, t)
  <2>1. PICK t : DeferClaimed(r, id, t)
    BY <1>5
  <2>2. PICK new : new = Deferred(queue[r], t)
    OBVIOUS
  <2>3. new.status = "pending"
    BY <1>4, <2>2 DEF Deferred, RowState
  <2>4. queue'[r] = IF OwnedUnsent(r, id) THEN new ELSE queue[r]
    BY <2>1, <2>2 DEF DeferClaimed, Update, If
  <2> QED BY <1>3, <2>3, <2>4
<1>6. CASE \E t : ScheduleRetry(r, id, t)
  <2>1. PICK t : ScheduleRetry(r, id, t)
    BY <1>6
  <2>2. PICK new : new = Retried(queue[r], now + t)
    OBVIOUS
  <2>3. new.status = "pending"
    BY <1>4, <2>2 DEF Retried, RowState
  <2>4. queue'[r] = IF OwnedUnsent(r, id) THEN new ELSE queue[r]
    BY <2>1, <2>2 DEF ScheduleRetry, Update, If
  <2> QED BY <1>3, <2>3, <2>4
<1>7. CASE MarkCancelled(r, id) \/ MarkFailed(r, id)
  <2>1. PICK st \in {"failed", "cancelled"} :
          queue'[r] = IF OwnedUnsent(r, id) THEN Released(queue[r], st) ELSE queue[r]
    BY <1>7 DEF MarkCancelled, MarkFailed, Update, If
  <2> QED BY <1>2, <1>4, <2>1
<1>8. CASE MarkSent(r, id)
  <2>1. PICK new : new = Sent(queue[r])
    OBVIOUS
  <2>2. new.status = "sent"
    BY <1>4, <2>1 DEF Sent, RowState
  <2>3. queue'[r] = IF Owned(r, id) THEN new ELSE queue[r]
    BY <1>8, <2>1 DEF MarkSent, Update, If
  <2> QED BY <2>2, <2>3 DEF Owned
<1> QED BY <1>5, <1>6, <1>7, <1>8

LEMMA AttendedTickets ==
  ASSUME DistinctIdentities, DeliveryInv, Attended, [DeliveryNext]_vars
  PROVE  TicketsFit' /\ \A p \in Pass, k \in Row :
            (\A S \in SUBSET Row : ~Claim(p, S)) /\ Owned(k, IdentityOf[p])' => Owned(k, IdentityOf[p])
<1>0. /\ QueueInv /\ PassesOK /\ claims \in [Row -> Nat]
      /\ \A p \in Pass : batch[p] \subseteq Snapshot
  BY Rows DEF DeliveryInv, Shape, PassesOK
<1>1. ASSUME NEW p \in Pass, NEW S \in SUBSET Row, Claim(p, S)
      PROVE  TicketsFit' /\ \A q \in Pass \ {p}, k \in Row : Owned(k, IdentityOf[q])' => Owned(k, IdentityOf[q])
  <2> DEFINE copy(r) == [row |-> r, attempts |-> queue[r].attempts + 1,
                         ticket |-> claims[r] + 1]
  <2>1. /\ ClaimRows(S, IdentityOf[p])
        /\ batch' = [batch EXCEPT ![p] = {copy(r) : r \in S}]
        /\ IdentityOf[p] \in Identity
    BY <1>0, <1>1, DeliveryConstants DEF Claim, PassesOK
  <2>2. batch'[p] = {copy(r) : r \in S} /\ \A q \in Pass \ {p} : batch'[q] = batch[q]
    BY <1>0, <2>1 DEF PassesOK
  <2>3. \A k \in Row : /\ k \notin S => queue'[k] = queue[k] /\ claims'[k] = claims[k]
                       /\ k \in S => /\ queue'[k].claimedBy = IdentityOf[p] /\ claims'[k] = claims[k] + 1
                                     /\ claims[k] \in Nat
    BY <1>0, <2>1, ClaimEffect
  <2>4. ASSUME NEW s \in batch'[p]
        PROVE  /\ s.ticket <= claims'[s.row]
               /\ s.ticket = claims'[s.row] /\ queue'[s.row].status = "processing" =>
                     queue'[s.row].claimedBy = IdentityOf[p]
    <3>1. PICK r \in S : s = copy(r)
      BY <2>2
    <3> QED BY <3>1, <2>3
  <2>5. ASSUME NEW q \in Pass \ {p}, NEW s \in batch'[q]
        PROVE  /\ s.ticket <= claims'[s.row]
               /\ s.ticket = claims'[s.row] /\ queue'[s.row].status = "processing" =>
                     queue'[s.row].claimedBy = IdentityOf[q]
    <3>1. s \in batch[q] /\ s.row \in Row /\ s.ticket \in Nat
      BY <1>0, <2>2 DEF Snapshot
    <3>2. s.ticket <= claims[s.row] /\ claims[s.row] \in Nat
      BY <1>0, <3>1 DEF Attended, TicketsFit
    <3>3. CASE s.row \in S
      BY <3>1, <3>2, <3>3, <2>3
    <3>4. CASE s.row \notin S
      BY <3>1, <3>2, <3>4, <2>3 DEF Attended, TicketsFit
    <3> QED BY <3>3, <3>4
  <2>6. TicketsFit'
    BY <2>4, <2>5 DEF TicketsFit
  <2>7. ASSUME NEW q \in Pass \ {p}, NEW k \in Row, Owned(k, IdentityOf[q])' PROVE Owned(k, IdentityOf[q])
    <3>1. IdentityOf[q] # IdentityOf[p]
      BY DEF DistinctIdentities
    <3> QED BY <2>3, <2>7, <3>1 DEF Owned
  <2> QED BY <2>6, <2>7
<1>2. ASSUME NoNewClaim, \A q \in Pass : batch'[q] \subseteq batch[q]
      PROVE  TicketsFit' /\ \A q \in Pass, k \in Row : Owned(k, IdentityOf[q])' => Owned(k, IdentityOf[q])
  <2>1. ASSUME NEW q \in Pass, NEW s \in batch'[q]
        PROVE  s \in batch[q] /\ s.row \in Row
    BY <1>0, <1>2 DEF Snapshot
  <2>2. TicketsFit'
    BY <1>2, <2>1 DEF TicketsFit, NoNewClaim, Attended
  <2> QED BY <1>2, <2>2 DEF Owned, NoNewClaim
<1>3. CASE \E p \in Pass, S \in SUBSET Row : Claim(p, S)
  <2>1. PICK p \in Pass, S \in SUBSET Row : Claim(p, S)
    BY <1>3
  <2> QED BY <1>1, <2>1
<1>4. CASE ~\E p \in Pass, S \in SUBSET Row : Claim(p, S)
  BY <1>2, <1>4, NoClaimStep, StepShape
<1> QED BY <1>3, <1>4

\* How a pass comes to record a decision.
LEMMA ReachesLog ==
  ASSUME DeliveryInv, [DeliveryNext]_vars, NEW p \in Pass, pc'[p] = "log"
  PROVE  /\ cur'[p] = cur[p] /\ \A S \in SUBSET Row : ~Claim(p, S)
         /\ pc[p] # "log" => ~Owned(cur[p].row, IdentityOf[p])'
<1>0. QueueInv /\ PassesOK /\ pc \in [Pass -> Step]
  BY DEF DeliveryInv, Shape, PassesOK
<1>1. \A S \in SUBSET Row : ~Claim(p, S)
  BY <1>0 DEF Claim, Goto
<1>2. CASE pc' = pc /\ cur' = cur
  BY <1>1, <1>2
<1>3. ASSUME NEW q \in Pass, q # p, pc'[p] = pc[p] /\ cur'[p] = cur[p]
      PROVE  cur'[p] = cur[p] /\ pc[p] = "log"
  BY <1>3
<1>4. ASSUME NEW q \in Pass,
             \/ RecordDeferral(q) \/ RecordCancel(q) \/ RecordSent(q) \/ RecordFailed(q) \/ RecordRetry(q)
      PROVE  cur'[p] = cur[p] /\ (pc[p] # "log" => ~Owned(cur[p].row, IdentityOf[p])')
  <2>1. /\ cur' = cur /\ Goto(q, "log") /\ pc[q] \notin {"idle", "walk"}
    BY <1>4 DEF RecordDeferral, RecordCancel, RecordSent, RecordFailed, RecordRetry, Record
  <2>2. CASE q # p
    BY <1>0, <2>1, <2>2 DEF Goto
  <2>3. CASE q = p
    <3>1. cur[p].row \in Row /\ IdentityOf[p] \in Identity
      BY <1>0, <2>1, <2>3, Holder
    <3>2. \/ \E t : DeferClaimed(cur[p].row, IdentityOf[p], t) \/ ScheduleRetry(cur[p].row, IdentityOf[p], t)
          \/ MarkCancelled(cur[p].row, IdentityOf[p]) \/ MarkSent(cur[p].row, IdentityOf[p])
          \/ MarkFailed(cur[p].row, IdentityOf[p])
      BY <1>4, <2>3 DEF RecordDeferral, RecordCancel, RecordSent, RecordFailed, RecordRetry
    <3>3. ~Owned(cur[p].row, IdentityOf[p])'
      <4>1. PICK r \in Row : r = cur[p].row
        BY <3>1
      <4>2. ~Owned(r, IdentityOf[p])'
        BY <1>0, <3>1, <3>2, <4>1, StatementLetsGo
      <4> QED BY <2>1, <4>1, <4>2
    <3> QED BY <2>1, <3>3
  <2> QED BY <2>2, <2>3
<1>5. ASSUME NEW q \in Pass, Refresh(q)
      PROVE  cur'[p] = cur[p] /\ (pc[p] # "log" => ~Owned(cur[p].row, IdentityOf[p])')
  <2>1. cur' = cur /\ Goto(q, IF Owned(cur[q].row, IdentityOf[q]) THEN "send" ELSE "log") /\ pc[q] = "refresh"
    BY <1>5 DEF Refresh
  <2>2. CASE q # p
    BY <1>0, <2>1, <2>2 DEF Goto
  <2>3. CASE q = p
    <3>1. ~Owned(cur[p].row, IdentityOf[p])
      BY <1>0, <2>1, <2>3 DEF Goto
    <3>2. queue'[cur[p].row] = queue[cur[p].row]
      <4>1. cur[p].row \in Row /\ RefreshClaim(cur[p].row, IdentityOf[p])
        BY <1>0, <1>5, <2>1, <2>3, Holder DEF Refresh
      <4> QED BY <3>1, <4>1 DEF RefreshClaim, Update, If
    <3> QED BY <2>1, <3>1, <3>2 DEF Owned
  <2> QED BY <2>2, <2>3
<1>6. ASSUME NEW q \in Pass, RunGates(q) \/ Send(q) \/ Log(q) \/ Catch(q) \/ Throw(q) \/ CatchFails(q) \/ Crash(q)
      PROVE  cur'[p] = cur[p] /\ pc[p] = "log"
  <2>1. \E step \in Step \ {"log"} : pc' = [pc EXCEPT ![q] = step]
    BY <1>6 DEF RunGates, Send, Log, Catch, Throw, CatchFails, Crash, Finish, Goto, Step
  <2>2. q # p
    BY <1>0, <2>1
  <2>3. \E s : cur' = [cur EXCEPT ![q] = s]
    <3>1. CASE cur' = cur
      <4>1. cur' = [cur EXCEPT ![q] = cur[q]]
        BY <1>0, <3>1 DEF PassesOK
      <4> QED BY <4>1
    <3>2. CASE cur' # cur
      BY <1>6, <3>2 DEF RunGates, Send, Log, Catch, Throw, CatchFails, Crash, Finish
    <3> QED BY <3>1, <3>2
  <2> QED BY <1>0, <2>1, <2>2, <2>3 DEF PassesOK
<1>7. ASSUME NEW q \in Pass, ProcessQueue(q) \/ FlushMessages(q)
      PROVE  cur'[p] = cur[p] /\ pc[p] = "log"
  <2>1. cur' = cur /\ pc' = [pc EXCEPT ![q] = "walk"]
    BY <1>7 DEF ProcessQueue, FlushMessages, Claim, Goto
  <2> QED BY <1>0, <2>1
<1>8. CASE ReclaimStale \/ ReclaimStaleSecond \/ JanitorCrash \/ Environment \/ TimePasses \/ UNCHANGED vars
  <2>1. pc' = pc /\ cur' = cur
    BY <1>8 DEF ReclaimStale, ReclaimStaleSecond, JanitorCrash, Environment, TimePasses, vars, passVars
  <2> QED BY <1>2, <2>1
<1> QED BY <1>1, <1>4, <1>5, <1>6, <1>7, <1>8 DEF DeliveryNext, PassStep

\* A pass lets go of a snapshot when its row is dealt with, or is orphaned.
LEMMA LetsGo ==
  ASSUME DeliveryInv, Attended, [DeliveryNext]_vars, \A p \in Pass, S \in SUBSET Row : ~Claim(p, S),
         NEW p \in Pass, NEW s \in batch[p], s.ticket = claims[s.row],
         queue[s.row].status = "processing", queue'[s.row].status = "processing"
  PROVE  s \in batch'[p] \/ s.row \in orphaned'
<1>0. /\ QueueInv /\ PassesOK /\ \A q \in Pass : batch[q] \subseteq Snapshot
      /\ s.row \in Row /\ IdentityOf[p] \in Identity
  BY DeliveryConstants DEF DeliveryInv, Shape, PassesOK, Snapshot
<1>1. Owned(s.row, IdentityOf[p])
  BY DEF Attended, TicketsFit, Owned
<1>2. ASSUME NEW q \in Pass, Log(q) \/ Catch(q) \/ CatchFails(q)
      PROVE  s \in batch'[p] \/ s.row \in orphaned'
  <2>1. batch' = [batch EXCEPT ![q] = batch[q] \ {cur[q]}] /\ pc[q] \in {"log", "catch"}
    BY <1>2 DEF Log, Catch, CatchFails, Finish
  <2>2. CASE q # p \/ s # cur[q]
    BY <1>0, <2>1, <2>2 DEF PassesOK
  <2>3. CASE q = p /\ s = cur[q]
    <3>1. CASE Log(q)
      BY <1>1, <2>3, <3>1 DEF Log, Attended, RowsDealtWith
    <3>2. CASE Catch(q)
      <4>1. MarkFailed(s.row, IdentityOf[p])
        BY <2>3, <3>2 DEF Catch
      <4>2. ~Owned(s.row, IdentityOf[p])'
        BY <1>0, <4>1, StatementLetsGo
      <4>3. queue'[s.row].claimedBy = queue[s.row].claimedBy
        <5>1. NoNewClaim
          <6>1. QuietStep \/ \E r \in Pass : \/ RecordDeferral(r) \/ RecordSent(r)
                                             \/ Refresh(r) \/ RunGates(r) \/ Send(r)
            BY StepShape
          <6> QED BY <6>1, NoClaimStep
        <5> QED BY <1>0, <5>1 DEF NoNewClaim
      <4> QED BY <1>1, <4>2, <4>3 DEF Owned
    <3>3. CASE CatchFails(q)
      <4>1. s.row \in StillHeld({cur[q]})
        BY <2>3 DEF StillHeld
      <4> QED BY <3>3, <4>1 DEF CatchFails
    <3> QED BY <1>2, <3>1, <3>2, <3>3
  <2> QED BY <2>2, <2>3
<1>3. ASSUME NEW q \in Pass, Crash(q)
      PROVE  s \in batch'[p] \/ s.row \in orphaned'
  <2>1. batch' = [batch EXCEPT ![q] = {}] /\ orphaned' = orphaned \cup StillHeld(batch[q])
    BY <1>3 DEF Crash
  <2>2. CASE q # p
    BY <1>0, <2>1, <2>2 DEF PassesOK
  <2>3. CASE q = p
    BY <2>1, <2>3 DEF StillHeld
  <2> QED BY <2>2, <2>3
<1>4. ASSUME NEW q \in Pass, PassStep(q) \/ Throw(q), ~(Log(q) \/ Catch(q)) PROVE batch' = batch
  BY <1>4 DEF PassStep, RunGates, RecordDeferral, RecordCancel, RecordSent, RecordFailed, RecordRetry, Record,
              Refresh, Send, Throw
<1>5. CASE ReclaimStale \/ ReclaimStaleSecond \/ JanitorCrash \/ Environment \/ TimePasses \/ UNCHANGED vars
  <2>1. batch' = batch
    BY <1>5 DEF ReclaimStale, ReclaimStaleSecond, JanitorCrash, Environment, TimePasses, vars, passVars
  <2> QED BY <2>1
<1>6. ASSUME NEW q \in Pass PROVE ~ProcessQueue(q) /\ ~FlushMessages(q)
  BY DEF ProcessQueue, FlushMessages
<1> QED BY <1>2, <1>3, <1>4, <1>5, <1>6 DEF DeliveryNext

\* Nobody else takes a row out of the orphans than its next claim.
LEMMA OrphansStay ==
  ASSUME [DeliveryNext]_vars, \A p \in Pass, S \in SUBSET Row : ~Claim(p, S)
  PROVE  orphaned \subseteq orphaned'
<1>1. ASSUME NEW p \in Pass PROVE ~ProcessQueue(p) /\ ~FlushMessages(p)
  BY DEF ProcessQueue, FlushMessages
<1>2. ASSUME NEW p \in Pass, PassStep(p) \/ Throw(p) \/ CatchFails(p) \/ Crash(p) PROVE orphaned \subseteq orphaned'
  BY <1>2 DEF PassStep, RunGates, RecordDeferral, RecordCancel, RecordSent, RecordFailed, RecordRetry, Record,
              Refresh, Send, Log, Catch, Throw, CatchFails, Crash, historyVars
<1>3. CASE ReclaimStale \/ ReclaimStaleSecond \/ JanitorCrash \/ Environment \/ TimePasses \/ UNCHANGED vars
  BY <1>3 DEF ReclaimStale, ReclaimStaleSecond, JanitorCrash, Environment, TimePasses, vars, historyVars
<1> QED BY <1>1, <1>2, <1>3 DEF DeliveryNext

LEMMA AttendedStep ==
  ASSUME DistinctIdentities, DeliveryInv, Attended, [DeliveryNext]_vars
  PROVE  Attended'
<1>1. RowsDealtWith'
  <2> SUFFICES ASSUME NEW p \in Pass, pc'[p] = "log", Owned(cur[p].row, IdentityOf[p])' PROVE FALSE
    BY DEF RowsDealtWith
  <2>1. cur'[p] = cur[p] /\ (\A S \in SUBSET Row : ~Claim(p, S)) /\ pc[p] = "log"
    BY ReachesLog DEF Owned
  <2>2. cur[p].row \in Row
    BY <2>1, Holder DEF DeliveryInv, Shape
  <2>3. PICK r \in Row : r = cur[p].row /\ r = cur'[p].row
    BY <2>1, <2>2
  <2>4. Owned(r, IdentityOf[p])'
    BY <2>3 DEF Owned
  <2>5. Owned(r, IdentityOf[p])
    BY <2>1, <2>4, AttendedTickets
  <2> QED BY <2>1, <2>3, <2>5 DEF Attended, RowsDealtWith
<1>2. ClaimsAttended'
  <2> SUFFICES ASSUME NEW r \in Row, queue'[r].status = "processing"
               PROVE  r \in orphaned' \/ \E p \in Pass : \E s \in batch'[p] : s.row = r /\ s.ticket = claims'[r]
    BY DEF ClaimsAttended
  <2>0. QueueInv /\ PassesOK
    BY DEF DeliveryInv, Shape
  <2>1. ASSUME NEW p \in Pass, NEW S \in SUBSET Row, Claim(p, S)
        PROVE  r \in orphaned' \/ \E q \in Pass : \E s \in batch'[q] : s.row = r /\ s.ticket = claims'[r]
    <3> DEFINE copy(k) == [row |-> k, attempts |-> queue[k].attempts + 1, ticket |-> claims[k] + 1]
    <3>1. /\ ClaimRows(S, IdentityOf[p]) /\ pc[p] = "idle"
          /\ batch' = [batch EXCEPT ![p] = {copy(k) : k \in S}]
          /\ IdentityOf[p] \in Identity /\ orphaned' = orphaned \ S
      BY <2>1, DeliveryConstants DEF Claim
    <3>2. batch'[p] = {copy(k) : k \in S} /\ \A q \in Pass \ {p} : batch'[q] = batch[q]
      BY <2>0, <3>1 DEF PassesOK
    <3>3. CASE r \in S
      <4>1. claims'[r] = claims[r] + 1
        BY <2>0, <3>1, <3>3, ClaimEffect
      <4>2. copy(r) \in batch'[p] /\ copy(r).row = r /\ copy(r).ticket = claims'[r]
        BY <3>2, <3>3, <4>1
      <4> QED BY <4>2
    <3>4. CASE r \notin S
      <4>1. queue'[r] = queue[r] /\ claims'[r] = claims[r]
        BY <2>0, <3>1, <3>4, ClaimEffect
      <4>2. r \in orphaned \/ \E q \in Pass : \E s \in batch[q] : s.row = r /\ s.ticket = claims[r]
        BY <4>1 DEF Attended, ClaimsAttended
      <4>3. batch[p] = {}
        BY <2>0, <3>1 DEF PassesOK
      <4> QED BY <3>1, <3>2, <3>4, <4>1, <4>2, <4>3
    <3> QED BY <3>3, <3>4
  <2>2. CASE \A p \in Pass, S \in SUBSET Row : ~Claim(p, S)
    <3>1. NoNewClaim
      BY <2>2, StepShape, NoClaimStep
    <3>2. queue[r].status = "processing" /\ claims' = claims
      BY <3>1 DEF NoNewClaim
    <3>3. r \in orphaned \/ \E p \in Pass : \E s \in batch[p] : s.row = r /\ s.ticket = claims[r]
      BY <3>2 DEF Attended, ClaimsAttended
    <3>4. CASE r \in orphaned
      BY <3>4, <2>2, OrphansStay
    <3>5. ASSUME NEW p \in Pass, NEW s \in batch[p], s.row = r, s.ticket = claims[r]
          PROVE  r \in orphaned' \/ \E q \in Pass : \E t \in batch'[q] : t.row = r /\ t.ticket = claims'[r]
      <4>1. s \in batch'[p] \/ s.row \in orphaned'
        BY <2>2, <3>2, <3>5, LetsGo
      <4> QED BY <3>2, <3>5, <4>1
    <3> QED BY <3>3, <3>4, <3>5
  <2> QED BY <2>1, <2>2
<1> QED BY <1>1, <1>2, AttendedTickets DEF Attended

\* A row in flight is in the batch of the pass that claimed it, unless that pass
\* died or could not reach the database (ClaimsAttended): no row makes
\* deliverOneSafely drop the rest of a batch, whatever throws.
THEOREM ClaimsAreAttended ==
  ASSUME DistinctIdentities
  PROVE  DeliverySpec => []ClaimsAttended
<1>1. DeliveryInit => Attended
  <2> SUFFICES ASSUME DeliveryInit PROVE Attended
    OBVIOUS
  <2>1. /\ \A p \in Pass : pc[p] = "idle" /\ batch[p] = {}
        /\ \A r \in Row : queue[r] = Absent
    BY DEF DeliveryInit, Init
  <2>2. Absent.status = "absent"
    BY DEF Absent
  <2> QED BY <2>1, <2>2 DEF Attended, TicketsFit, RowsDealtWith, ClaimsAttended
<1>2. DeliveryInv /\ Attended /\ [DeliveryNext]_vars => Attended'
  BY AttendedStep
<1>3. Attended => ClaimsAttended
  BY DEF Attended
<1> QED BY DeliveryInvariance, <1>1, <1>2, <1>3, PTL DEF DeliverySpec

-----------------------------------------------------------------------------
(***************************************************************************)
(* Without the assumption on identities: the callers are users of the      *)
(* queue, and what holds of its statements holds of theirs.                *)
(***************************************************************************)

\* What a pass or the janitor needs in order to issue a statement as the queue
\* knows it: a row and a copy of its attempts, a try left, a cutoff in the past.
\* Nothing is said of whose claim it is.
Calling ==
    /\ QueueInv /\ PassesOK /\ JanitorOK /\ RetryHasRoom
    /\ \A p \in Pass : \A s \in batch[p] : s.attempts > 0

\* A step that gives no pass a new row or a retry.
LEMMA CallingGoesOn ==
  ASSUME Calling, PassesOK', [Next]_queueVars, JanitorOK', \A q \in Pass : PassQuiet(q)
  PROVE  Calling'
<1>1. QueueInv'
  BY QueueStep DEF Calling
<1>2. \A q \in Pass : batch'[q] \subseteq batch[q] /\ (pc'[q] = "retry" => pc[q] = "retry" /\ cur'[q] = cur[q])
  BY DEF PassQuiet
<1> QED BY <1>1, <1>2 DEF Calling, RetryHasRoom

\* Between two statements of one row.
LEMMA CallingProceeds ==
  ASSUME Calling, NEW p \in Pass, pc[p] \notin {"idle", "walk"},
         NEW step \in Step \ {"idle", "walk"}, Goto(p, step),
         UNCHANGED <<batch, cur, janitorVars>>, [Next]_queueVars, now' = now,
         step = "retry" => cur[p].attempts < AttemptCap
  PROVE  Calling'
<1>1. QueueInv' /\ PassesOK' /\ JanitorOK'
  BY QueueStep, GotoPasses, JanitorSame, Rows DEF Calling
<1>2. \A q \in Pass : pc'[q] = IF q = p THEN step ELSE pc[q]
  BY DEF Calling, PassesOK, Goto
<1>3. RetryHasRoom'
  BY <1>2 DEF Calling, RetryHasRoom
<1> QED BY <1>1, <1>3 DEF Calling

\* The claim copies rows whose attempts it has just counted.
LEMMA CallingClaims ==
  ASSUME Calling, NEW p \in Pass, NEW S \in SUBSET Row, Claim(p, S)
  PROVE  Calling' /\ Next
<1>0. QueueInv /\ PassesOK /\ JanitorOK /\ RetryHasRoom /\ now \in Nat
  BY Rows DEF Calling
<1>1. Next
  BY DeliveryConstants DEF Claim, Next
<1>2. QueueInv'
  BY <1>0, <1>1, QueueStep
<1> DEFINE copies == {[row |-> r, attempts |-> queue[r].attempts + 1, ticket |-> claims[r] + 1] : r \in S}
<1>3. \A r \in S : queue[r].attempts \in Nat /\ claims[r] \in Nat
  BY <1>0, Rows DEF RowInv, RowState
<1>4. copies \in SUBSET Snapshot /\ \A s \in copies : s.attempts > 0
  BY <1>3 DEF Snapshot
<1>5. batch' = [batch EXCEPT ![p] = copies] /\ Goto(p, "walk") /\ pc[p] = "idle" /\ cur' = cur
  BY DEF Claim
<1> HIDE DEF copies
<1>6. PassesOK'
  BY <1>0, <1>4, <1>5 DEF Goto, PassesOK, Step
<1>7. JanitorOK'
  BY <1>0, JanitorSame DEF Claim, ClaimRows
<1>8. \A q \in Pass : /\ pc'[q] = IF q = p THEN "walk" ELSE pc[q]
                      /\ batch'[q] = IF q = p THEN copies ELSE batch[q]
  BY <1>0, <1>5 DEF Goto, PassesOK
<1>9. RetryHasRoom'
  BY <1>0, <1>5, <1>8 DEF RetryHasRoom
<1>10. \A q \in Pass : \A s \in batch'[q] : s.attempts > 0
  BY <1>4, <1>8 DEF Calling
<1> QED BY <1>1, <1>2, <1>6, <1>7, <1>9, <1>10 DEF Calling

\* Every step of a caller is a statement of the queue, or leaves it alone.
LEMMA CallingStep ==
  ASSUME Calling, [DeliveryNext]_vars
  PROVE  Calling' /\ [Next]_queueVars
<1>0. QueueInv /\ PassesOK /\ JanitorOK /\ RetryHasRoom /\ now \in Nat
  BY Rows DEF Calling
<1>1. ASSUME NEW p \in Pass, RunGates(p) PROVE Calling' /\ [Next]_queueVars
  <2>1. PICK s \in batch[p] : cur' = [cur EXCEPT ![p] = s]
    BY <1>1 DEF RunGates
  <2>2. PICK verdict \in {"refresh", "defer", "cancel", "catch"} : Goto(p, verdict)
    BY <1>1 DEF RunGates
  <2>3. UNCHANGED <<queueVars, batch, janitorVars>>
    BY <1>1 DEF RunGates
  <2>4. PassesOK'
    BY <1>0, <2>1, <2>2, <2>3 DEF Goto, PassesOK, Step
  <2>5. QueueInv' /\ JanitorOK'
    BY <1>0, <2>3, QueueStep, JanitorSame DEF queueVars
  <2>6. \A q \in Pass : /\ pc'[q] = IF q = p THEN verdict ELSE pc[q]
                        /\ q # p => cur'[q] = cur[q]
    BY <1>0, <2>1, <2>2 DEF Goto, PassesOK
  <2>7. RetryHasRoom'
    BY <1>0, <2>6 DEF RetryHasRoom
  <2> QED BY <2>3, <2>4, <2>5, <2>7 DEF Calling
<1>2. ASSUME NEW p \in Pass, Send(p) PROVE Calling' /\ [Next]_queueVars
  <2>1. pc[p] = "send" /\ UNCHANGED <<queueVars, batch, cur, janitorVars>>
    BY <1>2 DEF Send
  <2>2. PICK step \in {"sent", "failed", "retry", "catch"} :
           /\ Goto(p, step)
           /\ step = "retry" => \E limit \in ClassLimit : ~(cur[p].attempts >= Least(limit, AttemptLimit(p)))
    BY <1>2 DEF Send
  <2>3. step = "retry" => cur[p].attempts < AttemptCap
    <3>1. cur[p].attempts \in Nat
      BY <1>0, <2>1, Holder DEF Snapshot
    <3> QED BY <3>1, <2>2, CallerLimits, DeliveryConstants, Limits DEF Least
  <2> QED BY <2>1, <2>2, <2>3, CallingProceeds DEF Step, queueVars
<1>3. ASSUME NEW p \in Pass,
             \/ RecordDeferral(p) \/ RecordCancel(p) \/ RecordSent(p) \/ RecordFailed(p) \/ RecordRetry(p)
             \/ Refresh(p) \/ Throw(p)
      PROVE  Calling' /\ [Next]_queueVars
  <2>1. pc[p] \in {"refresh", "defer", "cancel", "sent", "failed", "retry", "log"}
    BY <1>3 DEF RecordDeferral, RecordCancel, RecordSent, RecordFailed, RecordRetry, Record, Refresh, Throw
  <2>2. UNCHANGED <<batch, cur, janitorVars>> /\ \E step \in {"log", "send", "catch"} : Goto(p, step)
    BY <1>3 DEF RecordDeferral, RecordCancel, RecordSent, RecordFailed, RecordRetry, Record, Refresh, Throw
  <2>3. cur[p].row \in Row /\ IdentityOf[p] \in Identity /\ cur[p] \in batch[p] /\ cur[p] \in Snapshot
    BY <1>0, <2>1, Holder
  <2>4. pc[p] = "retry" => cur[p].attempts \in 1 .. AttemptCap
    <3>1. cur[p].attempts \in Nat /\ cur[p].attempts > 0
      BY <2>3 DEF Calling, Snapshot
    <3> QED BY <3>1, <1>0, Limits DEF RetryHasRoom
  <2>5. \/ \E d \in DeferFor : DeferClaimed(cur[p].row, IdentityOf[p], now + d)
        \/ MarkCancelled(cur[p].row, IdentityOf[p]) \/ MarkSent(cur[p].row, IdentityOf[p])
        \/ MarkFailed(cur[p].row, IdentityOf[p]) \/ RefreshClaim(cur[p].row, IdentityOf[p])
        \/ \E a \in 1 .. AttemptCap : ScheduleRetry(cur[p].row, IdentityOf[p], Backoff[a])
        \/ UNCHANGED queueVars
    BY <1>3, <2>4 DEF RecordDeferral, RecordCancel, RecordSent, RecordFailed, RecordRetry, Record, Refresh, Throw
  <2>6. [Next]_queueVars
    BY <2>3, <2>5 DEF Next
  <2>7. now' = now
    BY <2>5 DEF DeferClaimed, MarkCancelled, MarkSent, MarkFailed, RefreshClaim, ScheduleRetry, queueVars
  <2> QED BY <2>1, <2>2, <2>6, <2>7, CallingProceeds DEF Step
<1>4. ASSUME NEW p \in Pass, Log(p) \/ Catch(p) \/ CatchFails(p) PROVE Calling' /\ [Next]_queueVars
  <2>1. pc[p] \in {"log", "catch"} /\ Finish(p) /\ UNCHANGED janitorVars
    BY <1>4 DEF Log, Catch, CatchFails
  <2>2. cur[p].row \in Row /\ IdentityOf[p] \in Identity
    BY <1>0, <2>1, Holder
  <2>3. MarkFailed(cur[p].row, IdentityOf[p]) \/ UNCHANGED queueVars
    BY <1>4 DEF Log, Catch, CatchFails
  <2>4. [Next]_queueVars /\ now' = now
    BY <2>2, <2>3 DEF Next, MarkFailed, queueVars
  <2>5. PassesOK' /\ \A q \in Pass : PassQuiet(q)
    BY <1>0, <2>1, FinishPasses
  <2>6. JanitorOK'
    BY <1>0, <2>1, <2>4, JanitorSame
  <2> QED BY <2>4, <2>5, <2>6, CallingGoesOn
<1>5. ASSUME NEW p \in Pass, Crash(p) PROVE Calling' /\ [Next]_queueVars
  <2>1. PassesOK' /\ \A q \in Pass : PassQuiet(q)
    BY <1>0, <1>5, CrashPasses DEF Crash
  <2>2. UNCHANGED <<queueVars, janitorVars>> /\ now' = now
    BY <1>5 DEF Crash, queueVars
  <2>3. JanitorOK'
    BY <1>0, <2>2, JanitorSame
  <2> QED BY <2>1, <2>2, <2>3, CallingGoesOn
<1>6. CASE ReclaimStale \/ ReclaimStaleSecond \/ JanitorCrash
  <2>1. now \in 0 .. now /\ cutoffAt \in 0 .. now
    BY <1>0 DEF JanitorOK
  <2>2. ReclaimReturn(now) \/ ReclaimExhaust(cutoffAt) \/ UNCHANGED queueVars
    BY <1>6 DEF ReclaimStale, ReclaimStaleSecond, JanitorCrash
  <2>3. [Next]_queueVars /\ now' = now
    BY <2>1, <2>2 DEF Next, ReclaimReturn, ReclaimExhaust, queueVars
  <2>4. PassesOK' /\ \A q \in Pass : PassQuiet(q)
    BY <1>0, <1>6, SamePasses DEF ReclaimStale, ReclaimStaleSecond, JanitorCrash
  <2>5. JanitorOK'
    BY <1>0, <1>6, <2>3 DEF ReclaimStale, ReclaimStaleSecond, JanitorCrash, JanitorOK
  <2> QED BY <2>3, <2>4, <2>5, CallingGoesOn
<1>7. CASE Environment \/ TimePasses \/ UNCHANGED vars
  <2>1. UNCHANGED <<passVars, janitorVars>>
    BY <1>7 DEF Environment, TimePasses, vars
  <2>2. \/ \E r \in Row, at \in SendTime \cup {Infinity} : Enqueue(r, at)
        \/ \E r \in Row, at \in SendTime : ResolveAnchor(r, at)
        \/ \E S \in SUBSET Row : ExpireAnchors(S)
        \/ \E r \in Row : CancelRow(r)
        \/ \E r \in Row, verdict \in Verdict : ProviderReceipt(r, verdict)
        \/ Tick
        \/ UNCHANGED queueVars
    BY <1>7 DEF Environment, TimePasses, vars
  <2>3. [Next]_queueVars /\ (now' = now \/ now' = now + 1)
    BY <2>2 DEF Next, Enqueue, ResolveAnchor, ExpireAnchors, CancelRow, ProviderReceipt, Tick, queueVars
  <2>4. PassesOK' /\ \A q \in Pass : PassQuiet(q)
    BY <1>0, <2>1, SamePasses
  <2>5. JanitorOK'
    BY <1>0, <2>1, <2>3, JanitorSame
  <2> QED BY <2>3, <2>4, <2>5, CallingGoesOn
<1>8. ASSUME NEW p \in Pass, NEW S \in SUBSET Row, Claim(p, S) PROVE Calling' /\ [Next]_queueVars
  BY <1>8, CallingClaims
<1>9. ASSUME NEW p \in Pass, ProcessQueue(p) \/ FlushMessages(p) PROVE Calling' /\ [Next]_queueVars
  <2>1. PICK S \in SUBSET Row : Claim(p, S)
    BY <1>9 DEF ProcessQueue, FlushMessages
  <2> QED BY <2>1, <1>8
<1>10. CASE \E p \in Pass : \/ ProcessQueue(p) \/ FlushMessages(p) \/ PassStep(p)
                            \/ Throw(p) \/ CatchFails(p) \/ Crash(p)
  BY <1>10, <1>1, <1>2, <1>3, <1>4, <1>5, <1>9 DEF PassStep
<1> QED BY <1>6, <1>7, <1>10 DEF DeliveryNext

\* The passes, the reclaim-stale job and the environment implement the queue: also
\* if several workers share one WORKER_ID, whatever throws and whoever dies, the
\* table changes by the statements of message-queue.ts with arguments they allow.
THEOREM CallersIssueStatements == DeliverySpec => Spec
<1>1. DeliveryInit => Calling /\ Init
  <2> SUFFICES ASSUME DeliveryInit PROVE Calling /\ Init
    OBVIOUS
  <2>1. Init /\ QueueInv
    BY InitQueueInv DEF DeliveryInit
  <2>2. PassesOK /\ JanitorOK
    BY <2>1 DEF DeliveryInit, Init, PassesOK, JanitorOK, Step
  <2>3. \A p \in Pass : pc[p] = "idle" /\ batch[p] = {}
    BY DEF DeliveryInit
  <2> QED BY <2>1, <2>2, <2>3 DEF Calling, RetryHasRoom
<1>2. Calling /\ [DeliveryNext]_vars => Calling' /\ [Next]_queueVars
  BY CallingStep
<1> QED BY <1>1, <1>2, PTL DEF DeliverySpec, Spec

\* A message follows its life cycle (FollowsLifecycle) under all its callers at
\* once: nothing that is settled waits again, no try is refunded twice, only what is
\* held is settled, with any sharing of identities, any throw and any crash.
THEOREM DeliveriesFollowLifecycle == DeliverySpec => FollowsLifecycle
BY CallersIssueStatements, QueueFollowsLifecycle, PTL

\* And its attempts and deferrals account for the claims that were made of it
\* (AttemptAccounting), by whichever worker under whichever name.
THEOREM DeliveriesAreAccounted == DeliverySpec => []AttemptAccounting
BY CallersIssueStatements, AttemptsAccounted, PTL
=============
