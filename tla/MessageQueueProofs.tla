------------------------- MODULE MessageQueueProofs -------------------------
(***************************************************************************)
(* Proofs about MessageQueue, for every set of rows, identities and        *)
(* constants that meet QueueConstants, and for every caller.               *)
(***************************************************************************)
EXTENDS MessageQueue, TLAPS

\* What the statements preserve of one row that has been claimed n times.
RowInv(row, n) ==
    /\ row \in RowState
    /\ row.attempts + row.deferrals = n
    /\ row.status = "processing" => row.attempts > 0
    /\ row.status = "absent" => n = 0
    /\ row.sentAt => row.status \in {"sent"} \cup Verdict

\* What the statements preserve together.  ReclaimReturn reads Backoff at the
\* row's attempts, which is in its domain only because a row in flight has
\* been charged for its claim: the type needs the accounting.  The accounting
\* needs to know that a key nothing was queued under was never claimed.  A row
\* with a sent_at is out of reach of every statement but a receipt.
QueueInv ==
    /\ QueueTypeOK
    /\ AttemptAccounting
    /\ \A r \in Row : queue[r].status = "absent" => claims[r] = 0
    /\ \A r \in Row : queue[r].sentAt => queue[r].status \in {"sent"} \cup Verdict

-----------------------------------------------------------------------------
(***************************************************************************)
(* One row.                                                                *)
(***************************************************************************)

LEMMA AbsentRow == RowInv(Absent, 0)
  BY DEF RowInv, Absent, RowState, Status, Verdict

LEMMA QueuedRow ==
  ASSUME NEW row, RowInv(row, 0), ~row.sentAt, NEW at \in Nat
  PROVE  RowInv(Queued(row, at), 0)
  BY DEF RowInv, Queued, RowState, Status, Verdict

LEMMA ClaimedRow ==
  ASSUME NEW n \in Nat, NEW row, RowInv(row, n), row.status = "pending",
         NEW id \in Identity, now \in Nat
  PROVE  RowInv(Claimed(row, id), n + 1)
<1>1. row \in RowState /\ row.attempts \in Nat /\ row.deferrals \in Nat
  BY DEF RowInv, RowState
<1>2. ASSUME NEW a \in Nat
      PROVE  [row EXCEPT !.status = "processing", !.claimedAt = now,
                         !.claimedBy = id, !.attempts = a] \in RowState
  BY <1>1 DEF RowState, Status, Verdict
<1>3. /\ Claimed(row, id).status = "processing"
      /\ Claimed(row, id).attempts = row.attempts + 1
      /\ Claimed(row, id).deferrals = row.deferrals
      /\ Claimed(row, id).sentAt = row.sentAt
  BY <1>1 DEF Claimed, RowState
<1>4. row.attempts + 1 \in Nat
  BY <1>1
<1>5. Claimed(row, id) \in RowState
  BY <1>2, <1>4 DEF Claimed
<1>6. QED
  BY <1>1, <1>3, <1>5 DEF RowInv, Verdict

\* Releasing a claim touches three columns.
LEMMA ReleasedColumns ==
  ASSUME NEW row \in RowState, NEW s \in Status
  PROVE  /\ Released(row, s) \in RowState
         /\ Released(row, s).status = s
         /\ Released(row, s).claimedBy = NoOne
         /\ Released(row, s).claimedAt = 0
         /\ Released(row, s).scheduledAt = row.scheduledAt
         /\ Released(row, s).nextAttemptAt = row.nextAttemptAt
         /\ Released(row, s).attempts = row.attempts
         /\ Released(row, s).deferrals = row.deferrals
         /\ Released(row, s).sentAt = row.sentAt
  BY DEF Released, RowState

LEMMA ReleasedRow ==
  ASSUME NEW n \in Nat, NEW row, RowInv(row, n), row.status = "processing",
         NEW s \in Status \ {"processing", "absent"}
  PROVE  RowInv(Released(row, s), n)
  BY ReleasedColumns DEF RowInv, Verdict

\* The refund of a deferral is exact only for a row in flight.
LEMMA DeferredRow ==
  ASSUME NEW n \in Nat, NEW row, RowInv(row, n), row.status = "processing",
         NEW until \in Nat
  PROVE  RowInv(Deferred(row, until), n)
<1> DEFINE free == Released(row, "pending")
<1>1. /\ free \in RowState
      /\ free.status = "pending"
      /\ free.attempts = row.attempts
      /\ free.deferrals = row.deferrals
      /\ free.sentAt = row.sentAt
  BY ReleasedColumns DEF RowInv, Status, Verdict
<1>2. free.attempts \in Nat /\ free.attempts > 0
  BY <1>1 DEF RowInv, RowState
<1> HIDE DEF free
<1> DEFINE back == [free EXCEPT !.attempts = free.attempts - 1,
                                !.deferrals = free.deferrals + 1,
                                !.scheduledAt = until,
                                !.nextAttemptAt = 0]
<1>3. Deferred(row, until) = back
  BY <1>2, (IF free.attempts > 0 THEN free.attempts - 1 ELSE 0) = free.attempts - 1
     DEF Deferred, free
<1>4. ASSUME NEW a \in Nat, NEW d \in Nat
      PROVE  [free EXCEPT !.attempts = a, !.deferrals = d,
                          !.scheduledAt = until, !.nextAttemptAt = 0] \in RowState
  BY <1>1 DEF RowState
<1>5. free.attempts - 1 \in Nat /\ free.deferrals + 1 \in Nat
  BY <1>1, <1>2 DEF RowState
<1>6. back \in RowState
  BY <1>4, <1>5
<1>7. /\ back.status = "pending"
      /\ back.attempts = row.attempts - 1
      /\ back.deferrals = row.deferrals + 1
      /\ back.sentAt = row.sentAt
  BY <1>1 DEF RowState
<1>8. QED
  BY <1>3, <1>6, <1>7 DEF RowInv, RowState, Verdict

LEMMA SentRow ==
  ASSUME NEW n \in Nat, NEW row, RowInv(row, n), row.status = "processing"
  PROVE  RowInv(Sent(row), n)
<1> DEFINE free == Released(row, "sent")
<1>1. RowInv(free, n) /\ free.status = "sent"
  BY ReleasedRow, ReleasedColumns DEF RowInv, Status, Verdict
<1> HIDE DEF free
<1>2. RowInv([free EXCEPT !.sentAt = TRUE], n)
  BY <1>1 DEF RowInv, RowState
<1>3. QED
  BY <1>2 DEF Sent, free

\* A row that goes back to wait, and when.
LEMMA RetriedRow ==
  ASSUME NEW n \in Nat, NEW row, RowInv(row, n), row.status = "processing",
         NEW at \in Nat
  PROVE  /\ RowInv(Retried(row, at), n)
         /\ RowInv([Released(row, "pending") EXCEPT !.nextAttemptAt = at], n)
<1> DEFINE free == Released(row, "pending")
<1>1. RowInv(free, n) /\ free.status = "pending"
  BY ReleasedRow, ReleasedColumns DEF RowInv, Status, Verdict
<1> HIDE DEF free
<1>2. ASSUME NEW a \in Nat
      PROVE  RowInv([free EXCEPT !.nextAttemptAt = at, !.scheduledAt = a], n)
  BY <1>1 DEF RowInv, RowState
<1>3. Least(free.scheduledAt, at) \in Nat
  BY <1>1 DEF RowInv, RowState, Least
<1>4. RowInv([free EXCEPT !.nextAttemptAt = at], n)
  BY <1>1 DEF RowInv, RowState
<1>5. QED
  BY <1>2, <1>3, <1>4 DEF Retried, free

LEMMA CancelledRow ==
  ASSUME NEW n \in Nat, NEW row, RowInv(row, n),
         row.status \in {"pending", "processing"}
  PROVE  RowInv(Cancelled(row), n)
  BY DEF RowInv, Cancelled, RowState, Status, Verdict

LEMMA ReportedRow ==
  ASSUME NEW n \in Nat, NEW row, RowInv(row, n), NEW verdict \in Verdict
  PROVE  RowInv([row EXCEPT !.status = verdict], n)
  BY DEF RowInv, RowState, Status, Verdict

\* Moving one of its times leaves a row acceptable.
LEMMA MovedRow ==
  ASSUME NEW n \in Nat, NEW row, RowInv(row, n), NEW t \in Nat
  PROVE  /\ RowInv([row EXCEPT !.claimedAt = t], n)
         /\ RowInv([row EXCEPT !.scheduledAt = t], n)
  BY DEF RowInv, RowState

-----------------------------------------------------------------------------
(***************************************************************************)
(* One statement.                                                          *)
(***************************************************************************)

LEMMA Rows ==
  ASSUME QueueInv
  PROVE  /\ queue = [k \in Row |-> queue[k]]
         /\ now \in Nat
         /\ claims \in [Row -> Nat]
         /\ \A k \in Row : RowInv(queue[k], claims[k])
  BY DEF QueueInv, QueueTypeOK, AttemptAccounting, RowInv

\* A statement that gives every row an acceptable value preserves QueueInv.
LEMMA RowWise ==
  ASSUME queue' = [k \in Row |-> queue'[k]],
         now' \in Nat,
         claims' \in [Row -> Nat],
         \A k \in Row : RowInv(queue'[k], claims'[k])
  PROVE  QueueInv'
<1>1. queue' \in [Row -> RowState]
  BY DEF RowInv
<1>2. /\ AttemptAccounting'
      /\ \A r \in Row : queue'[r].status = "absent" => claims'[r] = 0
      /\ \A r \in Row : queue'[r].sentAt => queue'[r].status \in {"sent"} \cup Verdict
  BY DEF RowInv, AttemptAccounting
<1>3. QED
  BY <1>1, <1>2 DEF QueueInv, QueueTypeOK

\* A statement that changes no other column, and leaves each row alone or gives
\* it an acceptable value.
LEMMA UpdateWise ==
  ASSUME QueueInv,
         queue' = [k \in Row |-> queue'[k]],
         UNCHANGED <<now, claims>>,
         \A k \in Row : queue'[k] = queue[k] \/ RowInv(queue'[k], claims[k])
  PROVE  QueueInv'
  BY Rows, RowWise

-----------------------------------------------------------------------------
(***************************************************************************)
(* The invariant.                                                          *)
(***************************************************************************)

LEMMA InitQueueInv == Init => QueueInv
<1>1. SUFFICES ASSUME Init PROVE QueueInv
  OBVIOUS
<1>2. Absent \in RowState /\ RowInv(Absent, 0)
  BY AbsentRow DEF RowInv
<1>3. QED
  BY <1>1, <1>2 DEF Init, QueueInv, QueueTypeOK, AttemptAccounting, RowInv

\* Each statement preserves the invariant.
LEMMA QueueStep ==
  ASSUME QueueInv, [Next]_queueVars
  PROVE  QueueInv'
<1>0. /\ queue = [k \in Row |-> queue[k]]
      /\ now \in Nat
      /\ claims \in [Row -> Nat]
      /\ \A k \in Row : claims[k] \in Nat /\ RowInv(queue[k], claims[k])
  BY Rows
<1>1. CASE Tick
  <2>1. now' \in Nat
    BY <1>0, <1>1 DEF Tick
  <2>2. QED
    BY <1>0, <1>1, <2>1, RowWise DEF Tick
<1>2. ASSUME NEW r \in Row, NEW at \in SendTime \cup {Infinity}, Enqueue(r, at)
      PROVE  QueueInv'
  <2>1. at \in Nat
    BY QueueConstants
  <2>2. RowInv(Queued(Absent, at), 0)
    BY <2>1, AbsentRow, QueuedRow, ~Absent.sentAt DEF Absent
  <2>3. \A k \in Row : queue[k].status = "absent" => claims[k] = 0
    BY DEF QueueInv
  <2>4. \A k \in Row : queue'[k] = queue[k] \/ RowInv(queue'[k], claims[k])
    BY <1>2, <2>2, <2>3 DEF Enqueue, Update, If
  <2>5. QED
    BY <1>2, <2>4, UpdateWise DEF Enqueue, Update
<1>3. ASSUME NEW r \in Row, NEW at \in SendTime, ResolveAnchor(r, at)
      PROVE  QueueInv'
  <2>1. at \in Nat
    BY QueueConstants
  <2>2. \A k \in Row : queue'[k] = queue[k] \/ RowInv(queue'[k], claims[k])
    BY <1>0, <1>3, <2>1, MovedRow DEF ResolveAnchor, Update, If
  <2>3. QED
    BY <1>3, <2>2, UpdateWise DEF ResolveAnchor, Update
<1>4. ASSUME NEW r \in Row, CancelRow(r)
      PROVE  QueueInv'
  <2>1. \A k \in Row : queue'[k] = queue[k] \/ RowInv(queue'[k], claims[k])
    BY <1>0, <1>4, CancelledRow DEF CancelRow, Update, If
  <2>2. QED
    BY <1>4, <2>1, UpdateWise DEF CancelRow, Update
<1>5. ASSUME NEW r \in Row, NEW id \in Identity, RefreshClaim(r, id)
      PROVE  QueueInv'
  <2>1. \A k \in Row : queue'[k] = queue[k] \/ RowInv(queue'[k], claims[k])
    BY <1>0, <1>5, MovedRow DEF RefreshClaim, Update, If
  <2>2. QED
    BY <1>5, <2>1, UpdateWise DEF RefreshClaim, Update
<1>6. ASSUME NEW r \in Row, NEW id \in Identity, NEW d \in DeferFor,
             DeferClaimed(r, id, now + d)
      PROVE  QueueInv'
  <2>1. now + d \in Nat
    BY <1>0, QueueConstants
  <2>2. \A k \in Row : queue'[k] = queue[k] \/ RowInv(queue'[k], claims[k])
    BY <1>0, <1>6, <2>1, DeferredRow DEF DeferClaimed, Update, If, OwnedUnsent, Owned
  <2>3. QED
    BY <1>6, <2>2, UpdateWise DEF DeferClaimed, Update
<1>7. ASSUME NEW r \in Row, NEW id \in Identity, MarkSent(r, id)
      PROVE  QueueInv'
  <2>1. \A k \in Row : queue'[k] = queue[k] \/ RowInv(queue'[k], claims[k])
    BY <1>0, <1>7, SentRow DEF MarkSent, Update, If, Owned
  <2>2. QED
    BY <1>7, <2>1, UpdateWise DEF MarkSent, Update
<1>8. ASSUME NEW r \in Row, NEW id \in Identity, MarkFailed(r, id)
      PROVE  QueueInv'
  <2>1. \A k \in Row : queue'[k] = queue[k] \/ RowInv(queue'[k], claims[k])
    BY <1>0, <1>8, ReleasedRow DEF MarkFailed, Update, If, OwnedUnsent, Owned, Status, Verdict
  <2>2. QED
    BY <1>8, <2>1, UpdateWise DEF MarkFailed, Update
<1>9. ASSUME NEW r \in Row, NEW id \in Identity, NEW a \in 1..AttemptCap,
             ScheduleRetry(r, id, Backoff[a])
      PROVE  QueueInv'
  <2>1. now + Backoff[a] \in Nat
    BY <1>0, QueueConstants
  <2>2. \A k \in Row : queue'[k] = queue[k] \/ RowInv(queue'[k], claims[k])
    BY <1>0, <1>9, <2>1, RetriedRow DEF ScheduleRetry, Update, If, OwnedUnsent, Owned
  <2>3. QED
    BY <1>9, <2>2, UpdateWise DEF ScheduleRetry, Update
<1>10. ASSUME NEW r \in Row, NEW id \in Identity, MarkCancelled(r, id)
       PROVE  QueueInv'
  <2>1. \A k \in Row : queue'[k] = queue[k] \/ RowInv(queue'[k], claims[k])
    BY <1>0, <1>10, ReleasedRow DEF MarkCancelled, Update, If, OwnedUnsent, Owned, Status, Verdict
  <2>2. QED
    BY <1>10, <2>1, UpdateWise DEF MarkCancelled, Update
<1>11. ASSUME NEW id \in Identity, NEW S \in SUBSET Row, ClaimRows(S, id)
       PROVE  QueueInv'
  <2>1. claims' \in [Row -> Nat]
    BY <1>0, <1>11 DEF ClaimRows
  <2>2. \A k \in S : RowInv(Claimed(queue[k], id), claims[k] + 1)
    BY <1>0, <1>11, ClaimedRow DEF ClaimRows, Due
  <2>3. \A k \in Row : RowInv(queue'[k], claims'[k])
    BY <1>0, <1>11, <2>2 DEF ClaimRows, Update
  <2>4. QED
    BY <1>0, <1>11, <2>1, <2>3, RowWise DEF ClaimRows, Update
<1>12. ASSUME NEW S \in SUBSET Row, ExpireAnchors(S)
       PROVE  QueueInv'
  <2>1. \A k \in Row : queue'[k] = queue[k] \/ RowInv(queue'[k], claims[k])
    BY <1>0, <1>12, CancelledRow DEF ExpireAnchors, Parked, Update
  <2>2. QED
    BY <1>12, <2>1, UpdateWise DEF ExpireAnchors, Update
<1>13. ASSUME NEW t \in 0..now, ReclaimReturn(t)
       PROVE  QueueInv'
  <2>1. ASSUME NEW k \in Row, Stale(k, t), queue[k].attempts < MaxAttempts
        PROVE  t + Backoff[queue[k].attempts] \in Nat
    <3>1. queue[k].attempts \in 1..AttemptCap
      BY SMTT(30), <1>0, <2>1, QueueConstants DEF RowInv, RowState, Stale
    <3>2. QED
      BY <1>0, <3>1, QueueConstants
  <2>2. \A k \in Row : queue'[k] = queue[k] \/ RowInv(queue'[k], claims[k])
    BY <1>0, <1>13, <2>1, RetriedRow DEF ReclaimReturn, Update, Stale
  <2>3. QED
    BY <1>13, <2>2, UpdateWise DEF ReclaimReturn, Update
<1>14. ASSUME NEW t \in 0..now, ReclaimExhaust(t)
       PROVE  QueueInv'
  <2>1. \A k \in Row : queue'[k] = queue[k] \/ RowInv(queue'[k], claims[k])
    BY <1>0, <1>14, ReleasedRow DEF ReclaimExhaust, Update, Stale, Status, Verdict
  <2>2. QED
    BY <1>14, <2>1, UpdateWise DEF ReclaimExhaust, Update
<1>15. CASE UNCHANGED queueVars
  BY <1>15, <1>0, RowWise DEF queueVars
<1>16. ASSUME NEW r \in Row, NEW verdict \in Verdict, ProviderReceipt(r, verdict)
       PROVE  QueueInv'
  <2>1. \A k \in Row : queue'[k] = queue[k] \/ RowInv(queue'[k], claims[k])
    BY <1>0, <1>16, ReportedRow DEF ProviderReceipt, Update, If
  <2>2. QED
    BY <1>16, <2>1, UpdateWise DEF ProviderReceipt, Update
<1>17. QED
  BY <1>1, <1>2, <1>3, <1>4, <1>5, <1>6, <1>7, <1>8, <1>9, <1>10, <1>11, <1>12,
     <1>13, <1>14, <1>15, <1>16 DEF Next

\* The columns keep their types whoever calls the statements (QueueTypeOK):
\* in particular no refund of deferClaimed takes attempts below zero.
THEOREM QueueTyped == Spec => []QueueTypeOK
<1>1. QueueInv => QueueTypeOK
  BY DEF QueueInv
<1>2. QED
  BY InitQueueInv, QueueStep, <1>1, PTL DEF Spec

\* Attempts and deferrals together always number the claims of a row
\* (AttemptAccounting): claimBatch charges, deferClaimed alone refunds.
THEOREM AttemptsAccounted == Spec => []AttemptAccounting
<1>1. QueueInv => AttemptAccounting
  BY DEF QueueInv
<1>2. QED
  BY InitQueueInv, QueueStep, <1>1, PTL DEF Spec

-----------------------------------------------------------------------------
(***************************************************************************)
(* A row in flight is due.                                                 *)
(***************************************************************************)

LEMMA DueStep ==
  ASSUME QueueInv, ClaimedRowIsDue, [Next]_queueVars
  PROVE  ClaimedRowIsDue'
<1>0. now \in Nat /\ \A k \in Row : queue[k] \in RowState
  BY DEF QueueInv, QueueTypeOK
<1>1. CASE Tick
  BY <1>0, <1>1 DEF Tick, ClaimedRowIsDue, RowState
<1>2. ASSUME NEW id \in Identity, NEW S \in SUBSET Row, ClaimRows(S, id)
      PROVE  ClaimedRowIsDue'
  <2>1. ASSUME NEW k \in Row
        PROVE  /\ Claimed(queue[k], id).scheduledAt = queue[k].scheduledAt
               /\ Claimed(queue[k], id).nextAttemptAt = queue[k].nextAttemptAt
               /\ Claimed(queue[k], id).claimedAt = now
    BY <1>0 DEF Claimed, RowState
  <2>2. \A k \in Row :
           IF k \in S THEN queue'[k] = Claimed(queue[k], id) ELSE queue'[k] = queue[k]
    BY <1>2 DEF ClaimRows, Update
  <2>3. now' = now /\ \A k \in S : Due(k)
    BY <1>2 DEF ClaimRows
  <2>4. QED
    BY <1>0, <2>1, <2>2, <2>3 DEF ClaimedRowIsDue, Due
<1>3. ASSUME NEW r \in Row, NEW id \in Identity, RefreshClaim(r, id)
      PROVE  ClaimedRowIsDue'
  <2>1. ASSUME NEW k \in Row
        PROVE  \/ queue'[k] = queue[k]
               \/ /\ queue[k].status = "processing"
                  /\ queue'[k] = [queue[k] EXCEPT !.claimedAt = now]
    BY <1>3 DEF RefreshClaim, Update, If, Owned
  <2>2. now' = now
    BY <1>3 DEF RefreshClaim
  <2>3. ASSUME NEW k \in Row
        PROVE  /\ [queue[k] EXCEPT !.claimedAt = now].scheduledAt = queue[k].scheduledAt
               /\ [queue[k] EXCEPT !.claimedAt = now].nextAttemptAt
                     = queue[k].nextAttemptAt
               /\ [queue[k] EXCEPT !.claimedAt = now].claimedAt = now
    BY <1>0 DEF RowState
  <2>4. ASSUME NEW k \in Row, queue'[k].status = "processing"
        PROVE  /\ queue'[k].scheduledAt <= now
               /\ queue'[k].nextAttemptAt <= now
               /\ queue'[k].claimedAt <= now
    <3>1. CASE queue'[k] = queue[k]
      BY <2>4, <3>1 DEF ClaimedRowIsDue
    <3>2. CASE queue[k].status = "processing" /\ queue'[k] = [queue[k] EXCEPT !.claimedAt = now]
      <4>1. queue[k].scheduledAt <= now /\ queue[k].nextAttemptAt <= now /\ now <= now
        BY <1>0, <3>2 DEF ClaimedRowIsDue
      <4>2. QED
        BY <2>3, <3>2, <4>1
    <3>3. QED
      BY <2>1, <3>1, <3>2
  <2>5. QED
    BY <2>2, <2>4 DEF ClaimedRowIsDue
\* No other statement leaves a row in flight that it has written.
<1>4. ASSUME now' = now,
             \A k \in Row : queue'[k] = queue[k] \/ queue'[k].status # "processing"
      PROVE  ClaimedRowIsDue'
  BY <1>4 DEF ClaimedRowIsDue
<1>5. ASSUME NEW r \in Row, NEW at \in SendTime \cup {Infinity}, Enqueue(r, at)
      PROVE  ClaimedRowIsDue'
  BY <1>4, <1>5 DEF Enqueue, Update, If, Queued, Absent
<1>6. ASSUME NEW r \in Row, NEW at \in SendTime, ResolveAnchor(r, at)
      PROVE  ClaimedRowIsDue'
  BY <1>0, <1>4, <1>6 DEF ResolveAnchor, Update, If, Parked, RowState
<1>7. ASSUME NEW r \in Row, CancelRow(r)
      PROVE  ClaimedRowIsDue'
  BY <1>0, <1>4, <1>7 DEF CancelRow, Update, If, Cancelled, RowState
<1>8. ASSUME NEW k \in Row, NEW s \in Status, NEW u, NEW t
      PROVE  /\ Released(queue[k], s).status = s
             /\ Sent(queue[k]).status = "sent"
             /\ Deferred(queue[k], u).status = "pending"
             /\ Retried(queue[k], u).status = "pending"
             /\ [Released(queue[k], s) EXCEPT !.nextAttemptAt = t].status = s
  BY <1>0 DEF Released, Sent, Deferred, Retried, RowState
<1>9. ASSUME NEW r \in Row, NEW id \in Identity, NEW d \in DeferFor,
             DeferClaimed(r, id, now + d)
      PROVE  ClaimedRowIsDue'
  BY <1>4, <1>8, <1>9 DEF DeferClaimed, Update, If, Status, Verdict
<1>10. ASSUME NEW r \in Row, NEW id \in Identity, MarkSent(r, id)
       PROVE  ClaimedRowIsDue'
  BY <1>4, <1>8, <1>10 DEF MarkSent, Update, If, Status, Verdict
<1>11. ASSUME NEW r \in Row, NEW id \in Identity, MarkFailed(r, id)
       PROVE  ClaimedRowIsDue'
  BY <1>4, <1>8, <1>11 DEF MarkFailed, Update, If, Status, Verdict
<1>12. ASSUME NEW r \in Row, NEW id \in Identity, NEW a \in 1..AttemptCap,
              ScheduleRetry(r, id, Backoff[a])
       PROVE  ClaimedRowIsDue'
  BY <1>4, <1>8, <1>12 DEF ScheduleRetry, Update, If, Status, Verdict
<1>13. ASSUME NEW r \in Row, NEW id \in Identity, MarkCancelled(r, id)
       PROVE  ClaimedRowIsDue'
  BY <1>4, <1>8, <1>13 DEF MarkCancelled, Update, If, Status, Verdict
<1>14. ASSUME NEW S \in SUBSET Row, ExpireAnchors(S)
       PROVE  ClaimedRowIsDue'
  BY <1>0, <1>4, <1>14 DEF ExpireAnchors, Update, Cancelled, RowState
<1>15. ASSUME NEW t \in 0..now, ReclaimReturn(t)
       PROVE  ClaimedRowIsDue'
  BY <1>4, <1>8, <1>15 DEF ReclaimReturn, Update, Status, Verdict
<1>16. ASSUME NEW t \in 0..now, ReclaimExhaust(t)
       PROVE  ClaimedRowIsDue'
  BY <1>4, <1>8, <1>16 DEF ReclaimExhaust, Update, Status, Verdict
<1>17. CASE UNCHANGED queueVars
  BY <1>17 DEF queueVars, ClaimedRowIsDue
<1>18. ASSUME NEW r \in Row, NEW verdict \in Verdict, ProviderReceipt(r, verdict)
       PROVE  ClaimedRowIsDue'
  BY <1>0, <1>4, <1>18 DEF ProviderReceipt, Update, If, RowState, Verdict
<1>19. QED
  BY <1>1, <1>2, <1>3, <1>5, <1>6, <1>7, <1>9, <1>10, <1>11, <1>12, <1>13,
     <1>14, <1>15, <1>16, <1>17, <1>18 DEF Next

\* Whatever a pass holds was due when it was claimed and has not been
\* rescheduled since (ClaimedRowIsDue).
THEOREM ClaimedRowsAreDue == Spec => []ClaimedRowIsDue
<1>1. Init => ClaimedRowIsDue
  BY DEF Init, ClaimedRowIsDue, Absent
<1>2. QED
  BY InitQueueInv, QueueStep, <1>1, DueStep, PTL DEF Spec


-----------------------------------------------------------------------------
(***************************************************************************)
(* What each kind of step does to the life cycle.                          *)
(***************************************************************************)

StateOf(r) == StageOf(queue[r])
TriesOf(r) == queue[r].attempts

\* The rows of M leave one of the stages `from` for `to`; the others stay.
Moves(M, from, to) ==
    \A k \in Row :
        IF k \in M THEN StateOf(k) \in from /\ StateOf(k)' = to
                   ELSE StateOf(k)' = StateOf(k)

KeepsTries == \A k \in Row : TriesOf(k)' = TriesOf(k)

LEMMA MovesMove ==
  ASSUME NEW M \in SUBSET Row, NEW from, NEW to, Moves(M, from, to)
  PROVE  Lifecycle!Move(M, from, to)
  BY DEF Moves, StateOf, Lifecycle!Move

LEMMA SubmitStep ==
  ASSUME NEW r \in Row, Moves({r}, {"absent"}, "pending"), KeepsTries
  PROVE  Lifecycle!Next
  BY MovesMove, {r} \in SUBSET Row DEF Lifecycle!Next, Lifecycle!Submit, KeepsTries, TriesOf

LEMMA TakeStep ==
  ASSUME NEW M \in SUBSET Row, Moves(M, {"pending"}, "processing"),
         \A k \in Row : TriesOf(k)' = IF k \in M THEN TriesOf(k) + 1 ELSE TriesOf(k)
  PROVE  Lifecycle!Next
  BY MovesMove DEF Lifecycle!Next, Lifecycle!Take, TriesOf

LEMMA ReturnStep ==
  ASSUME NEW M \in SUBSET Row, Moves(M, {"processing"}, "pending"), KeepsTries
  PROVE  Lifecycle!Next
  BY MovesMove DEF Lifecycle!Next, Lifecycle!Return, KeepsTries, TriesOf

LEMMA RefundStep ==
  ASSUME NEW r \in Row, Moves({r}, {"processing"}, "pending"), TriesOf(r) > 0,
         \A k \in Row : TriesOf(k)' = IF k = r THEN TriesOf(k) - 1 ELSE TriesOf(k)
  PROVE  Lifecycle!Next
<1>1. Lifecycle!Move({r}, {"processing"}, "pending")
  BY MovesMove
<1>2. Lifecycle!Refund(r)
  BY <1>1 DEF Lifecycle!Refund, TriesOf
<1>3. QED
  BY <1>2 DEF Lifecycle!Next

LEMMA SettleStep ==
  ASSUME NEW M \in SUBSET Row, NEW outcome \in Lifecycle!Settled,
         Moves(M, {"processing"}, outcome), KeepsTries
  PROVE  Lifecycle!Next
  BY MovesMove DEF Lifecycle!Next, Lifecycle!Settle, KeepsTries, TriesOf

LEMMA WithdrawStep ==
  ASSUME NEW M \in SUBSET Row, Moves(M, {"pending", "processing"}, "cancelled"), KeepsTries
  PROVE  Lifecycle!Next
  BY MovesMove DEF Lifecycle!Next, Lifecycle!Withdraw, KeepsTries, TriesOf

LEMMA ReportStep ==
  ASSUME NEW r \in Row, NEW verdict \in Lifecycle!Reported,
         Moves({r}, {"sent"} \cup Lifecycle!Reported, verdict), KeepsTries
  PROVE  Lifecycle!Next
<1>1. Lifecycle!Move({r}, {"sent"} \cup Lifecycle!Reported, verdict)
  BY MovesMove
<1>2. Lifecycle!Report(r, verdict)
  BY <1>1 DEF Lifecycle!Report, KeepsTries, TriesOf
<1>3. QED
  BY <1>2 DEF Lifecycle!Next

LEMMA KeepStep ==
  ASSUME \A k \in Row : StateOf(k)' = StateOf(k) /\ TriesOf(k)' = TriesOf(k)
  PROVE  UNCHANGED Lifecycle!lifecycleVars
  BY DEF Lifecycle!lifecycleVars, StateOf, TriesOf

-----------------------------------------------------------------------------
(***************************************************************************)
(* Every step of the queue is such a step.                                 *)
(***************************************************************************)

\* What the life cycle shows of a row.
Shows(row, stage, n) == StageOf(row) = stage /\ row.attempts = n

\* A failure is the only status that does not tell the stage.
LEMMA Stages ==
  /\ \A row : row.status # "failed" => StageOf(row) = row.status
  /\ \A row : ~row.sentAt => StageOf(row) = row.status
  BY DEF StageOf

LEMMA ReleasedShows ==
  ASSUME NEW row \in RowState, ~row.sentAt, NEW s \in Status
  PROVE  Shows(Released(row, s), s, row.attempts)
<1>1. ~Released(row, s).sentAt /\ Released(row, s).status = s
      /\ Released(row, s).attempts = row.attempts
  BY DEF Released, RowState
<1>2. QED
  BY <1>1, Stages DEF Shows

LEMMA RetriedShows ==
  ASSUME NEW row \in RowState, NEW t
  PROVE  /\ Shows(Retried(row, t), "pending", row.attempts)
         /\ Shows([Released(row, "pending") EXCEPT !.nextAttemptAt = t],
                  "pending", row.attempts)
  BY DEF Shows, StageOf, Retried, Released, RowState

LEMMA SentShows ==
  ASSUME NEW row \in RowState
  PROVE  Shows(Sent(row), "sent", row.attempts)
  BY DEF Shows, StageOf, Sent, Released, RowState

LEMMA CancelledShows ==
  ASSUME NEW row \in RowState
  PROVE  Shows(Cancelled(row), "cancelled", row.attempts)
  BY DEF Shows, StageOf, Cancelled, RowState

LEMMA ClaimedShows ==
  ASSUME NEW row \in RowState, NEW id
  PROVE  Shows(Claimed(row, id), "processing", row.attempts + 1)
  BY DEF Shows, StageOf, Claimed, RowState

LEMMA MovedShows ==
  ASSUME NEW row \in RowState, NEW t
  PROVE  /\ Shows([row EXCEPT !.scheduledAt = t], StageOf(row), row.attempts)
         /\ Shows([row EXCEPT !.claimedAt = t], StageOf(row), row.attempts)
  BY DEF Shows, StageOf, RowState

LEMMA DeferredShows ==
  ASSUME NEW row \in RowState, row.attempts > 0, NEW until
  PROVE  Shows(Deferred(row, until), "pending", row.attempts - 1)
  BY DEF Shows, StageOf, Deferred, Released, RowState

\* A statement that selects the rows of M, all at a stage of `from`, and gives
\* each the stage `to` and no other try.
LEMMA SelectedMove ==
  ASSUME NEW M \in SUBSET Row, NEW from, NEW to,
         \A k \in M : StageOf(queue[k]) \in from,
         \A k \in Row : IF k \in M THEN Shows(queue'[k], to, queue[k].attempts)
                                   ELSE queue'[k] = queue[k]
  PROVE  Moves(M, from, to) /\ KeepsTries
  BY DEF Shows, Moves, KeepsTries, StateOf, TriesOf

LEMMA QueueImplementsStep ==
  ASSUME QueueInv, [Next]_queueVars
  PROVE  [Lifecycle!Next]_(Lifecycle!lifecycleVars)
<1>0. \A k \in Row : queue[k] \in RowState
  BY DEF QueueInv, QueueTypeOK
<1>u. \A k \in Row : queue[k].sentAt => queue[k].status \in {"sent"} \cup Verdict
  BY DEF QueueInv
<1>1. CASE Tick
  BY <1>1, KeepStep DEF Tick, StateOf, TriesOf
<1>2. ASSUME NEW r \in Row, NEW at \in SendTime \cup {Infinity}, Enqueue(r, at)
      PROVE  [Lifecycle!Next]_(Lifecycle!lifecycleVars)
  <2>1. CASE queue[r].status = "absent"
    <3>1. queue[r].attempts = 0
      BY <1>0, <2>1 DEF QueueInv, QueueTypeOK, AttemptAccounting, RowState
    <3>2. Queued(Absent, at).status = "pending" /\ Queued(Absent, at).attempts = 0
      BY DEF Queued, Absent
    <3>3. \A k \in Row : queue'[k] = IF k = r THEN Queued(Absent, at) ELSE queue[k]
      BY <1>2, <2>1 DEF Enqueue, Update, If
    <3>4. Moves({r}, {"absent"}, "pending") /\ KeepsTries
      BY <2>1, <3>1, <3>2, <3>3, Stages DEF Moves, KeepsTries, StateOf, TriesOf
    <3>5. QED
      BY <3>4, SubmitStep
  <2>2. CASE queue[r].status # "absent"
    BY <1>2, <2>2, KeepStep DEF Enqueue, Update, If, StateOf, TriesOf
  <2>3. QED
    BY <2>1, <2>2
<1>3. ASSUME NEW r \in Row, NEW at \in SendTime, ResolveAnchor(r, at)
      PROVE  [Lifecycle!Next]_(Lifecycle!lifecycleVars)
  <2>1. \A k \in Row : StateOf(k)' = StateOf(k) /\ TriesOf(k)' = TriesOf(k)
    BY <1>0, <1>3, MovedShows DEF Shows, ResolveAnchor, Update, If, StateOf, TriesOf
  <2>2. QED
    BY <2>1, KeepStep
<1>4. ASSUME NEW r \in Row, NEW id \in Identity, RefreshClaim(r, id)
      PROVE  [Lifecycle!Next]_(Lifecycle!lifecycleVars)
  <2>1. \A k \in Row : StateOf(k)' = StateOf(k) /\ TriesOf(k)' = TriesOf(k)
    BY <1>0, <1>4, MovedShows DEF Shows, RefreshClaim, Update, If, StateOf, TriesOf
  <2>2. QED
    BY <2>1, KeepStep
<1>5. ASSUME NEW r \in Row, CancelRow(r)
      PROVE  [Lifecycle!Next]_(Lifecycle!lifecycleVars)
  <2> DEFINE M == If(queue[r].status \in {"pending", "processing"}, r)
  <2>1. M \in SUBSET Row /\ "cancelled" \in Status
    BY DEF If, Status
  <2>2. \A k \in M : StageOf(queue[k]) \in {"pending", "processing"}
    BY <1>5, Stages DEF If
  <2>3. \A k \in Row : IF k \in M THEN Shows(queue'[k], "cancelled", queue[k].attempts)
                                 ELSE queue'[k] = queue[k]
    BY <1>0, <1>5, <2>1, CancelledShows DEF CancelRow, Update
  <2>4. Moves(M, {"pending", "processing"}, "cancelled") /\ KeepsTries
    BY <2>1, <2>2, <2>3, SelectedMove
  <2>5. QED
    BY <2>1, <2>4, WithdrawStep
<1>6. ASSUME NEW S \in SUBSET Row, ExpireAnchors(S)
      PROVE  [Lifecycle!Next]_(Lifecycle!lifecycleVars)
  <2>1. S \in SUBSET Row /\ "cancelled" \in Status
    BY DEF Status
  <2>2. \A k \in S : StageOf(queue[k]) \in {"pending", "processing"}
    BY <1>6, Stages DEF ExpireAnchors, Parked
  <2>3. \A k \in Row : IF k \in S THEN Shows(queue'[k], "cancelled", queue[k].attempts)
                                 ELSE queue'[k] = queue[k]
    BY <1>0, <1>6, <2>1, CancelledShows DEF ExpireAnchors, Update
  <2>4. Moves(S, {"pending", "processing"}, "cancelled") /\ KeepsTries
    BY <2>1, <2>2, <2>3, SelectedMove
  <2>5. QED
    BY <2>1, <2>4, WithdrawStep
<1>7. ASSUME NEW r \in Row, NEW id \in Identity, NEW d \in DeferFor,
             DeferClaimed(r, id, now + d)
      PROVE  [Lifecycle!Next]_(Lifecycle!lifecycleVars)
  <2>1. CASE OwnedUnsent(r, id)
    <3>1. queue[r].status = "processing" /\ queue[r].attempts > 0
      BY <2>1 DEF OwnedUnsent, Owned, QueueInv, AttemptAccounting
    <3>2. \A k \in Row : queue'[k] = IF k = r THEN Deferred(queue[k], now + d) ELSE queue[k]
      BY <1>7, <2>1 DEF DeferClaimed, Update, If
    <3>3. Shows(Deferred(queue[r], now + d), "pending", queue[r].attempts - 1)
      BY <1>0, <3>1, DeferredShows
    <3>4. Moves({r}, {"processing"}, "pending")
      BY <3>1, <3>2, <3>3, Stages DEF Shows, Moves, StateOf
    <3>5. \A k \in Row : TriesOf(k)' = IF k = r THEN TriesOf(k) - 1 ELSE TriesOf(k)
      BY <3>2, <3>3 DEF Shows, TriesOf
    <3>6. QED
      BY <3>1, <3>4, <3>5, RefundStep DEF TriesOf
  <2>2. CASE ~OwnedUnsent(r, id)
    BY <1>7, <2>2, KeepStep DEF DeferClaimed, Update, If, StateOf, TriesOf
  <2>3. QED
    BY <2>1, <2>2
<1>8. ASSUME NEW r \in Row, NEW id \in Identity, MarkSent(r, id)
      PROVE  [Lifecycle!Next]_(Lifecycle!lifecycleVars)
  <2> DEFINE M == If(Owned(r, id), r)
  <2>1. M \in SUBSET Row /\ "sent" \in Status /\ "sent" \in Lifecycle!Settled
    BY DEF If, Status, Lifecycle!Settled
  <2>2. \A k \in M : StageOf(queue[k]) \in {"processing"}
    BY <1>8, Stages DEF If, Owned
  <2>3. \A k \in Row : IF k \in M THEN Shows(queue'[k], "sent", queue[k].attempts)
                                 ELSE queue'[k] = queue[k]
    BY <1>0, <1>8, <2>1, SentShows DEF MarkSent, Update
  <2>4. Moves(M, {"processing"}, "sent") /\ KeepsTries
    BY <2>1, <2>2, <2>3, SelectedMove
  <2>5. QED
    BY <2>1, <2>4, SettleStep
<1>9. ASSUME NEW r \in Row, NEW id \in Identity, MarkFailed(r, id)
      PROVE  [Lifecycle!Next]_(Lifecycle!lifecycleVars)
  <2> DEFINE M == If(OwnedUnsent(r, id), r)
  <2>1. M \in SUBSET Row /\ "failed" \in Status /\ "failed" \in Lifecycle!Settled
    BY DEF If, Status, Lifecycle!Settled
  <2>2. \A k \in M : StageOf(queue[k]) \in {"processing"}
    BY <1>9, Stages DEF If, OwnedUnsent, Owned
  <2>3. \A k \in Row : IF k \in M THEN Shows(queue'[k], "failed", queue[k].attempts)
                                 ELSE queue'[k] = queue[k]
    BY <1>0, <1>9, <2>1, ReleasedShows DEF MarkFailed, Update, If, OwnedUnsent
  <2>4. Moves(M, {"processing"}, "failed") /\ KeepsTries
    BY <2>1, <2>2, <2>3, SelectedMove
  <2>5. QED
    BY <2>1, <2>4, SettleStep
<1>10. ASSUME NEW r \in Row, NEW id \in Identity, MarkCancelled(r, id)
       PROVE  [Lifecycle!Next]_(Lifecycle!lifecycleVars)
  <2> DEFINE M == If(OwnedUnsent(r, id), r)
  <2>1. M \in SUBSET Row /\ "cancelled" \in Status /\ "cancelled" \in Lifecycle!Settled
    BY DEF If, Status, Lifecycle!Settled
  <2>2. \A k \in M : StageOf(queue[k]) \in {"processing"}
    BY <1>10, Stages DEF If, OwnedUnsent, Owned
  <2>3. \A k \in Row : IF k \in M THEN Shows(queue'[k], "cancelled", queue[k].attempts)
                                 ELSE queue'[k] = queue[k]
    BY <1>0, <1>10, <2>1, ReleasedShows DEF MarkCancelled, Update, If, OwnedUnsent
  <2>4. Moves(M, {"processing"}, "cancelled") /\ KeepsTries
    BY <2>1, <2>2, <2>3, SelectedMove
  <2>5. QED
    BY <2>1, <2>4, SettleStep
<1>11. ASSUME NEW r \in Row, NEW id \in Identity, NEW a \in 1..AttemptCap,
              ScheduleRetry(r, id, Backoff[a])
       PROVE  [Lifecycle!Next]_(Lifecycle!lifecycleVars)
  <2> DEFINE M == If(OwnedUnsent(r, id), r)
  <2>1. M \in SUBSET Row /\ "pending" \in Status
    BY DEF If, Status
  <2>2. \A k \in M : StageOf(queue[k]) \in {"processing"}
    BY <1>11, Stages DEF If, OwnedUnsent, Owned
  <2>3. \A k \in Row : IF k \in M THEN Shows(queue'[k], "pending", queue[k].attempts)
                                 ELSE queue'[k] = queue[k]
    BY <1>0, <1>11, <2>1, RetriedShows DEF ScheduleRetry, Update
  <2>4. Moves(M, {"processing"}, "pending") /\ KeepsTries
    BY <2>1, <2>2, <2>3, SelectedMove
  <2>5. QED
    BY <2>1, <2>4, ReturnStep
<1>12. ASSUME NEW id \in Identity, NEW S \in SUBSET Row, ClaimRows(S, id)
       PROVE  [Lifecycle!Next]_(Lifecycle!lifecycleVars)
  <2>1. \A k \in Row : queue'[k] = IF k \in S THEN Claimed(queue[k], id) ELSE queue[k]
    BY <1>12 DEF ClaimRows, Update
  <2>2. \A k \in Row : Shows(Claimed(queue[k], id), "processing", queue[k].attempts + 1)
    BY <1>0, ClaimedShows
  <2>3. \A k \in S : queue[k].status = "pending"
    BY <1>12 DEF ClaimRows, Due
  <2>4. Moves(S, {"pending"}, "processing")
    BY <2>1, <2>2, <2>3, Stages DEF Shows, Moves, StateOf
  <2>5. \A k \in Row : TriesOf(k)' = IF k \in S THEN TriesOf(k) + 1 ELSE TriesOf(k)
    BY <2>1, <2>2 DEF Shows, TriesOf
  <2>6. QED
    BY <2>4, <2>5, TakeStep
<1>13. ASSUME NEW t \in 0..now, ReclaimReturn(t)
       PROVE  [Lifecycle!Next]_(Lifecycle!lifecycleVars)
  <2> DEFINE M == {r \in Row : Stale(r, t) /\ queue[r].attempts < MaxAttempts}
  <2>1. M \in SUBSET Row /\ "pending" \in Status
    BY DEF Status
  <2>2. \A k \in M : StageOf(queue[k]) \in {"processing"}
    BY <1>13, Stages DEF Stale
  <2>3. \A k \in Row : IF k \in M THEN Shows(queue'[k], "pending", queue[k].attempts)
                                 ELSE queue'[k] = queue[k]
    BY <1>0, <1>13, <2>1, RetriedShows DEF ReclaimReturn, Update
  <2>4. Moves(M, {"processing"}, "pending") /\ KeepsTries
    BY <2>1, <2>2, <2>3, SelectedMove
  <2>5. QED
    BY <2>1, <2>4, ReturnStep
<1>14. ASSUME NEW t \in 0..now, ReclaimExhaust(t)
       PROVE  [Lifecycle!Next]_(Lifecycle!lifecycleVars)
  <2> DEFINE M == {r \in Row : Stale(r, t) /\ queue[r].attempts >= MaxAttempts}
  <2>1. M \in SUBSET Row /\ "failed" \in Status /\ "failed" \in Lifecycle!Settled
    BY DEF Status, Lifecycle!Settled
  <2>2. \A k \in M : StageOf(queue[k]) \in {"processing"}
    BY <1>14, Stages DEF Stale
  <2>3. \A k \in Row : IF k \in M THEN Shows(queue'[k], "failed", queue[k].attempts)
                                 ELSE queue'[k] = queue[k]
    BY <1>0, <1>u, <1>14, <2>1, ReleasedShows
       DEF ReclaimExhaust, Update, Stale, Verdict
  <2>4. Moves(M, {"processing"}, "failed") /\ KeepsTries
    BY <2>1, <2>2, <2>3, SelectedMove
  <2>5. QED
    BY <2>1, <2>4, SettleStep
<1>15. CASE UNCHANGED queueVars
  BY <1>15, KeepStep DEF queueVars, StateOf, TriesOf
<1>16. ASSUME NEW r \in Row, NEW verdict \in Verdict, ProviderReceipt(r, verdict)
       PROVE  [Lifecycle!Next]_(Lifecycle!lifecycleVars)
  <2>1. CASE queue[r].sentAt
    <3> DEFINE told == IF verdict = "failed" THEN "undelivered" ELSE verdict
               new == [queue[r] EXCEPT !.status = verdict]
    <3>1. \A k \in Row : queue'[k] = IF k = r THEN new ELSE queue[k]
      BY <1>16, <2>1 DEF ProviderReceipt, Update, If
    <3>2. new.sentAt /\ new.status = verdict /\ new.attempts = queue[r].attempts
      BY <1>0, <2>1 DEF RowState
    <3>3. StageOf(new) = told
      BY <3>2 DEF StageOf
    <3>4. told \in Lifecycle!Reported
      BY DEF Lifecycle!Reported, Verdict
    <3>5. StageOf(queue[r]) \in {"sent"} \cup Lifecycle!Reported
      BY <1>u, <2>1 DEF StageOf, Verdict, Lifecycle!Reported
    <3>6. Moves({r}, {"sent"} \cup Lifecycle!Reported, told) /\ KeepsTries
      BY <3>1, <3>2, <3>3, <3>5 DEF Moves, KeepsTries, StateOf, TriesOf
    <3>7. QED
      BY <3>4, <3>6, ReportStep
  <2>2. CASE ~queue[r].sentAt
    BY <1>16, <2>2, KeepStep DEF ProviderReceipt, Update, If, StateOf, TriesOf
  <2>3. QED
    BY <2>1, <2>2
<1>17. QED
  BY <1>1, <1>2, <1>3, <1>4, <1>5, <1>6, <1>7, <1>8, <1>9, <1>10, <1>11, <1>12,
     <1>13, <1>14, <1>15, <1>16 DEF Next

\* Whoever calls the statements of message-queue.ts, and in whatever order, a
\* message follows the life cycle of migrations/0005 (FollowsLifecycle).
THEOREM QueueFollowsLifecycle == Spec => FollowsLifecycle
<1>1. Init => Lifecycle!Init
  BY DEF Init, Absent, StageOf, Lifecycle!Init
<1>2. QED
  BY InitQueueInv, QueueStep, QueueImplementsStep, <1>1, PTL
     DEF Spec, FollowsLifecycle, Lifecycle!Spec
=============================================================================
