---------------------------- MODULE MessageQueue ----------------------------
(***************************************************************************)
(* The table message_queue and every SQL statement that writes it (most of *)
(* them in packages/core/src/queue/message-queue.ts), one action per       *)
(* statement.                                                              *)
(*                                                                         *)
(* Row is the set of dedup keys: the unique index makes a row and its      *)
(* dedup_key the same thing.  A statement runs atomically and names the    *)
(* identity (claimed_by) of its caller; WHO calls a statement, and when,   *)
(* is left open here, so Spec holds for every caller.  Delivery.tla adds   *)
(* the callers.                                                            *)
(*                                                                         *)
(* NULL is 0 in the two columns that are only compared with the clock      *)
(* (next_attempt_at, claimed_at): to every statement a NULL and a time     *)
(* already past read the same.  Error codes, the provider's name, bodies   *)
(* and updated_at are not modelled.                                        *)
(***************************************************************************)
EXTENDS Integers

CONSTANTS
    Row,            \* the dedup keys
    Identity,       \* the claimed_by strings
    NoOne,          \* claimed_by IS NULL
    MaxTime,        \* bound of the model: the clock stops here
    MaxClaims,      \* bound of the model: how often one row is claimed
    Infinity,       \* scheduled_at of a row parked until its order is delivered
    SendTime,       \* the other scheduled_at values a row is given
    StaleAfter,     \* STALE_CLAIM_MINUTES
    MaxAttempts,    \* MAX_ATTEMPTS of the worker
    AttemptCap,     \* the largest attempt limit of any caller
    Backoff,        \* attempts -> ticks until the next attempt
    DeferFor        \* how far ahead a retryable gate moves a row

ASSUME QueueConstants ==
    /\ NoOne \notin Identity
    /\ MaxTime \in Nat
    /\ MaxClaims \in Nat
    /\ Infinity \in Nat
    /\ MaxTime < Infinity
    /\ SendTime \subseteq Nat
    /\ StaleAfter \in Nat
    /\ AttemptCap \in Nat
    /\ MaxAttempts \in 1..AttemptCap
    /\ Backoff \in [1..AttemptCap -> Nat]
    /\ DeferFor \subseteq Nat

VARIABLES
    queue,          \* the rows
    now,            \* the injected Clock
    claims          \* history: how often each row has been claimed

queueVars == <<queue, now, claims>>

\* What a receipt of the provider says of a message.
Verdict == {"delivered", "bounced", "complained", "failed"}

\* ("suppressed" is in the CHECK constraint; nothing writes it.)
Status ==
    {"absent", "pending", "processing", "sent", "delivered", "bounced",
     "complained", "failed", "cancelled"}

RowState ==
    [status : Status, scheduledAt : Nat, nextAttemptAt : Nat,
     claimedAt : Nat, claimedBy : Identity \cup {NoOne},
     attempts : Nat, deferrals : Nat, sentAt : BOOLEAN]

\* A dedup key no message has been queued under yet.
Absent ==
    [status |-> "absent", scheduledAt |-> 0, nextAttemptAt |-> 0,
     claimedAt |-> 0, claimedBy |-> NoOne,
     attempts |-> 0, deferrals |-> 0, sentAt |-> FALSE]

Init ==
    /\ queue = [r \in Row |-> Absent]
    /\ now = 0
    /\ claims = [r \in Row |-> 0]

-----------------------------------------------------------------------------
(***************************************************************************)
(* The rows a statement selects.                                           *)
(***************************************************************************)

\* Mutant of Due: the claim query forgets next_attempt_at.
DueIgnoringBackoff(r) ==
    /\ queue[r].status = "pending"
    /\ queue[r].scheduledAt <= now

\* WHERE status = 'pending' AND scheduled_at <= now AND next_attempt_at passed.
Due(r) ==
    /\ queue[r].status = "pending"
    /\ queue[r].scheduledAt <= now
    /\ queue[r].nextAttemptAt <= now

\* Mutant of Owned: the fence reads the status and forgets claimed_by.
OwnedByAnyone(r, id) == queue[r].status = "processing"

\* The ownership fence.
Owned(r, id) ==
    /\ queue[r].status = "processing"
    /\ queue[r].claimedBy = id

\* The fence, and `sent_at IS NULL`.
OwnedUnsent(r, id) == Owned(r, id) /\ ~queue[r].sentAt

\* status = 'processing' AND claimed_at < cutoff, for a cutoff read at time t.
Stale(r, t) ==
    /\ queue[r].status = "processing"
    /\ queue[r].claimedAt + StaleAfter < t

\* UPDATE message_queue SET ... for the given rows; no other row changes.
Update(rows, set(_)) ==
    queue' = [r \in Row |-> IF r \in rows THEN set(queue[r]) ELSE queue[r]]

\* The row r if the condition of its WHERE holds, and nothing otherwise.
If(condition, r) == IF condition THEN {r} ELSE {}

Least(a, b) == IF a < b THEN a ELSE b

-----------------------------------------------------------------------------
(***************************************************************************)
(* What a statement makes of a row it selects.                             *)
(***************************************************************************)

Queued(row, at) == [row EXCEPT !.status = "pending", !.scheduledAt = at]

Claimed(row, id) ==
    [row EXCEPT !.status = "processing", !.claimedAt = now, !.claimedBy = id,
                !.attempts = @ + 1]

\* claimed_at = NULL, claimed_by = NULL, and a new status.
Released(row, status) ==
    [row EXCEPT !.status = status, !.claimedAt = 0, !.claimedBy = NoOne]

\* The optimistic attempt is taken back: GREATEST(attempts - 1, 0).
Deferred(row, until) ==
    [Released(row, "pending") EXCEPT
        !.attempts = IF @ > 0 THEN @ - 1 ELSE 0,
        !.deferrals = @ + 1,
        !.scheduledAt = until,
        !.nextAttemptAt = 0]

Sent(row) == [Released(row, "sent") EXCEPT !.sentAt = TRUE]

Retried(row, at) ==
    [Released(row, "pending") EXCEPT
        !.nextAttemptAt = at,
        !.scheduledAt = Least(@, at)]

\* Cancelled from outside: the claim stamp stays on the row.
Cancelled(row) == [row EXCEPT !.status = "cancelled"]

-----------------------------------------------------------------------------
(***************************************************************************)
(* The statements.                                                         *)
(***************************************************************************)

\* INSERT ... ON CONFLICT (tenant_id, dedup_key) DO NOTHING.  A NULL time parks
\* the row.
Enqueue(r, at) ==
    /\ Update(If(queue[r].status = "absent", r), LAMBDA row : Queued(Absent, at))
    /\ UNCHANGED <<now, claims>>

\* claimBatch and claimSpecific, once the rows are chosen: any set of due rows.
\* SKIP LOCKED passes over whatever rows another statement holds, so ORDER BY
\* scheduled_at does not narrow the sets that can be claimed.
ClaimRows(S, id) ==
    /\ \A r \in S : Due(r) /\ claims[r] < MaxClaims
    /\ Update(S, LAMBDA row : Claimed(row, id))
    /\ claims' = [r \in Row |-> IF r \in S THEN claims[r] + 1 ELSE claims[r]]
    /\ UNCHANGED now

RefreshClaim(r, id) ==
    /\ Update(If(Owned(r, id), r), LAMBDA row : [row EXCEPT !.claimedAt = now])
    /\ UNCHANGED <<now, claims>>

\* Mutant of DeferClaimed: the optimistic attempt is not taken back.
DeferClaimedCharged(r, id, until) ==
    /\ Update(If(OwnedUnsent(r, id), r),
              LAMBDA row : [Deferred(row, until) EXCEPT !.attempts = row.attempts])
    /\ UNCHANGED <<now, claims>>

\* Mutant of DeferClaimed: no fence, and no GREATEST around the refund.
DeferClaimedUnfenced(r, id, until) ==
    /\ Update(If(queue[r].status \in {"pending", "processing"}, r),
              LAMBDA row : [Deferred(row, until) EXCEPT !.attempts = row.attempts - 1])
    /\ UNCHANGED <<now, claims>>

DeferClaimed(r, id, until) ==
    /\ Update(If(OwnedUnsent(r, id), r), LAMBDA row : Deferred(row, until))
    /\ UNCHANGED <<now, claims>>

MarkSent(r, id) ==
    /\ Update(If(Owned(r, id), r), Sent)
    /\ UNCHANGED <<now, claims>>

\* Mutant of MarkFailed: WHERE id = $1, neither fenced nor guarded.
MarkFailedUnfenced(r, id) ==
    /\ Update({r}, LAMBDA row : Released(row, "failed"))
    /\ UNCHANGED <<now, claims>>

MarkFailed(r, id) ==
    /\ Update(If(OwnedUnsent(r, id), r), LAMBDA row : Released(row, "failed"))
    /\ UNCHANGED <<now, claims>>

\* Mutant of ScheduleRetry: WHERE id = $1, neither fenced nor guarded.
ScheduleRetryUnfenced(r, id, delay) ==
    /\ Update(If(queue[r].status # "absent", r), LAMBDA row : Retried(row, now + delay))
    /\ UNCHANGED <<now, claims>>

\* Mutant of ScheduleRetry: the failed attempt is refunded like a deferral.
ScheduleRetryRefunded(r, id, delay) ==
    /\ Update(If(OwnedUnsent(r, id), r),
              LAMBDA row : [Retried(row, now + delay) EXCEPT !.attempts = @ - 1])
    /\ UNCHANGED <<now, claims>>

ScheduleRetry(r, id, delay) ==
    /\ Update(If(OwnedUnsent(r, id), r), LAMBDA row : Retried(row, now + delay))
    /\ UNCHANGED <<now, claims>>

MarkCancelled(r, id) ==
    /\ Update(If(OwnedUnsent(r, id), r), LAMBDA row : Released(row, "cancelled"))
    /\ UNCHANGED <<now, claims>>

\* Cancellation from outside the worker, for one of its rows: POST
\* /queue/:id/cancel, optOut, the preference centre, a stop condition.  No fence.
CancelRow(r) ==
    /\ Update(If(queue[r].status \in {"pending", "processing"}, r), Cancelled)
    /\ UNCHANGED <<now, claims>>

Parked(r) == queue[r].status = "pending" /\ queue[r].scheduledAt = Infinity

\* The delivery-anchors job, for one order: its parked row gets a time.
ResolveAnchor(r, at) ==
    /\ Update(If(Parked(r), r), LAMBDA row : [row EXCEPT !.scheduledAt = at])
    /\ UNCHANGED <<now, claims>>

\* The expire-anchors job: rows parked for too long are cancelled.
ExpireAnchors(S) ==
    /\ \A r \in S : Parked(r)
    /\ Update(S, Cancelled)
    /\ UNCHANGED <<now, claims>>

\* applyProviderEvent.  The row is found by its provider_message_id, which
\* markSent writes together with sent_at.
ProviderReceipt(r, verdict) ==
    /\ Update(If(queue[r].sentAt, r), LAMBDA row : [row EXCEPT !.status = verdict])
    /\ UNCHANGED <<now, claims>>

\* reclaimStale, first UPDATE: stale claims with attempts left go back.
ReclaimReturn(t) ==
    /\ Update({r \in Row : Stale(r, t) /\ queue[r].attempts < MaxAttempts},
              LAMBDA row : [Released(row, "pending") EXCEPT
                                !.nextAttemptAt = t + Backoff[row.attempts]])
    /\ UNCHANGED <<now, claims>>

\* Mutant of ReclaimExhaust: attempts > max leaves a row that has just used
\* its last attempt to neither UPDATE.
ReclaimExhaustLate(t) ==
    /\ Update({r \in Row : Stale(r, t) /\ queue[r].attempts > MaxAttempts},
              LAMBDA row : Released(row, "failed"))
    /\ UNCHANGED <<now, claims>>

\* reclaimStale, second UPDATE: stale claims without attempts left fail.
ReclaimExhaust(t) ==
    /\ Update({r \in Row : Stale(r, t) /\ queue[r].attempts >= MaxAttempts},
              LAMBDA row : Released(row, "failed"))
    /\ UNCHANGED <<now, claims>>

Tick ==
    /\ now < MaxTime
    /\ now' = now + 1
    /\ UNCHANGED <<queue, claims>>

Next ==
    \/ Tick
    \/ \E r \in Row :
          \/ \E at \in SendTime \cup {Infinity} : Enqueue(r, at)
          \/ \E at \in SendTime : ResolveAnchor(r, at)
          \/ CancelRow(r)
          \/ \E verdict \in Verdict : ProviderReceipt(r, verdict)
          \/ \E id \in Identity :
                \/ RefreshClaim(r, id)
                \/ \E d \in DeferFor : DeferClaimed(r, id, now + d)
                \/ MarkSent(r, id)
                \/ MarkFailed(r, id)
                \/ \E a \in 1..AttemptCap : ScheduleRetry(r, id, Backoff[a])
                \/ MarkCancelled(r, id)
    \/ \E id \in Identity, S \in SUBSET Row : ClaimRows(S, id)
    \/ \E S \in SUBSET Row : ExpireAnchors(S)
    \/ \E t \in 0..now : ReclaimReturn(t) \/ ReclaimExhaust(t)

Spec == Init /\ [][Next]_queueVars

-----------------------------------------------------------------------------
(***************************************************************************)
(* Properties.                                                             *)
(***************************************************************************)

\* Every column keeps its type, the CHECK constraints of the table included.
QueueTypeOK ==
    /\ queue \in [Row -> RowState]
    /\ now \in Nat
    /\ claims \in [Row -> Nat]

\* A claim is an attempt until a deferral takes it back, and a deferral is
\* never charged: attempts and deferrals together always number the claims.
\* The GREATEST(attempts - 1, 0) of deferClaimed never has to clamp.
AttemptAccounting ==
    \A r \in Row :
        /\ queue[r].attempts + queue[r].deferrals = claims[r]
        /\ queue[r].status = "processing" => queue[r].attempts > 0

\* A row in flight was due when it was claimed, and no statement reschedules
\* it while it is held: neither wait of the row can lie in the future.
ClaimedRowIsDue ==
    \A r \in Row : queue[r].status = "processing" =>
        /\ queue[r].scheduledAt <= now
        /\ queue[r].nextAttemptAt <= now
        /\ queue[r].claimedAt <= now

\* "failed" is written by the worker, about a message it could not hand over,
\* and by a receipt, about a message that was sent.
StageOf(row) ==
    IF row.sentAt /\ row.status = "failed" THEN "undelivered" ELSE row.status

Lifecycle ==
    INSTANCE MessageLifecycle WITH
        Message <- Row,
        state <- [r \in Row |-> StageOf(queue[r])],
        tries <- [r \in Row |-> queue[r].attempts]

\* Whoever calls the statements, and in whatever order, a message follows the
\* life cycle: a settled message never waits again, no try is refunded twice,
\* only a held message is settled, and only a sent one is reported on.
FollowsLifecycle == Lifecycle!Spec

=============================================================================
