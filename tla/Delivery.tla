------------------------------ MODULE Delivery ------------------------------
(***************************************************************************)
(* The callers of the queue: the worker's process-queue pass (processQueue *)
(* in packages/core/src/delivery/orchestrator.ts), the storefront's flush  *)
(* (flushMessages), the reclaim-stale job, and cancellation from outside.  *)
(*                                                                         *)
(* A pass claims rows and walks them one by one through deliverClaimed.    *)
(* Every await that reaches the database or the provider is a step of its  *)
(* own, so other passes, the janitor, the clock, a crash or a failing      *)
(* statement come between any two.  pc[p] names the next statement of p.   *)
(*                                                                         *)
(* The gates are abstracted to their verdict here, and the errors table to *)
(* terminal or transient with a class limit.                               *)
(***************************************************************************)
EXTENDS MessageQueue, FiniteSets

CONSTANTS
    Worker,         \* passes started by the process-queue job
    Flusher,        \* passes started by a storefront checkout
    Sending,        \* the passes whose SEND_MODE is mock or live
    IdentityOf,     \* the claimed_by string of each pass
    FlushAttempts,  \* the attempt limit of a flush, where a worker has MaxAttempts
    BatchSize,      \* LIMIT of claimBatch, length of flushMessages' slice
    ClassLimit,     \* maxAttempts of the transient classes of the errors table
    NoRow,          \* no row is being delivered
    MaxFaults,      \* bound of the model: statements that throw
    MaxCrashes      \* bound of the model: crashes of a pass or of the janitor

Pass == Worker \cup Flusher

Larger(a, b) == IF a < b THEN b ELSE a

ASSUME DeliveryConstants ==
    /\ Worker \cap Flusher = {}
    /\ Sending \subseteq Pass
    /\ IdentityOf \in [Pass -> Identity]
    /\ FlushAttempts \in Nat \ {0}
    /\ AttemptCap = Larger(MaxAttempts, FlushAttempts)
    /\ BatchSize \in Nat \ {0}
    /\ ClassLimit \subseteq Nat \ {0}
    /\ MaxFaults \in Nat
    /\ MaxCrashes \in Nat

VARIABLES
    pc,             \* the next statement of each pass
    batch,          \* the claimed rows (QueueRow[]) a pass has still to finish
    cur,            \* the one it is delivering
    janitor,        \* reclaimStale: "idle", or "second" between its UPDATEs
    cutoffAt,       \* the time at which the running reclaimStale read the clock
    faults, crashes,
    accepted,       \* history: the provider answered ok for this message
    handovers,      \* history: how often a refreshed claim led to provider.send
    orphaned        \* history: rows whose claimant crashed or lost the database

passVars == <<pc, batch, cur>>
janitorVars == <<janitor, cutoffAt>>
historyVars == <<accepted, handovers, orphaned>>
vars == <<queueVars, passVars, janitorVars, faults, crashes, historyVars>>

Step ==
    {"idle", "walk", "refresh", "send", "defer", "cancel", "sent", "failed",
     "retry", "log", "catch"}

\* The columns of a claimed row that deliverClaimed reads from its own copy;
\* ticket is history: the number of the claim that returned the copy.
Snapshot == [row : Row, attempts : Nat, ticket : Nat]

DeliveryInit ==
    /\ Init
    /\ pc = [p \in Pass |-> "idle"]
    /\ batch = [p \in Pass |-> {}]
    /\ cur = [p \in Pass |-> NoRow]
    /\ janitor = "idle"
    /\ cutoffAt = 0
    /\ faults = 0
    /\ crashes = 0
    /\ accepted = [r \in Row |-> FALSE]
    /\ handovers = [r \in Row |-> 0]
    /\ orphaned = {}

-----------------------------------------------------------------------------
(***************************************************************************)
(* A pass.                                                                 *)
(***************************************************************************)

Goto(p, step) == pc' = [pc EXCEPT ![p] = step]

\* Mutant of Finish: the row just delivered stays in the batch.
FinishNothing(p) ==
    /\ batch' = batch
    /\ cur' = [cur EXCEPT ![p] = NoRow]
    /\ Goto(p, "walk")

\* The pass is done with the row it was delivering: on to the next, or out.
Finish(p) ==
    LET rest == batch[p] \ {cur[p]}
    IN  /\ batch' = [batch EXCEPT ![p] = rest]
        /\ cur' = [cur EXCEPT ![p] = NoRow]
        /\ Goto(p, IF rest = {} THEN "idle" ELSE "walk")

\* The claim both entry points share.  An empty claim changes nothing and is
\* left out.
Claim(p, S) ==
    /\ pc[p] = "idle"
    /\ S # {}
    /\ Cardinality(S) <= BatchSize
    /\ ClaimRows(S, IdentityOf[p])
    /\ batch' = [batch EXCEPT ![p] =
          {[row |-> r, attempts |-> queue[r].attempts + 1,
            ticket |-> claims[r] + 1] : r \in S}]
    /\ Goto(p, "walk")
    /\ orphaned' = orphaned \ S
    /\ UNCHANGED <<cur, janitorVars, faults, crashes, accepted, handovers>>

\* processQueue: the send mode is consulted before any row is claimed.
ProcessQueue(p) ==
    /\ p \in Worker \cap Sending
    /\ \E S \in SUBSET {r \in Row : Due(r)} : Claim(p, S)

\* flushMessages: as processQueue, for the due rows among the ids it is given.
FlushMessages(p) ==
    /\ p \in Flusher \cap Sending
    /\ \E ids \in SUBSET Row : Claim(p, {r \in ids : Due(r)})

\* loadContext, runGates and resolveSender.  A gate passes the row, holds it
\* back or refuses it (as a vanished context or a missing sender does); a
\* misconfigured campaign makes the gates throw.
RunGates(p) ==
    /\ pc[p] = "walk"
    /\ \E s \in batch[p] : cur' = [cur EXCEPT ![p] = s]
    /\ \E verdict \in {"refresh", "defer", "cancel", "catch"} : Goto(p, verdict)
    /\ UNCHANGED <<queueVars, batch, janitorVars, faults, crashes, historyVars>>

\* One statement of p on its current row, after which p records a decision.
Record(p, step) ==
    /\ pc[p] = step
    /\ Goto(p, "log")
    /\ UNCHANGED <<batch, cur, janitorVars, faults, crashes, historyVars>>

RecordDeferral(p) ==
    /\ Record(p, "defer")
    /\ \E d \in DeferFor : DeferClaimed(cur[p].row, IdentityOf[p], now + d)

RecordCancel(p) ==
    /\ Record(p, "cancel")
    /\ MarkCancelled(cur[p].row, IdentityOf[p])

RecordSent(p) ==
    /\ Record(p, "sent")
    /\ MarkSent(cur[p].row, IdentityOf[p])

RecordFailed(p) ==
    /\ Record(p, "failed")
    /\ MarkFailed(cur[p].row, IdentityOf[p])

RecordRetry(p) ==
    /\ Record(p, "retry")
    /\ ScheduleRetry(cur[p].row, IdentityOf[p], Backoff[cur[p].attempts])

\* Mutant of Refresh: a lost claim goes on to the next row without finishing
\* with this one.
RefreshSkipping(p) ==
    LET r == cur[p].row
        stillOurs == Owned(r, IdentityOf[p])
    IN  /\ pc[p] = "refresh"
        /\ RefreshClaim(r, IdentityOf[p])
        /\ Goto(p, IF stillOurs THEN "send" ELSE "walk")
        /\ handovers' = [handovers EXCEPT ![r] = IF stillOurs THEN @ + 1 ELSE @]
        /\ UNCHANGED <<batch, cur, janitorVars, faults, crashes, accepted, orphaned>>

\* The last look at the claim before the irreversible write.
Refresh(p) ==
    LET r == cur[p].row
        stillOurs == Owned(r, IdentityOf[p])
    IN  /\ pc[p] = "refresh"
        /\ RefreshClaim(r, IdentityOf[p])
        /\ Goto(p, IF stillOurs THEN "send" ELSE "log")
        /\ handovers' = [handovers EXCEPT ![r] = IF stillOurs THEN @ + 1 ELSE @]
        /\ UNCHANGED <<batch, cur, janitorVars, faults, crashes, accepted, orphaned>>

\* deps.maxAttempts.
AttemptLimit(p) == IF p \in Worker THEN MaxAttempts ELSE FlushAttempts

\* Mutant of Send: attempts > limit, one attempt too many.
SendOnceMore(p) ==
    LET Exhausted(limit) == cur[p].attempts > Least(limit, AttemptLimit(p))
    IN  /\ pc[p] = "send"
        /\ \/ Goto(p, "sent") /\ accepted' = [accepted EXCEPT ![cur[p].row] = TRUE]
           \/ Goto(p, "failed") /\ UNCHANGED accepted
           \/ /\ \E limit \in ClassLimit : ~Exhausted(limit)
              /\ Goto(p, "retry") /\ UNCHANGED accepted
           \/ Goto(p, "catch") /\ UNCHANGED accepted
        /\ UNCHANGED <<queueVars, batch, cur, janitorVars, faults, crashes,
                       handovers, orphaned>>

\* provider.send answers ok, answers a terminal error, answers a transient one
\* that leaves tries or uses the last, or throws.
Send(p) ==
    LET Exhausted(limit) == cur[p].attempts >= Least(limit, AttemptLimit(p))
    IN  /\ pc[p] = "send"
        /\ \/ Goto(p, "sent") /\ accepted' = [accepted EXCEPT ![cur[p].row] = TRUE]
           \/ Goto(p, "failed") /\ UNCHANGED accepted
           \/ /\ \E limit \in ClassLimit : ~Exhausted(limit)
              /\ Goto(p, "retry") /\ UNCHANGED accepted
           \/ Goto(p, "catch") /\ UNCHANGED accepted
        /\ UNCHANGED <<queueVars, batch, cur, janitorVars, faults, crashes,
                       handovers, orphaned>>

\* recordDecision and onEvent went through.
Log(p) ==
    /\ pc[p] = "log"
    /\ Finish(p)
    /\ UNCHANGED <<queueVars, janitorVars, faults, crashes, historyVars>>

\* A database statement of p throws and has written nothing.  (One that wrote
\* before the connection broke is a Throw at "log".)
Throw(p) ==
    /\ pc[p] \in {"refresh", "defer", "cancel", "sent", "failed", "retry", "log"}
    /\ faults < MaxFaults
    /\ faults' = faults + 1
    /\ Goto(p, "catch")
    /\ UNCHANGED <<queueVars, batch, cur, janitorVars, crashes, historyVars>>

\* Mutant of Catch: the exception leaves the loop and abandons the batch.
CatchAbandoning(p) ==
    /\ pc[p] = "catch"
    /\ MarkFailed(cur[p].row, IdentityOf[p])
    /\ batch' = [batch EXCEPT ![p] = {}]
    /\ cur' = [cur EXCEPT ![p] = NoRow]
    /\ Goto(p, "idle")
    /\ UNCHANGED <<janitorVars, faults, crashes, historyVars>>

\* deliverOneSafely: an exception is recorded as the failure of this message.
Catch(p) ==
    /\ pc[p] = "catch"
    /\ MarkFailed(cur[p].row, IdentityOf[p])
    /\ Finish(p)
    /\ UNCHANGED <<janitorVars, faults, crashes, historyVars>>

\* The rows of S whose claim is still the one their snapshot came from.
StillHeld(S) == {s.row : s \in {t \in S : t.ticket = claims[t.row]}}

\* ... unless that statement throws too: the row is left to reclaim-stale.
CatchFails(p) ==
    /\ pc[p] = "catch"
    /\ faults < MaxFaults
    /\ faults' = faults + 1
    /\ orphaned' = orphaned \cup StillHeld({cur[p]})
    /\ Finish(p)
    /\ UNCHANGED <<queueVars, janitorVars, crashes, accepted, handovers>>

\* The process dies, or is shut down: its claims stay in the table.
Crash(p) ==
    /\ pc[p] # "idle"
    /\ crashes < MaxCrashes
    /\ crashes' = crashes + 1
    /\ orphaned' = orphaned \cup StillHeld(batch[p])
    /\ batch' = [batch EXCEPT ![p] = {}]
    /\ cur' = [cur EXCEPT ![p] = NoRow]
    /\ Goto(p, "idle")
    /\ UNCHANGED <<queueVars, janitorVars, faults, accepted, handovers>>

PassStep(p) ==
    \/ RunGates(p)
    \/ RecordDeferral(p) \/ RecordCancel(p)
    \/ RecordSent(p) \/ RecordFailed(p) \/ RecordRetry(p)
    \/ Refresh(p)
    \/ Send(p)
    \/ Log(p)
    \/ Catch(p)

-----------------------------------------------------------------------------
(***************************************************************************)
(* The reclaim-stale job, and the environment.                             *)
(***************************************************************************)

\* The first UPDATE.  A run that finds no stale row changes nothing (a cutoff
\* only gets older) and is left out.
ReclaimStale ==
    /\ janitor = "idle"
    /\ \E r \in Row : Stale(r, now)
    /\ ReclaimReturn(now)
    /\ janitor' = "second"
    /\ cutoffAt' = now
    /\ UNCHANGED <<passVars, faults, crashes, historyVars>>

\* The second UPDATE, outside any transaction with the first, same cutoff.
ReclaimStaleSecond ==
    /\ janitor = "second"
    /\ ReclaimExhaust(cutoffAt)
    /\ janitor' = "idle"
    /\ cutoffAt' = 0
    /\ UNCHANGED <<passVars, faults, crashes, historyVars>>

JanitorCrash ==
    /\ janitor = "second"
    /\ crashes < MaxCrashes
    /\ crashes' = crashes + 1
    /\ janitor' = "idle"
    /\ cutoffAt' = 0
    /\ UNCHANGED <<queueVars, passVars, faults, historyVars>>

\* Enqueueing, the delivery-anchor jobs, cancellation by an operator, an opt-out
\* or a stop condition, and the provider's receipts.
Environment ==
    /\ \/ \E r \in Row, at \in SendTime \cup {Infinity} : Enqueue(r, at)
       \/ \E r \in Row, at \in SendTime : ResolveAnchor(r, at)
       \/ \E S \in SUBSET Row : ExpireAnchors(S)
       \/ \E r \in Row : CancelRow(r)
       \/ \E r \in Row, verdict \in Verdict : ProviderReceipt(r, verdict)
    /\ UNCHANGED <<passVars, janitorVars, faults, crashes, historyVars>>

TimePasses ==
    /\ Tick
    /\ UNCHANGED <<passVars, janitorVars, faults, crashes, historyVars>>

DeliveryNext ==
    \/ \E p \in Pass :
          \/ ProcessQueue(p)
          \/ FlushMessages(p)
          \/ PassStep(p)
          \/ Throw(p) \/ CatchFails(p) \/ Crash(p)
    \/ ReclaimStale
    \/ ReclaimStaleSecond
    \/ JanitorCrash
    \/ Environment
    \/ TimePasses

DeliverySpec == DeliveryInit /\ [][DeliveryNext]_vars

\* Time passes, and cron starts reclaim-stale again after every run of it.
\* Nothing is assumed of the passes: they may hang or be gone.
JanitorFairness ==
    /\ WF_vars(TimePasses)
    /\ WF_vars(ReclaimStale)
    /\ WF_vars(ReclaimStaleSecond)

JanitorSpec == DeliverySpec /\ JanitorFairness

\* A pass that runs goes on running: its statements and the provider's calls
\* return or throw.
PassFairness == \A p \in Pass : WF_vars(PassStep(p))

-----------------------------------------------------------------------------
(***************************************************************************)
(* Properties.                                                             *)
(***************************************************************************)

DeliveryTypeOK ==
    /\ QueueTypeOK
    /\ pc \in [Pass -> Step]
    /\ batch \in [Pass -> SUBSET Snapshot]
    /\ \A p \in Pass :
          /\ pc[p] \in {"idle", "walk"} => cur[p] = NoRow
          /\ pc[p] \notin {"idle", "walk"} => cur[p] \in batch[p]
          /\ pc[p] = "idle" => batch[p] = {}
    /\ janitor \in {"idle", "second"}
    /\ cutoffAt \in 0..now
    /\ faults \in Nat
    /\ crashes \in Nat
    /\ accepted \in [Row -> BOOLEAN]
    /\ handovers \in [Row -> Nat]
    /\ orphaned \subseteq Row

\* No two passes run under one claimed_by string.
DistinctIdentities ==
    \A p, q \in Pass : IdentityOf[p] = IdentityOf[q] => p = q

\* The ownership fence is exact: if the fence lets a pass write a row it once
\* claimed, then the claim on the row is still the very claim that pass took.
\* A pass whose row was reclaimed and claimed again therefore writes nothing.
FenceExact ==
    \A p \in Pass : \A s \in batch[p] :
        Owned(s.row, IdentityOf[p]) => s.ticket = claims[s.row]

\* Every hand-over to the provider was counted as an attempt, whatever is
\* reclaimed, deferred, retried or lost in between.
HandoversCounted ==
    \A r \in Row : handovers[r] <= queue[r].attempts

\* No message is tried more often than the largest limit of its callers, and
\* one that waits to be claimed has a try left, although no claim looks.
AttemptsBounded ==
    \A r \in Row :
        /\ queue[r].attempts <= AttemptCap
        /\ queue[r].status = "pending" => queue[r].attempts < AttemptCap

\* A row in flight is in the batch of the pass that claimed it, unless that
\* pass died or could not reach the database: no poison row makes a pass
\* abandon the rest of its batch.
ClaimsAttended ==
    \A r \in Row : queue[r].status = "processing" =>
        \/ r \in orphaned
        \/ \E p \in Pass : \E s \in batch[p] : s.row = r /\ s.ticket = claims[r]

\* No claim outlives its stale window: whatever became of the pass that took
\* it, a row claimed at time t is released, or its claim refreshed, once the
\* clock is past t + StaleAfter.  (The clock of the model stops at MaxTime.)
StaleClaimsReleased ==
    \A r \in Row : \A t \in 0..MaxTime :
        LET held == queue[r].status = "processing" /\ queue[r].claimedAt = t
        IN  (held /\ t + StaleAfter < MaxTime) ~> ~held

\* Every pass that goes on running comes to an end, whatever its rows, its
\* statements and the provider do: no row is delivered over and over in a pass.
PassesEnd == PassFairness => \A p \in Pass : pc[p] # "idle" ~> pc[p] = "idle"

\* A message with a sent_at was taken by the provider, and is never again
\* waiting, in flight or cancelled: no late retry, deferral, cancellation or
\* reclaim lands on it.
SentMeansAccepted ==
    \A r \in Row :
        /\ queue[r].status = "sent" => queue[r].sentAt
        /\ queue[r].sentAt => /\ accepted[r]
                              /\ queue[r].status \in {"sent"} \cup Verdict

\* Once a message is marked sent, only the provider's receipts change its row:
\* no pass does, however late it comes with its own outcome, and no reclaim.
SentIsFinal ==
    [][\A r \in Row :
          /\ queue[r].sentAt
          /\ pc' # pc \/ janitor' # janitor
          => queue'[r] = queue[r]]_vars

(***************************************************************************)
(* Statements of the source that the code does not keep.                   *)
(***************************************************************************)

\* "A message that reached the provider must never be recorded as failed,
\* whatever went wrong afterwards" (message-queue.ts, markFailed).  A receipt,
\* which only a row with a sent_at gets, may still say so.
AcceptedNeverFailed ==
    \A r \in Row : ~(accepted[r] /\ queue[r].status = "failed" /\ ~queue[r].sentAt)

=============================================================================
