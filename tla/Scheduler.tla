----------------------------- MODULE Scheduler -----------------------------
(***************************************************************************)
(* The job runner (packages/worker/src/job-runner.ts) with the worker      *)
(* processes that tick it (index.ts) and the rollup job as its body        *)
(* (jobs/rollups.ts).  A run holds one connection of its process's pool    *)
(* for the advisory lock and takes further ones for every statement; the   *)
(* lock goes with the session; the statistics of a range of days are       *)
(* deleted and then inserted again, by the job and, with no lock, by the   *)
(* script that rebuilds all of them (scripts/rollups-rebuild.ts).          *)
(***************************************************************************)
EXTENDS Integers, FiniteSets

CONSTANTS
    Worker, Run,
    Home,           \* the process each run is started by
    Script,         \* the rebuild script, as a further run
    NoRun,
    PoolSize,
    Window,         \* how many days back the job rebuilds
    MaxDay, MaxEvents, MaxFaults        \* bounds

Rebuilder == Run \cup {Script}
Days == 0..MaxDay

ASSUME SchedulerConstants ==
    /\ Home \in [Run -> Worker] /\ Script \notin Run /\ NoRun \notin Rebuilder
    /\ {PoolSize, Window, MaxDay, MaxEvents, MaxFaults} \subseteq Nat

VARIABLES
    date,           \* today
    happened,       \* message_events of each day, also late ones
    stats,          \* campaign_daily_stats: events counted for each day, 0 for no row
    step,           \* where each rebuilder is
    range,          \* the days it rebuilds
    lock,           \* the run whose session holds the advisory lock
    up,             \* processes that are running
    faults,
    crowded,        \* history: all connections of some pool were held by runs
    unlocked,       \* history: a session was lost while its run went on
    torn,           \* history: days deleted by a rebuild that never inserted them
    counted         \* history: the last number inserted for a day

schedulerVars == <<date, happened, stats, step, range, lock, up, faults,
                   crowded, unlocked, torn, counted>>
schedulerHistory == <<crowded, unlocked, torn, counted>>

Step == {"idle", "connect", "lock", "skip", "start", "delete", "insert", "ok", "failed", "unlock"}

SchedulerInit ==
    /\ date = 0 /\ happened = [d \in Days |-> 0] /\ stats = [d \in Days |-> 0]
    /\ step = [r \in Rebuilder |-> "idle"] /\ range = [r \in Rebuilder |-> {}]
    /\ lock = NoRun /\ up = Worker /\ faults = 0
    /\ crowded = FALSE /\ unlocked = FALSE /\ torn = {} /\ counted = [d \in Days |-> 0]

-----------------------------------------------------------------------------
(* The pool of a process *)

Holds(r) == step[r] \notin {"idle", "connect"}
Held(w) == {r \in Run : Home[r] = w /\ Holds(r)}
Spare(w) == Cardinality(Held(w)) < PoolSize

\* A statement on the pool; the script has a pool to itself.
CanQuery(r) == r # Script => Spare(Home[r])

From(r, here) == step[r] = here
To(r, there) == step' = [step EXCEPT ![r] = there]

-----------------------------------------------------------------------------
(* runJob *)

\* node-cron starts a run whether or not the last one has ended.
Tick(r) ==
    /\ From(r, "idle") /\ Home[r] \in up
    /\ To(r, "connect")
    /\ UNCHANGED <<date, happened, stats, range, lock, up, faults, schedulerHistory>>

Connect(r) ==
    /\ From(r, "connect") /\ Spare(Home[r])
    /\ To(r, "lock")
    /\ crowded' = (crowded \/ Cardinality(Held(Home[r])) + 1 = PoolSize)
    /\ UNCHANGED <<date, happened, stats, range, lock, up, faults, unlocked, torn, counted>>

\* Mutant of TryLock: a lock that is taken is not a reason to stop.
TryLockAnyway(r) ==
    /\ From(r, "lock") /\ To(r, "start")
    /\ lock' = IF lock = NoRun THEN r ELSE lock
    /\ UNCHANGED <<date, happened, stats, range, up, faults, schedulerHistory>>

\* pg_try_advisory_lock, on the connection of the run.
TryLock(r) ==
    /\ From(r, "lock")
    /\ To(r, IF lock = NoRun THEN "start" ELSE "skip")
    /\ lock' = IF lock = NoRun THEN r ELSE lock
    /\ UNCHANGED <<date, happened, stats, range, up, faults, schedulerHistory>>

\* Its row in job_runs: skipped_locked, or running.
InsertRun(r) ==
    /\ step[r] \in {"skip", "start"}
    /\ CanQuery(r)
    /\ To(r, IF From(r, "skip") THEN "unlock" ELSE "delete")
    /\ UNCHANGED <<date, happened, stats, range, lock, up, faults, schedulerHistory>>

\* The last days, or for the script every day that has events.
DaysOf(r) == IF r = Script THEN {d \in Days : \E a, b \in Days : a <= d /\ d <= b /\ happened[a] > 0 /\ happened[b] > 0}
                           ELSE {d \in Days : date - Window <= d /\ d <= date}

\* The script empties the table before it rebuilds.
DeleteDays(r) ==
    LET gone == IF r = Script THEN Days ELSE DaysOf(r) IN
    /\ From(r, "delete") /\ CanQuery(r)
    /\ stats' = [d \in Days |-> IF d \in gone THEN 0 ELSE stats[d]]
    /\ range' = [range EXCEPT ![r] = DaysOf(r)]
    /\ torn' = torn \cup {d \in gone : stats[d] > 0}
    /\ To(r, "insert")
    /\ UNCHANGED <<date, happened, lock, up, faults, crowded, unlocked, counted>>

\* Mutant of InsertDays: the counts are added to what is there.
InsertDaysAdding(r) ==
    /\ From(r, "insert") /\ CanQuery(r)
    /\ stats' = [d \in Days |-> IF d \in range[r] THEN stats[d] + happened[d] ELSE stats[d]]
    /\ torn' = torn \ range[r]
    /\ counted' = [d \in Days |-> IF d \in range[r] THEN happened[d] ELSE counted[d]]
    /\ To(r, "ok")
    /\ UNCHANGED <<date, happened, range, lock, up, faults, crowded, unlocked>>

\* One INSERT ... SELECT; a day that another rebuild has inserted meanwhile is a
\* duplicate key, and then nothing is inserted.
InsertDays(r) ==
    /\ From(r, "insert") /\ CanQuery(r)
    /\ IF \E d \in range[r] : happened[d] > 0 /\ stats[d] > 0
       THEN To(r, "failed") /\ UNCHANGED <<stats, torn, counted>>
       ELSE /\ stats' = [d \in Days |-> IF d \in range[r] THEN happened[d] ELSE stats[d]]
            /\ torn' = torn \ range[r]
            /\ counted' = [d \in Days |-> IF d \in range[r] THEN happened[d] ELSE counted[d]]
            /\ To(r, "ok")
    /\ UNCHANGED <<date, happened, range, lock, up, faults, crowded, unlocked>>

\* The outcome is recorded on the pool.
Record(r) ==
    /\ step[r] \in {"ok", "failed"}
    /\ CanQuery(r)
    /\ To(r, IF r = Script THEN "idle" ELSE "unlock")
    /\ range' = [range EXCEPT ![r] = {}]
    /\ UNCHANGED <<date, happened, stats, lock, up, faults, schedulerHistory>>

\* Mutant of Unlock: the connection goes back to the pool with its lock.
UnlockNot(r) ==
    /\ From(r, "unlock") /\ To(r, "idle")
    /\ UNCHANGED <<date, happened, stats, range, lock, up, faults, schedulerHistory>>

\* finally: the lock is released on the session that took it, and the connection.
Unlock(r) ==
    /\ From(r, "unlock") /\ To(r, "idle")
    /\ lock' = IF lock = r THEN NoRun ELSE lock
    /\ UNCHANGED <<date, happened, stats, range, up, faults, schedulerHistory>>

-----------------------------------------------------------------------------
(* What goes wrong *)

Halt(w) ==
    /\ up' = up \ {w}
    /\ step' = [r \in Rebuilder |-> IF r \in Run /\ Home[r] = w THEN "idle" ELSE step[r]]
    /\ range' = [r \in Rebuilder |-> IF r \in Run /\ Home[r] = w THEN {} ELSE range[r]]
    /\ lock' = IF lock # NoRun /\ Home[lock] = w THEN NoRun ELSE lock

\* A statement of the body, or the record of its success, throws: caught, and
\* recorded as a failure.
BodyFails(r) ==
    /\ step[r] \in {"delete", "insert", "ok"} /\ faults < MaxFaults
    /\ To(r, IF r = Script THEN "idle" ELSE "failed")
    /\ faults' = faults + 1
    /\ UNCHANGED <<date, happened, stats, range, lock, up, schedulerHistory>>

\* Any other statement of runJob: nothing awaits the promise, and an unhandled
\* rejection ends the process with all its runs.
RejectionEscapes(r) ==
    /\ step[r] \in {"connect", "lock", "skip", "start", "failed"} /\ faults < MaxFaults
    /\ faults' = faults + 1
    /\ Halt(Home[r])
    /\ UNCHANGED <<date, happened, stats, schedulerHistory>>

WorkerDies(w) ==
    /\ w \in up /\ faults < MaxFaults
    /\ faults' = faults + 1
    /\ Halt(w)
    /\ UNCHANGED <<date, happened, stats, schedulerHistory>>

WorkerStarts(w) ==
    /\ w \notin up /\ up' = up \cup {w}
    /\ UNCHANGED <<date, happened, stats, step, range, lock, faults, schedulerHistory>>

\* The server ends the session while the process still runs the body.
LoseSession ==
    /\ lock # NoRun /\ faults < MaxFaults
    /\ faults' = faults + 1
    /\ lock' = NoRun /\ unlocked' = TRUE
    /\ UNCHANGED <<date, happened, stats, step, range, up, crowded, torn, counted>>

RunScript ==
    /\ From(Script, "idle") /\ faults < MaxFaults
    /\ faults' = faults + 1
    /\ To(Script, "delete")
    /\ UNCHANGED <<date, happened, stats, range, lock, up, schedulerHistory>>

-----------------------------------------------------------------------------
\* An event is recorded; a provider may report one of an earlier day.
Event(d) ==
    /\ d <= date /\ happened[d] < MaxEvents
    /\ happened' = [happened EXCEPT ![d] = @ + 1]
    /\ UNCHANGED <<date, stats, step, range, lock, up, faults, schedulerHistory>>

DayEnds ==
    /\ date < MaxDay
    /\ date' = date + 1
    /\ UNCHANGED <<happened, stats, step, range, lock, up, faults, schedulerHistory>>

RunJob(r) == Connect(r) \/ TryLock(r) \/ Unlock(r)
Rebuild(r) == InsertRun(r) \/ DeleteDays(r) \/ InsertDays(r) \/ Record(r)

SchedulerNext ==
    \/ \E r \in Run : Tick(r) \/ RunJob(r) \/ RejectionEscapes(r)
    \/ \E r \in Rebuilder : Rebuild(r) \/ BodyFails(r)
    \/ \E w \in Worker : WorkerDies(w) \/ WorkerStarts(w)
    \/ LoseSession \/ RunScript \/ DayEnds
    \/ \E d \in Days : Event(d)

SchedulerSpec == SchedulerInit /\ [][SchedulerNext]_schedulerVars

\* Cron ticks, statements return or throw, and the platform restarts a process.
SchedulerFairness ==
    /\ \A r \in Run : WF_schedulerVars(Tick(r)) /\ SF_schedulerVars(RunJob(r))
    /\ \A r \in Rebuilder : SF_schedulerVars(Rebuild(r))
    /\ \A w \in Worker : WF_schedulerVars(WorkerStarts(w))

-----------------------------------------------------------------------------
SchedulerTypeOK ==
    /\ date \in Days /\ happened \in [Days -> 0..MaxEvents]
    /\ step \in [Rebuilder -> Step] /\ range \in [Rebuilder -> SUBSET Days]
    /\ lock \in Run \cup {NoRun} /\ (lock # NoRun => Holds(lock))
    /\ up \subseteq Worker /\ \A r \in Run : step[r] # "idle" => Home[r] \in up
    /\ \A w \in Worker : Cardinality(Held(w)) <= PoolSize
    /\ \A d \in Days : stats[d] <= happened[d]

InBody(r) == step[r] \in {"start", "delete", "insert", "ok", "failed"}

(***************************************************************************)
(* One body at a time, over all processes, as long as no session was lost  *)
(* (job-runner.ts: "a second worker replica does not double-run it").      *)
(***************************************************************************)
OneBody == unlocked \/ \A r, q \in Run : InBody(r) /\ InBody(q) => r = q

(***************************************************************************)
(* The statistics of a day are those of its last rebuild, except between   *)
(* the two statements of a rebuild and after one that did not get to the   *)
(* second; a run that overlaps another one, or the script, adds nothing    *)
(* and takes nothing away.                                                 *)
(***************************************************************************)
StatsAreTheLastRebuild ==
    \A d \in Days \ torn : stats[d] = counted[d]

(***************************************************************************)
(* The days the job still looks at are right again and again, through      *)
(* crashes, failed runs and lost sessions, unless at some time every       *)
(* connection of a pool was held by runs, each waiting for one more.       *)
(***************************************************************************)
RollupsCatchUp ==
    SchedulerFairness /\ []~crowded =>
        []<>(\A d \in Days : date - Window <= d /\ d <= date => stats[d] = happened[d])
=============================================================================
