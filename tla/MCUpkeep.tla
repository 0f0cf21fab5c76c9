------------------------------ MODULE MCUpkeep ------------------------------
(***************************************************************************)
(* Provider callbacks and scheduled jobs for TLC: one behaviour exercises  *)
(* one of them (part), the other resting in its initial state, so that the *)
(* fairness of the part at rest asks for nothing.                          *)
(***************************************************************************)
EXTENDS Webhooks, Scheduler, TLC

VARIABLE part

CONSTANTS w1, w2, r1, r2, r3

MCHome == r1 :> w1 @@ r2 :> w1 @@ r3 :> w2

upkeepVars == <<hookVars, schedulerVars, part>>

UpkeepInit ==
    /\ part \in {"webhooks", "jobs"}
    /\ HooksInit /\ SchedulerInit
    /\ part # "webhooks" => forms = {}

UpkeepNext ==
    /\ UNCHANGED part
    /\ \/ part = "webhooks" /\ HooksNext /\ UNCHANGED schedulerVars
       \/ part = "jobs" /\ SchedulerNext /\ UNCHANGED hookVars

UpkeepSpec == UpkeepInit /\ [][UpkeepNext]_upkeepVars

(***************************************************************************)
(* What the event store promises of every callback, redelivered, forged or *)
(* cut short by a crash: a provider's event is applied once, a bounce that *)
(* was applied has suppressed its address, and a body that could not be    *)
(* applied is kept for a replay.                                           *)
(***************************************************************************)
EventStoreHolds == part = "webhooks" =>
    HooksTypeOK /\ AppliedOnce /\ BounceSuppressed /\ KeptForReplay

(***************************************************************************)
(* What the rollups promise: outside a rebuild that is under way or was    *)
(* cut short, the statistics of a day are those of its last rebuild,       *)
(* however runs, the script and lost sessions overlap.                     *)
(***************************************************************************)
StatsHold == part = "jobs" => SchedulerTypeOK /\ StatsAreTheLastRebuild

=============================================================================
