-------------------------- MODULE MessageLifecycle --------------------------
(***************************************************************************)
(* What the message queue promises about one message, whoever calls it and *)
(* in whatever order: the life cycle of migrations/0005 (message_queue     *)
(* .status) as an abstract specification.                                  *)
(*                                                                         *)
(* A message is submitted once, is taken and returned any number of times, *)
(* and is settled exactly once.  A settled message never waits again, and only *)
(* receipts change one that was sent.  Every take is one try, and a return *)
(* may refund the try of the take it undoes, never more.                   *)
(***************************************************************************)
EXTENDS Naturals

CONSTANT Message

VARIABLES
    state,      \* the stage of each message
    tries       \* takes that were not refunded

lifecycleVars == <<state, tries>>

Settled == {"sent", "failed", "cancelled"}
Reported == {"delivered", "bounced", "complained", "undelivered"}

Init ==
    /\ state = [m \in Message |-> "absent"]
    /\ tries = [m \in Message |-> 0]

\* The messages of M go from one of the stages `from` to the stage `to`.
Move(M, from, to) ==
    /\ \A m \in M : state[m] \in from
    /\ state' = [m \in Message |-> IF m \in M THEN to ELSE state[m]]

Submit(m) ==
    /\ Move({m}, {"absent"}, "pending")
    /\ UNCHANGED tries

Take(M) ==
    /\ Move(M, {"pending"}, "processing")
    /\ tries' = [m \in Message |-> IF m \in M THEN tries[m] + 1 ELSE tries[m]]

Return(M) ==
    /\ Move(M, {"processing"}, "pending")
    /\ UNCHANGED tries

Refund(m) ==
    /\ tries[m] > 0
    /\ Move({m}, {"processing"}, "pending")
    /\ tries' = [tries EXCEPT ![m] = @ - 1]

Settle(M, outcome) ==
    /\ Move(M, {"processing"}, outcome)
    /\ UNCHANGED tries

Withdraw(M) ==
    /\ Move(M, {"pending", "processing"}, "cancelled")
    /\ UNCHANGED tries

\* Receipts come in any order, and the last one stands.
Report(m, verdict) ==
    /\ Move({m}, {"sent"} \cup Reported, verdict)
    /\ UNCHANGED tries

Next ==
    \/ \E m \in Message : Submit(m) \/ Refund(m)
    \/ \E m \in Message, verdict \in Reported : Report(m, verdict)
    \/ \E M \in SUBSET Message :
          \/ Take(M)
          \/ Return(M)
          \/ Withdraw(M)
          \/ \E outcome \in Settled : Settle(M, outcome)

Spec == Init /\ [][Next]_lifecycleVars

=============================================================================
