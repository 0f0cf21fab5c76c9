--------------------------- MODULE MCMessageQueue ---------------------------
(***************************************************************************)
(* The constants of MessageQueue for TLC.  One tick stands for the unit    *)
(* the instance needs: the backoff doubles with the attempts as            *)
(* 2^attempts minutes do, and a claim is stale after one full tick.        *)
(***************************************************************************)
EXTENDS MessageQueue

MCBackoff == [a \in 1..AttemptCap |-> a]
MCSendTime == {0, 1}
MCDeferFor == {0, 2}

=============================================================================
