----------------------------- MODULE MCDelivery -----------------------------
(***************************************************************************)
(* The constants of Delivery for TLC: a worker pass and a storefront       *)
(* flush, under identities of their own.                                   *)
(***************************************************************************)
EXTENDS Delivery

MCBackoff == [a \in 1..AttemptCap |-> a]
MCSendTime == {0}
MCDeferFor == {1}
MCClassLimit == {1, AttemptCap}

\* One identity per pass.
MCDistinct == [p \in Pass |-> p]

=============================================================================
