---------------------------- MODULE MCSendGates ----------------------------
(***************************************************************************)
(* The constants of SendGates for TLC: a marketing category and receipts.  *)
(***************************************************************************)
EXTENDS SendGates, TLC

CONSTANT
    MaxTroubled     \* the messages that meet every disturbance

MCCategory == {"promotional", "transactional"}
MCToggles == <<"promotional">>
MCQuietExempt == {"transactional"}

MCMarketing == [m \in Message |-> "promotional"]
MCReceipts == [m \in Message |-> "transactional"]

Symmetric == Permutations(Message) \cup Permutations(Pass)

\* The first messages meet everything; together with the others, which the cap needs
\* to be overrun by more than it may be, they meet one disturbance: a row of the
\* ledger, or a pass that dies or whose claim is taken away.
CrowdInPeace ==
    Cardinality({m \in Message : queue[m] # "absent"}) > MaxTroubled
       => Len(ledger) + reclaims <= 1

=============================================================================
