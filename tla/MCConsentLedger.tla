-------------------------- MODULE MCConsentLedger --------------------------
(***************************************************************************)
(* The constants of ConsentLedger for TLC: two categories to toggle, and   *)
(* marketing messages.                                                     *)
(***************************************************************************)
EXTENDS ConsentLedger

MCCategory == {"lifecycle", "promotional", "transactional"}
MCToggles == <<"lifecycle", "promotional">>
MCCategoryOf == [m \in Message |-> "promotional"]

=============================================================================
