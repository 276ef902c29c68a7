-------------------------- MODULE MC_ResultCleanup --------------------------
(* Instances of ResultCleanup for TLC. *)
EXTENDS ResultCleanup

CONSTANT r1

=============================================================================
