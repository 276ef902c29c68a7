--------------------------- MODULE MC_RawRemoval ---------------------------
(* Instances of RawRemoval for TLC. *)
EXTENDS RawRemoval

CONSTANTS f1, f2, f3, s1
=============================================================================
