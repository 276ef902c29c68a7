--------------------------- MODULE MC_Association ---------------------------
(* An instance of Association for TLC. *)
EXTENDS Association, TLC

CONSTANTS s1, s2, s3, s4, a, b, none

Alike == Permutations({s1, s2, s3})
=============================================================================
