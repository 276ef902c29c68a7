------------------------- MODULE MC_NormalizingPool -------------------------
(* Instances of NormalizingPool for TLC. *)
EXTENDS NormalizingPool

=============================================================================
