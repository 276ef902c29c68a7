----------------------------- MODULE MC_Upgrade -----------------------------
(* Instances of Upgrade for TLC. *)
EXTENDS Upgrade

=============================================================================
