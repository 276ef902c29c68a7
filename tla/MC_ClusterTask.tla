--------------------------- MODULE MC_ClusterTask ---------------------------
(* An instance of ClusterTask for TLC. *)
EXTENDS ClusterTask, TLC

CONSTANTS c1, c2

\* Two commands that publish; one of them imports first.
PublishModes == (c1 :> "rebuild") @@ (c2 :> "full")

=============================================================================
