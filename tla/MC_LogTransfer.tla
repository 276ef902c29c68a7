--------------------------- MODULE MC_LogTransfer ---------------------------
(* An instance of LogTransfer for TLC: one file of the first day and two   *)
(* of the second.                                                          *)
EXTENDS LogTransfer

Named == [f \in File |-> IF f = 1 THEN 1 ELSE 2]
=============================================================================
