---------------------------- MODULE MC_DailyRun ----------------------------
(* Instances of DailyRun for TLC: a day that comes and goes with its       *)
(* marker, and one whose files or marker may be missing.                   *)
EXTENDS DailyRun

Looks == [d \in Day |-> IF d = 1 THEN {"gone", "marked"} ELSE {"marked", "unmarked", "empty"}]
=============================================================================
