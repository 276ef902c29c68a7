----------------------------- MODULE Retention -----------------------------
(***************************************************************************)
(* What the retention of a cluster's results promises, whatever runs, is   *)
(* cut short or waits: results of a build month go as a whole, only when   *)
(* they have expired and are not those of the current version, and never   *)
(* come back.                                                              *)
(***************************************************************************)
EXTENDS Naturals

CONSTANTS
    Months,    \* the months with builds, numbered one after the other
    LastMonth, \* bound of the clock
    Keeps      \* the numbers of whole months a configuration may retain

VARIABLES
    clock,     \* the month it is
    version,   \* the build month of the current version, 0 without one
    kept,      \* months whose results are there
    cleaned    \* months whose results have been removed

vars == <<clock, version, kept, cleaned>>

expired(month, current, months) == month + months < current

Init ==
    /\ clock \in 1 .. LastMonth
    /\ version = 0
    /\ kept = {}
    /\ cleaned = {}

(* Time passes. *)
Tick ==
    /\ clock < LastMonth
    /\ clock' = clock + 1
    /\ UNCHANGED <<version, kept, cleaned>>

(* A build prepares this month, and the next one when it can. *)
Open ==
    /\ \E opened \in SUBSET ({clock, clock + 1} \cap Months) :
          /\ opened \cap cleaned = {}
          /\ kept' = kept \cup opened
    /\ UNCHANGED <<clock, version, cleaned>>

(* A build is published; it may have begun in an earlier month. *)
Publish ==
    /\ version' \in kept
    /\ UNCHANGED <<clock, kept, cleaned>>

(* The results of one month are removed. *)
Remove ==
    /\ \E m \in kept \ {version} :
          /\ \E k \in Keeps : expired(m, clock, k)
          /\ kept' = kept \ {m}
          /\ cleaned' = cleaned \cup {m}
    /\ UNCHANGED <<clock, version>>

Next == Tick \/ Open \/ Publish \/ Remove

Spec == Init /\ [][Next]_vars

(* The current version can always be read: its month is never removed. *)
VersionKept == version \in kept \cup {0}

(* A month that was removed stays removed. *)
RemovedForGood == kept \cap cleaned = {}
=============================================================================
