----------------------------- MODULE SealedDays -----------------------------
(***************************************************************************)
(* What the transfer of log files promises to the import, whatever is cut  *)
(* short on the way: a day is sealed once, with all the files that one     *)
(* look at the source found of it, and at least one; a sealed day never    *)
(* changes again.                                                          *)
(***************************************************************************)
CONSTANTS
    Day,       \* days that are over
    Contents,  \* what a directory may hold of one day
    Nothing,   \* the content without a file
    Open       \* a day that is not sealed

VARIABLES
    found,     \* what looks at the source found, per day
    received   \* the content a day was sealed with, or Open

vars == <<found, received>>

Init ==
    /\ found = [d \in Day |-> {}]
    /\ received = [d \in Day |-> Open]

(* Somebody looks at the source. *)
Look ==
    /\ found' \in [Day -> SUBSET Contents]
    /\ \A d \in Day : found[d] \subseteq found'[d]
    /\ UNCHANGED received

(* A day has arrived as one look found it. *)
Seal(d) ==
    /\ received[d] = Open
    /\ \E content \in found[d] \ {Nothing} :
          received' = [received EXCEPT ![d] = content]
    /\ UNCHANGED found

Next == Look \/ \E d \in Day : Seal(d)

Spec == Init /\ [][Next]_vars
=============================================================================
