---------------------------- MODULE MC_Importer ----------------------------
(* Instances of Importer for TLC. *)
EXTENDS Importer

CONSTANTS b1, b2, p1, p2, c1, c2, c3, k

(* A batch of two paths that may be submitted with one left out, and a     *)
(* batch of one path.                                                      *)
TwoLists == [b \in Batch |-> IF b = b1 THEN {<<p1, p2>>, <<p2>>} ELSE {<<p2>>}]

(* The second path bears a confirmed name. *)
Named == [p \in Path |-> IF p = p2 THEN k ELSE NoKey]

(* The first path is given; the second has the same content, one that      *)
(* overlaps it, or another.                                                *)
FirstGiven == {c \in [Path -> Content] : c[p1] = c1}

(* Two of the contents overlap. *)
OnePair == {{c1, c3}}

=============================================================================
