------------------------- MODULE MC_QueryProjection -------------------------
(* An instance of QueryProjection for TLC. *)
EXTENDS QueryProjection, TLC

CONSTANTS i1, i2, tr, pe, none, unreliable

\* Two files that share a text; two events of one text, one without an end.
Files == (i1 :> <<{[id |-> "e1", text |-> "a", end |-> 2]},
                  {[id |-> "e2", text |-> "b", end |-> none]}>>)
      @@ (i2 :> <<{[id |-> "e3", text |-> "a", end |-> 1]}>>)

Rules == (i1 :> "r1") @@ (i2 :> "r1") @@ (tr :> "r2")

\* One structure under the first rule; one text is not reliable under the other.
Values == ("r1" :> ("a" :> "v" @@ "b" :> "v"))
       @@ ("r2" :> ("a" :> "v" @@ "b" :> unreliable))
=============================================================================
