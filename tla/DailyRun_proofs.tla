-------------------------- MODULE DailyRun_proofs --------------------------
(***************************************************************************)
(* The safety of the records of DailyRun, for any clusters, days, looks,   *)
(* runs and stops: the open problems are the last conclusions, and a run   *)
(* that says it succeeded did everything.                                  *)
(*                                                                         *)
(* The list of open problems is computed from the rows of all runs.  What  *)
(* makes it right is a fact about the rows of each day (DayInv): no run    *)
(* after the last one that concluded about the day has a row that says     *)
(* anything of it, and that run's row says exactly what it concluded.      *)
(***************************************************************************)
EXTENDS DailyRun, SequenceTheorems, WellFoundedInduction, TLAPS

(* The row of run n about cluster c. *)
Row(n, c) == runs[n].turns[c]

(* What the rows say of a day.  The last run to conclude, if there is one, *)
(* looked at the day or imported everything, and its row has exactly what  *)
(* it said; no row of a later run has anything.                            *)
DayOK(c, d) ==
    /\ last[c][d].run \in 0 .. This
    /\ last[c][d].run = 0 => last[c][d].said = {}
    /\ last[c][d].run > 0 =>
          /\ last[c][d].said = KindsFound(c, last[c][d].run, d)
          /\ \/ Row(last[c][d].run, c).import = "done"
             \/ d \in Row(last[c][d].run, c).examined
    /\ \A n \in 1 .. This :
          /\ KindsFound(c, n, d) # {} => d \in Row(n, c).examined
          /\ Row(n, c).import = "done" \/ d \in Row(n, c).examined => n <= last[c][d].run

DayInv == \A c \in Cluster, d \in Day : DayOK(c, d)

(* What the rows say of a step, unless a stop cut it off. *)
StepOK(c, s) == <<c, s>> \in lost \/ OpenStep(c, s) = result[c][s]

StepInv == \A c \in Cluster, s \in Steps : StepOK(c, s)

(* Without a run nothing is left of the last one; and the clusters whose   *)
(* turn has not come have rows without content.                            *)
FreshInv ==
    /\ pc = "idle" => at = 1 /\ record = Blank /\ failed = FALSE
    /\ pc # "idle" =>
        /\ pc \notin {"turn", "aborted"} => at \in Cluster
        /\ \A c \in Cluster : c > at \/ (c = at /\ pc = "turn") => Row(This, c) = Pending
        /\ pc = "turn" => record = Blank

Early == {"turn", "started", "scan"}
Importing == Early \cup {"days", "day", "imported"}

(* The record of the cluster at hand is ahead of its row, a step's problems *)
(* are written once, and the day that was imported is still planned.        *)
TurnInv ==
    pc \notin {"idle", "turn", "aborted"} =>
        /\ Mine.import = "done" => record.import = "done"
        /\ pc \in Early => Mine.examined = {} /\ Mine.found = {} /\ Mine.import # "done"
        /\ pc \in Importing \cup {"build", "built"} => Mine.left = {}
        /\ pc \in {"cleanup", "cleaned"} => "cleanup_pending" \notin Mine.left
        /\ pc = "day" => plan # {}
        /\ pc = "imported" => record.import = "done"
        /\ pc = "built" => record.build # "not_reached" /\ left \subseteq {"build_not_succeeded"}
        /\ pc = "cleaned" => record.cleanup # "not_reached" /\ left \subseteq {"cleanup_pending"}

(* A turn that did everything. *)
WholeTurn(turn) ==
    /\ turn.state = "done" /\ turn.import = "done"
    /\ turn.build = "settled" /\ turn.cleanup \in {"settled", "pending"}
    /\ \A d \in Day : <<d, "day_failed">> \notin turn.found

(* The turns of the current run that are over did everything, unless the    *)
(* run knows that one of them failed.                                       *)
OverInv ==
    pc # "idle" /\ ~failed => \A c \in Cluster : c < at => WholeTurn(Row(This, c))

(* So did the turn at hand, up to where it is, unless its record says that  *)
(* it failed.                                                               *)
HereInv ==
    pc \notin {"idle", "turn", "aborting", "aborted"} /\ ~record.failed =>
        /\ record.state = "done"
        /\ \A d \in Day : <<d, "day_failed">> \notin Mine.found
        /\ pc \notin Importing \ {"imported"} => record.import = "done"
        /\ pc \notin Importing \cup {"build"} => record.build = "settled"
        /\ pc \notin Importing \cup {"build", "built", "cleanup"} =>
              record.cleanup \in {"settled", "pending"}

IInv ==
    /\ TypeOK /\ FreshInv /\ TurnInv /\ DayInv /\ StepInv
    /\ OverInv /\ HereInv /\ SuccessIsWhole


-----------------------------------------------------------------------------
(* The constants, first and newest numbers.                                *)

(* What the assumptions say, as plain facts. *)
LEMMA Constants ==
    /\ Day \subseteq Nat
    /\ Clusters \in Nat /\ MaxRuns \in Nat /\ MaxStops \in Nat
    /\ Cluster \subseteq Nat
    /\ \A d \in Day : Views[d] \subseteq {"gone", "unmarked", "empty", "early", "marked"}
BY DayAssumption, BoundAssumption, ViewAssumption DEF Cluster

(* A set of numbers that is not empty has a least one. *)
LEMMA LeastIsIn ==
  ASSUME NEW ns, ns \subseteq Nat, ns # {}
  PROVE  \E n \in ns : \A m \in ns : n <= m
<1>1. PICK n \in ns : \A m \in ns : <<m, n>> \notin OpToRel(<, Nat)
  BY NatLessThanWellFounded, WFMin
<1>2. ASSUME NEW m \in ns PROVE ~(m < n)
  BY <1>1, Zenon DEF OpToRel
<1>. QED BY <1>2

(* Min: the least day is one of the days. *)
LEMMA MinIsIn == ASSUME NEW ds, ds \subseteq Day, ds # {} PROVE Min(ds) \in ds
<1>1. PICK n \in ds : \A m \in ds : n <= m
  BY LeastIsIn, Constants
<1>. QED BY <1>1 DEF Min

(* Newest: the greatest of some numbers, or 0 when there is none. *)
LEMMA NewestIs ==
  ASSUME NEW k \in Nat, NEW ns, ns \subseteq 1 .. k
  PROVE  /\ Newest(ns) \in 0 .. k
         /\ ns = {} <=> Newest(ns) = 0
         /\ ns # {} => Newest(ns) \in ns
         /\ \A m \in ns : m <= Newest(ns)
<1>1. CASE ns = {}
  BY <1>1 DEF Newest
<1>2. CASE ns # {}
  <2>. DEFINE gaps == {k - n : n \in ns}
  <2>1. PICK g \in gaps : \A h \in gaps : g <= h
    <3>1. \A n \in ns : k - n \in Nat
      OBVIOUS
    <3>2. gaps \subseteq Nat /\ gaps # {}
      BY <1>2, <3>1
    <3>. HIDE DEF gaps
    <3>. QED BY <3>2, LeastIsIn
  <2>2. PICK n \in ns : g = k - n
    OBVIOUS
  <2>3. \A m \in ns : m <= n
    BY <2>1, <2>2
  <2>4. Max(ns) \in ns /\ \A m \in ns : m <= Max(ns)
    BY <2>3 DEF Max
  <2>5. Newest(ns) = Max(ns)
    BY <1>2 DEF Newest
  <2>6. Max(ns) \in 1 .. k
    BY <2>4
  <2>. QED BY <1>2, <2>4, <2>5, <2>6
<1>. QED BY <1>1, <1>2

(* The newest of some numbers is the one that none of them exceeds. *)
LEMMA NewestUnique ==
  ASSUME NEW k \in Nat, NEW ns, ns \subseteq 1 .. k, NEW n \in ns, \A m \in ns : m <= n
  PROVE  Newest(ns) = n
<1>1. Newest(ns) \in ns /\ n <= Newest(ns) /\ Newest(ns) <= n
  BY NewestIs
<1>2. n \in 1 .. k /\ Newest(ns) \in 1 .. k
  BY <1>1
<1>. QED BY <1>1, <1>2

-----------------------------------------------------------------------------
(* Types, and what the writes do to the rows.                              *)

ProcessType ==
    /\ pc \in Places
    /\ pc # "idle" => This > 0 /\ runs[This].state = "running"
    /\ at \in 1 .. Clusters + 1
    /\ record \in Records
    /\ left \in SUBSET StepKinds /\ failed \in BOOLEAN
    /\ todo \subseteq Day /\ plan \subseteq Day
    /\ complete \in [Cluster -> SUBSET Day]
    /\ stops \in 0 .. MaxStops

HistoryType ==
    /\ last \in [Cluster -> [Day -> [run : 0 .. MaxRuns, said : SUBSET Kinds]]]
    /\ result \in [Cluster -> [Steps -> SUBSET StepKinds]]
    /\ lost \subseteq Cluster \X Steps

RunsType ==
    /\ runs \in Seq(RunRows) /\ This \in Nat /\ This <= MaxRuns
    /\ \A n \in 1 .. This : runs[n].state = "running" => n = This

(* The types are their parts. *)
LEMMA TypeParts == TypeOK <=> RunsType /\ ProcessType /\ HistoryType
<1>1. runs \in Seq(RunRows) => This \in Nat
  BY DEF This
<1>. QED BY <1>1 DEF TypeOK, RunsType, ProcessType, HistoryType

(* Rows are rows. *)
LEMMA RowType ==
  ASSUME RunsType
  PROVE  /\ \A n \in 1 .. This : runs[n] \in RunRows
         /\ \A n \in 1 .. This, c \in Cluster : Row(n, c) \in TurnRows
<1>1. \A n \in 1 .. This : runs[n] \in RunRows
  BY DEF RunsType, This
<1>. QED BY <1>1 DEF RunRows, Row

(* A write changes one row of the current run. *)
LEMMA Written ==
  ASSUME RunsType, This > 0, at \in Cluster, NEW turn \in TurnRows, Write(turn)
  PROVE  /\ runs' \in Seq(RunRows) /\ This' = This
         /\ \A n \in 1 .. This, c \in Cluster :
               Row(n, c)' = IF n = This /\ c = at THEN turn ELSE Row(n, c)
         /\ \A n \in 1 .. This :
               /\ runs'[n].state = runs[n].state
               /\ runs'[n].failed = runs[n].failed
<1>. DEFINE k == Len(runs)
<1>. DEFINE row == [runs[k] EXCEPT !.turns = [@ EXCEPT ![at] = turn]]
<1>1. k \in 1 .. k /\ k = This /\ runs[k] \in RunRows
  BY RowType DEF RunsType, This
<1>2. row \in RunRows /\ row.turns[at] = turn
      /\ row.state = runs[k].state /\ row.failed = runs[k].failed
      /\ \A c \in Cluster \ {at} : row.turns[c] = runs[k].turns[c]
  BY <1>1 DEF RunRows
<1>3. runs' = [runs EXCEPT ![k] = row]
  BY <1>1 DEF Write
<1>. HIDE DEF k, row
<1>4. runs \in Seq(RunRows) /\ k = Len(runs)
  BY DEF RunsType, k
<1>5. runs' \in Seq(RunRows) /\ Len(runs') = Len(runs)
  BY <1>1, <1>2, <1>3, <1>4, ExceptSeq
<1>6. \A n \in 1 .. Len(runs) : runs'[n] = IF n = k THEN row ELSE runs[n]
  BY <1>1, <1>2, <1>3, <1>4, ExceptSeq
<1>7. \A n \in 1 .. This, c \in Cluster :
         Row(n, c)' = IF n = This /\ c = at THEN turn ELSE Row(n, c)
  BY <1>1, <1>2, <1>4, <1>6 DEF Row
<1>8. \A n \in 1 .. This : runs'[n].state = runs[n].state /\ runs'[n].failed = runs[n].failed
  BY <1>1, <1>2, <1>4, <1>6
<1>. QED BY <1>5, <1>7, <1>8 DEF This

(* A run begins with rows that say nothing, and closes what was left open. *)
LEMMA Begun ==
  ASSUME RunsType, Begin
  PROVE  /\ runs' \in Seq(RunRows) /\ This' = This + 1
         /\ \A c \in Cluster : runs'[This + 1].turns[c] = Pending
         /\ runs'[This + 1].state = "running" /\ runs'[This + 1].failed = FALSE
         /\ \A n \in 1 .. This :
               /\ \A c \in Cluster : Row(n, c)' = Row(n, c)
               /\ runs'[n].failed = runs[n].failed
               /\ runs'[n].state = IF runs[n].state = "running" THEN "unfinished"
                                   ELSE runs[n].state
<1>. DEFINE older == [n \in 1 .. This |-> IF runs[n].state = "running"
                          THEN [runs[n] EXCEPT !.state = "unfinished"] ELSE runs[n]]
<1>. DEFINE newer == [state |-> "running", failed |-> FALSE, turns |-> [c \in Cluster |-> Pending]]
<1>1. This \in Nat /\ \A n \in 1 .. This : runs[n] \in RunRows
  BY RowType DEF RunsType
<1>2. \A n \in 1 .. This :
         /\ older[n] \in RunRows /\ older[n].turns = runs[n].turns
         /\ older[n].failed = runs[n].failed
         /\ older[n].state = IF runs[n].state = "running" THEN "unfinished" ELSE runs[n].state
  BY <1>1 DEF RunRows
<1>3. older \in Seq(RunRows) /\ Len(older) = This
  BY <1>1, <1>2
<1>4. Pending \in TurnRows
  BY DEF Pending, TurnRows
<1>5. newer \in RunRows
  BY <1>4 DEF RunRows
<1>6. runs' = Append(older, newer)
  BY DEF Begin
<1>7. \A c \in Cluster : newer.turns[c] = Pending
  OBVIOUS
<1>8. newer.state = "running" /\ newer.failed = FALSE
  OBVIOUS
<1>. HIDE DEF older, newer
<1>9. /\ runs' \in Seq(RunRows) /\ Len(runs') = This + 1
      /\ \A n \in 1 .. This : runs'[n] = older[n]
      /\ runs'[This + 1] = newer
  BY <1>3, <1>5, <1>6, AppendProperties
<1>10. \A c \in Cluster : runs'[This + 1].turns[c] = Pending
  BY <1>7, <1>9
<1>11. \A n \in 1 .. This, c \in Cluster : Row(n, c)' = Row(n, c)
  BY <1>2, <1>9 DEF Row
<1>. QED BY <1>2, <1>8, <1>9, <1>10, <1>11 DEF This

(* The end of a run changes the state of its row, and whether it failed. *)
LEMMA Closed ==
  ASSUME RunsType, This > 0, NEW how \in {"finished", "aborted"}, NEW bad \in BOOLEAN,
         runs' = [runs EXCEPT ![This] = [@ EXCEPT !.state = how, !.failed = bad]]
  PROVE  /\ runs' \in Seq(RunRows) /\ This' = This
         /\ \A n \in 1 .. This :
               /\ \A c \in Cluster : Row(n, c)' = Row(n, c)
               /\ runs'[n].state = IF n = This THEN how ELSE runs[n].state
               /\ runs'[n].failed = IF n = This THEN bad ELSE runs[n].failed
<1>. DEFINE k == Len(runs)
<1>. DEFINE row == [runs[k] EXCEPT !.state = how, !.failed = bad]
<1>1. k \in 1 .. k /\ k = This /\ runs[k] \in RunRows
  BY RowType DEF RunsType, This
<1>2. row \in RunRows /\ row.turns = runs[k].turns /\ row.state = how /\ row.failed = bad
  BY <1>1 DEF RunRows
<1>3. runs' = [runs EXCEPT ![k] = row]
  BY <1>1
<1>. HIDE DEF k, row
<1>4. runs \in Seq(RunRows) /\ k = Len(runs)
  BY DEF RunsType, k
<1>5. runs' \in Seq(RunRows) /\ Len(runs') = Len(runs)
  BY <1>1, <1>2, <1>3, <1>4, ExceptSeq
<1>6. \A n \in 1 .. Len(runs) : runs'[n] = IF n = k THEN row ELSE runs[n]
  BY <1>1, <1>2, <1>3, <1>4, ExceptSeq
<1>. QED BY <1>1, <1>2, <1>4, <1>5, <1>6 DEF Row, This

(* The steps, one by one. *)
LEMMA StepCases ==
  ASSUME Next
  PROVE  \/ Begin \/ Start \/ Incomplete \/ Scan \/ Compare \/ Import \/ DayDone
         \/ Imported \/ ImportDone \/ Build \/ BuildDone \/ Cleanup \/ CleanupDone
         \/ RawScan \/ Remove \/ Removed \/ Turn \/ Finish
         \/ Busy \/ Surprise \/ Signal \/ TurnAborted \/ RunAborted \/ Kill
BY DEF Next, Run

-----------------------------------------------------------------------------
(* What the rows say of a day.                                             *)

(* What a run found of a day is in its row. *)
LEMMA KindsAre ==
  ASSUME NEW n \in 1 .. This, NEW c, NEW d
  PROVE  KindsFound(c, n, d) = {k \in Kinds : <<d, k>> \in Row(n, c).found}
BY DEF KindsFound, Turns, Row

(* A day nobody wrote about. *)
LEMMA DayStays ==
  ASSUME RunsType, NEW c \in Cluster, NEW d \in Day, DayOK(c, d),
         This' \in Nat, This <= This', last'[c][d] = last[c][d],
         \A n \in 1 .. This :
            /\ KindsFound(c, n, d)' = KindsFound(c, n, d)
            /\ (d \in Row(n, c).examined)' <=> d \in Row(n, c).examined
            /\ (Row(n, c).import = "done")' <=> Row(n, c).import = "done",
         \A n \in 1 .. This' : n > This => Row(n, c)' = Pending
  PROVE  DayOK(c, d)'
<1>. DEFINE r == last[c][d].run
<1>1. This \in Nat
  BY DEF RunsType
<1>2. \A n \in 1 .. This' : n <= This \/ n > This
  BY <1>1
<1>3. \A n \in 1 .. This' : n > This => KindsFound(c, n, d)' = {}
  BY DEF KindsFound, Turns, Row, Pending
<1>4. ASSUME NEW n \in 1 .. This'
      PROVE  /\ KindsFound(c, n, d)' # {} => (d \in Row(n, c).examined)'
             /\ (Row(n, c).import = "done")' \/ (d \in Row(n, c).examined)' => n <= r
  <2>1. CASE n <= This
    <3>1. n \in 1 .. This
      BY <1>1, <2>1
    <3>. QED BY <3>1 DEF DayOK
  <2>2. CASE n > This
    <3>1. Row(n, c)' = Pending /\ KindsFound(c, n, d)' = {}
      BY <1>3, <2>2
    <3>. QED BY <3>1 DEF Pending
  <2>. QED BY <1>2, <2>1, <2>2
<1>5. r > 0 =>
        /\ last[c][d].said = KindsFound(c, r, d)'
        /\ (Row(r, c).import = "done")' \/ (d \in Row(r, c).examined)'
  BY <1>1 DEF DayOK
<1>. QED BY <1>1, <1>4, <1>5 DEF DayOK

(* A day about which the current run concluded. *)
LEMMA DayConcluded ==
  ASSUME RunsType, NEW c \in Cluster, NEW d \in Day, DayOK(c, d),
         This' = This, This > 0,
         last'[c][d].run = This,
         last'[c][d].said = KindsFound(c, This, d)',
         KindsFound(c, This, d)' # {} => (d \in Row(This, c).examined)',
         (Row(This, c).import = "done")' \/ (d \in Row(This, c).examined)',
         \A n \in 1 .. This : n # This => Row(n, c)' = Row(n, c)
  PROVE  DayOK(c, d)'
<1>1. This \in Nat
  BY DEF RunsType
<1>2. ASSUME NEW n \in 1 .. This, n # This
      PROVE  KindsFound(c, n, d)' # {} => (d \in Row(n, c).examined)'
  <2>1. KindsFound(c, n, d)' = {k \in Kinds : <<d, k>> \in Row(n, c)'.found}
    BY DEF KindsFound, Turns, Row
  <2>2. KindsFound(c, n, d)' = KindsFound(c, n, d)
    BY <1>2, <2>1, KindsAre
  <2>3. KindsFound(c, n, d) # {} => d \in Row(n, c).examined
    BY DEF DayOK
  <2>. QED BY <1>2, <2>2, <2>3
<1>. QED BY <1>1, <1>2 DEF DayOK

(* Mine is the row of the current run about the cluster at hand. *)
LEMMA MineIs ==
  ASSUME RunsType, This > 0, at \in Cluster
  PROVE  Mine = Row(This, at) /\ Mine \in TurnRows
BY RowType DEF Mine, Row, RunsType

(* A write that does not touch what was found. *)
LEMMA SameContent ==
  ASSUME RunsType, This > 0, at \in Cluster, DayInv, NEW turn \in TurnRows, Write(turn),
         turn.examined = Mine.examined, turn.found = Mine.found,
         turn.import = "done" <=> Mine.import = "done", last' = last
  PROVE  DayInv'
<1>. SUFFICES ASSUME NEW c \in Cluster, NEW d \in Day PROVE DayOK(c, d)'
  BY DEF DayInv
<1>1. /\ This \in Nat /\ This' = This
      /\ \A n \in 1 .. This : Row(n, c)' = IF n = This /\ c = at THEN turn ELSE Row(n, c)
  BY Written DEF RunsType
<1>2. ASSUME NEW n \in 1 .. This
      PROVE  /\ KindsFound(c, n, d)' = KindsFound(c, n, d)
             /\ (d \in Row(n, c).examined)' <=> d \in Row(n, c).examined
             /\ (Row(n, c).import = "done")' <=> Row(n, c).import = "done"
  <2>1. KindsFound(c, n, d)' = {k \in Kinds : <<d, k>> \in Row(n, c)'.found}
    BY <1>1 DEF KindsFound, Turns, Row
  <2>. QED BY <1>1, <2>1, KindsAre, MineIs
<1>. QED BY <1>1, <1>2, DayStays DEF DayInv

(* Found: the problems of one day. *)
LEMMA FoundIs ==
  ASSUME NEW day \in Day, NEW kinds \in SUBSET Kinds
  PROVE  /\ Found(day, kinds) \in SUBSET (Day \X Kinds)
         /\ \A d, k : <<d, k>> \in Found(day, kinds) <=> d = day /\ k \in kinds
BY DEF Found

(* Examined: what is written of a day is what was concluded. *)
LEMMA ExaminedStep ==
  ASSUME RunsType, HistoryType, This > 0, at \in Cluster, DayInv,
         NEW day \in Day, NEW kinds \in SUBSET Kinds, Examined(day, kinds)
  PROVE  DayInv'
<1>. DEFINE turn == [Mine EXCEPT !.examined = @ \cup {day}, !.found = @ \cup Found(day, kinds)]
<1>1. Mine = Row(This, at) /\ Mine \in TurnRows
  BY MineIs
<1>2. /\ turn \in TurnRows /\ turn.import = Mine.import
      /\ turn.examined = Mine.examined \cup {day}
      /\ turn.found = Mine.found \cup Found(day, kinds)
  <2>1. PICK row \in TurnRows, days \in SUBSET Day, problems \in SUBSET (Day \X Kinds) :
          /\ row = Mine /\ days = Mine.examined \cup {day}
          /\ problems = Mine.found \cup Found(day, kinds)
    <3>1. Mine.examined \in SUBSET Day /\ Mine.found \in SUBSET (Day \X Kinds)
      BY <1>1 DEF TurnRows
    <3>2. Mine.examined \cup {day} \in SUBSET Day
      BY <3>1
    <3>3. Mine.found \cup Found(day, kinds) \in SUBSET (Day \X Kinds)
      BY <3>1, FoundIs
    <3>. HIDE DEF turn
    <3>. QED BY <1>1, <3>2, <3>3
  <2>2. turn = [row EXCEPT !.examined = days, !.found = problems]
    BY <2>1
  <2>3. /\ turn \in TurnRows /\ turn.examined = days /\ turn.found = problems
        /\ turn.import = row.import
    BY <2>2 DEF TurnRows
  <2>. HIDE DEF turn
  <2>. QED BY <2>1, <2>3
<1>3. Write(turn)
  BY DEF Examined
<1>. HIDE DEF turn
<1>4. /\ This \in Nat /\ This' = This
      /\ \A n \in 1 .. This, c \in Cluster :
            Row(n, c)' = IF n = This /\ c = at THEN turn ELSE Row(n, c)
  BY <1>2, <1>3, Written DEF RunsType
<1>5. last' = Says(day, kinds)
  BY DEF Examined
<1>. SUFFICES ASSUME NEW c \in Cluster, NEW d \in Day PROVE DayOK(c, d)'
  BY DEF DayInv
<1>6. DayOK(c, d)
  BY DEF DayInv
<1>7. \A n \in 1 .. This : KindsFound(c, n, d)' = {k \in Kinds : <<d, k>> \in Row(n, c)'.found}
  BY <1>4 DEF KindsFound, Turns, Row
<1>8. CASE c = at /\ d = day
  <2>1. last[c][d].run \in 0 .. This
    BY <1>6 DEF DayOK
  <2>2. /\ last'[c][d].run = This
        /\ last'[c][d].said = IF last[c][d].run = This THEN last[c][d].said \cup kinds ELSE kinds
    BY <1>5, <1>8 DEF Says, HistoryType
  <2>3. KindsFound(c, This, d)' = KindsFound(c, This, d) \cup kinds
    <3>1. Row(This, c)'.found = Row(This, c).found \cup Found(day, kinds)
      BY <1>1, <1>2, <1>4, <1>8
    <3>2. This \in 1 .. This
      BY <1>4
    <3>3. \A k : <<d, k>> \in Row(This, c)'.found <=> <<d, k>> \in Row(This, c).found \/ k \in kinds
      BY <1>8, <3>1, FoundIs
    <3>4. KindsFound(c, This, d)' = {k \in Kinds : <<d, k>> \in Row(This, c)'.found}
      BY <1>4, <1>7, <3>2
    <3>5. KindsFound(c, This, d) = {k \in Kinds : <<d, k>> \in Row(This, c).found}
      BY <3>2, KindsAre
    <3>. QED BY <3>3, <3>4, <3>5
  <2>4. last[c][d].run = This => last[c][d].said = KindsFound(c, This, d)
    BY <1>6 DEF DayOK
  <2>5. last[c][d].run # This => KindsFound(c, This, d) = {}
    <3>1. KindsFound(c, This, d) # {} => This <= last[c][d].run
      BY <1>4, <1>6 DEF DayOK
    <3>. QED BY <1>4, <2>1, <3>1
  <2>6. (d \in Row(This, c).examined)'
    BY <1>2, <1>4, <1>8
  <2>. QED BY <1>4, <1>6, <2>2, <2>3, <2>4, <2>5, <2>6, DayConcluded
<1>9. CASE ~(c = at /\ d = day)
  <2>1. last'[c][d] = last[c][d]
    BY <1>5, <1>9 DEF Says, HistoryType
  <2>2. ASSUME NEW n \in 1 .. This
        PROVE  /\ KindsFound(c, n, d)' = KindsFound(c, n, d)
               /\ (d \in Row(n, c).examined)' <=> d \in Row(n, c).examined
               /\ (Row(n, c).import = "done")' <=> Row(n, c).import = "done"
    <3>1. \A k : <<d, k>> \in Row(n, c)'.found <=> <<d, k>> \in Row(n, c).found
      BY <1>1, <1>2, <1>4, <1>9, FoundIs
    <3>2. KindsFound(c, n, d)' = KindsFound(c, n, d)
      BY <1>7, <3>1, KindsAre
    <3>. QED BY <1>1, <1>2, <1>4, <1>9, <3>2
  <2>. QED BY <1>4, <1>6, <2>1, <2>2, DayStays
<1>. QED BY <1>8, <1>9

(* Whole: a run that has imported everything has concluded about every day. *)
LEMMA WholeStep ==
  ASSUME RunsType, HistoryType, This > 0, at \in Cluster, DayInv,
         NEW turn \in TurnRows, Write(turn), turn.import = "done",
         turn.examined = Mine.examined, turn.found = Mine.found, Whole
  PROVE  DayInv'
<1>1. Mine = Row(This, at)
  BY MineIs
<1>2. /\ This \in Nat /\ This' = This
      /\ \A n \in 1 .. This, c \in Cluster :
            Row(n, c)' = IF n = This /\ c = at THEN turn ELSE Row(n, c)
  BY Written DEF RunsType
<1>. SUFFICES ASSUME NEW c \in Cluster, NEW d \in Day PROVE DayOK(c, d)'
  BY DEF DayInv
<1>3. DayOK(c, d)
  BY DEF DayInv
<1>4. ASSUME NEW n \in 1 .. This PROVE KindsFound(c, n, d)' = KindsFound(c, n, d)
  <2>1. KindsFound(c, n, d)' = {k \in Kinds : <<d, k>> \in Row(n, c)'.found}
    BY <1>2 DEF KindsFound, Turns, Row
  <2>2. Row(n, c)'.found = Row(n, c).found
    BY <1>1, <1>2
  <2>. QED BY <2>1, <2>2, KindsAre
<1>5. CASE c = at
  <2>1. (Row(This, c).import = "done")'
    BY <1>2, <1>5
  <2>2. KindsFound(c, This, d) # {} => d \in Mine.examined
    BY <1>1, <1>2, <1>3, <1>5 DEF DayOK
  <2>3. last'[c][d].run = This /\ last'[c][d].said = KindsFound(c, This, d)
    <3>1. CASE d \in Mine.examined
      <4>1. last[c][d].run = This
        <5>1. This <= last[c][d].run /\ last[c][d].run \in 0 .. This
          BY <1>1, <1>2, <1>3, <1>5, <3>1 DEF DayOK
        <5>. QED BY <1>2, <5>1
      <4>2. last'[c][d] = last[c][d]
        BY <1>5, <3>1 DEF Whole, HistoryType
      <4>. QED BY <1>3, <4>1, <4>2 DEF DayOK
    <3>2. CASE d \notin Mine.examined
      <4>1. last'[c][d] = [run |-> This, said |-> {}]
        BY <1>5, <3>2 DEF Whole, HistoryType
      <4>. QED BY <2>2, <3>2, <4>1
    <3>. QED BY <3>1, <3>2
  <2>4. KindsFound(c, This, d)' # {} => (d \in Row(This, c).examined)'
    BY <1>2, <1>4, <1>5, <2>2
  <2>5. KindsFound(c, This, d)' = KindsFound(c, This, d)
    BY <1>2, <1>4
  <2>. QED BY <1>2, <1>3, <1>5, <2>1, <2>3, <2>4, <2>5, DayConcluded
<1>6. CASE c # at
  <2>1. last'[c][d] = last[c][d]
    BY <1>6 DEF Whole, HistoryType
  <2>. QED BY <1>2, <1>3, <1>4, <1>6, <2>1, DayStays
<1>. QED BY <1>5, <1>6

(* What a scan sees is never a failed day, and always a kind of problem. *)
LEMMA ScanSees ==
  ASSUME Scan, at \in Cluster
  PROVE  \E seen \in SUBSET Day, kind \in [Day -> Kinds] :
            /\ \A d \in seen : kind[d] # "day_failed"
            /\ Write([Mine EXCEPT !.examined = @ \cup seen,
                                  !.found = @ \cup {<<d, kind[d]>> : d \in seen}])
            /\ last' = [last EXCEPT ![at] = [d \in Day |->
                  IF d \in seen THEN [run |-> This, said |-> {kind[d]}] ELSE @[d]]]
<1>1. PICK view \in [Day -> UNION {Views[d] : d \in Day}] :
        LET imported == {d \in complete[at] : view[d] \in {"marked", "empty"}}
            pending  == {d \in Day \ complete[at] : view[d] = "marked"}
            seen     == {d \in Day : view[d] # "gone"} \ (imported \cup pending)
        IN  /\ \A d \in Day : view[d] \in Views[d]
            /\ Write([Mine EXCEPT !.examined = @ \cup seen,
                                  !.found = @ \cup {<<d, SeenKind(view[d])>> : d \in seen}])
            /\ last' = [last EXCEPT ![at] = [d \in Day |->
                  IF d \in seen THEN [run |-> This, said |-> {SeenKind(view[d])}] ELSE @[d]]]
  BY DEF Scan
<1>. DEFINE seen == {d \in Day : view[d] # "gone"}
                    \ ({d \in complete[at] : view[d] \in {"marked", "empty"}}
                        \cup {d \in Day \ complete[at] : view[d] = "marked"})
            kind == [d \in Day |-> IF d \in seen THEN SeenKind(view[d]) ELSE "day_failed"]
<1>2. \A d \in seen : SeenKind(view[d]) \in Kinds \ {"day_failed"}
  <2>1. \A d \in seen : view[d] \in {"unmarked", "empty", "early"}
    BY <1>1, Constants
  <2>. QED BY <2>1 DEF SeenKind, Kinds
<1>3. kind \in [Day -> Kinds] /\ seen \in SUBSET Day /\ \A d \in seen : kind[d] = SeenKind(view[d])
  BY <1>2 DEF Kinds
<1>4. {<<d, SeenKind(view[d])>> : d \in seen} = {<<d, kind[d]>> : d \in seen}
  BY <1>3
<1>5. [d \in Day |->
          IF d \in seen THEN [run |-> This, said |-> {SeenKind(view[d])}] ELSE last[at][d]]
      = [d \in Day |-> IF d \in seen THEN [run |-> This, said |-> {kind[d]}] ELSE last[at][d]]
  BY <1>3
<1>6. /\ Write([Mine EXCEPT !.examined = @ \cup seen,
                            !.found = @ \cup {<<d, SeenKind(view[d])>> : d \in seen}])
      /\ last' = [last EXCEPT ![at] = [d \in Day |->
            IF d \in seen THEN [run |-> This, said |-> {SeenKind(view[d])}] ELSE last[at][d]]]
  BY <1>1
<1>. HIDE DEF kind, seen
<1>. QED BY <1>2, <1>3, <1>4, <1>5, <1>6

(* Scan: of a cluster that nothing was said of, it says what it sees. *)
LEMMA ScanStep ==
  ASSUME RunsType, HistoryType, This > 0, at \in Cluster, DayInv,
         Mine.examined = {}, Mine.found = {}, Scan
  PROVE  DayInv'
<1>1. PICK seen \in SUBSET Day, kind \in [Day -> Kinds] :
            /\ Write([Mine EXCEPT !.examined = @ \cup seen,
                                  !.found = @ \cup {<<d, kind[d]>> : d \in seen}])
            /\ last' = [last EXCEPT ![at] = [d \in Day |->
                  IF d \in seen THEN [run |-> This, said |-> {kind[d]}] ELSE @[d]]]
  BY ScanSees
<1>. DEFINE turn == [Mine EXCEPT !.examined = @ \cup seen,
                                 !.found = @ \cup {<<d, kind[d]>> : d \in seen}]
<1>2. Mine = Row(This, at) /\ Mine \in TurnRows
  BY MineIs
<1>3. /\ turn \in TurnRows /\ turn.import = Mine.import
      /\ turn.examined = seen /\ turn.found = {<<d, kind[d]>> : d \in seen}
  <2>1. PICK row \in TurnRows, problems \in SUBSET (Day \X Kinds) :
          row = Mine /\ problems = {<<d, kind[d]>> : d \in seen}
    <3>1. {<<d, kind[d]>> : d \in seen} \in SUBSET (Day \X Kinds)
      OBVIOUS
    <3>. HIDE DEF turn
    <3>. QED BY <1>2, <3>1
  <2>2. turn = [row EXCEPT !.examined = seen, !.found = problems]
    BY <2>1
  <2>3. /\ turn \in TurnRows /\ turn.examined = seen /\ turn.found = problems
        /\ turn.import = row.import
    BY <2>2 DEF TurnRows
  <2>. HIDE DEF turn
  <2>. QED BY <2>1, <2>3
<1>4. Write(turn)
  BY <1>1
<1>. HIDE DEF turn
<1>5. /\ This \in Nat /\ This' = This
      /\ \A n \in 1 .. This, c \in Cluster :
            Row(n, c)' = IF n = This /\ c = at THEN turn ELSE Row(n, c)
  BY <1>3, <1>4, Written DEF RunsType
<1>. SUFFICES ASSUME NEW c \in Cluster, NEW d \in Day PROVE DayOK(c, d)'
  BY DEF DayInv
<1>6. DayOK(c, d)
  BY DEF DayInv
<1>7. \A n \in 1 .. This : KindsFound(c, n, d)' = {k \in Kinds : <<d, k>> \in Row(n, c)'.found}
  BY <1>5 DEF KindsFound, Turns, Row
<1>8. CASE c = at /\ d \in seen
  <2>1. last'[c][d] = [run |-> This, said |-> {kind[d]}]
    BY <1>1, <1>8 DEF HistoryType
  <2>2. KindsFound(c, This, d)' = {kind[d]}
    <3>1. This \in 1 .. This /\ Row(This, c)'.found = {<<e, kind[e]>> : e \in seen}
      BY <1>3, <1>5, <1>8
    <3>2. \A k : <<d, k>> \in Row(This, c)'.found <=> k = kind[d]
      BY <1>8, <3>1
    <3>3. KindsFound(c, This, d)' = {k \in Kinds : <<d, k>> \in Row(This, c)'.found}
      BY <1>5, <1>7, <3>1
    <3>. QED BY <3>2, <3>3
  <2>3. (d \in Row(This, c).examined)'
    BY <1>3, <1>5, <1>8
  <2>4. last'[c][d].run = This /\ last'[c][d].said = {kind[d]}
    BY <2>1
  <2>5. \A n \in 1 .. This : n # This => Row(n, c)' = Row(n, c)
    BY <1>5
  <2>. QED BY <1>5, <1>6, <2>2, <2>3, <2>4, <2>5, DayConcluded
<1>9. CASE ~(c = at /\ d \in seen)
  <2>1. last'[c][d] = last[c][d]
    BY <1>1, <1>9 DEF HistoryType
  <2>2. ASSUME NEW n \in 1 .. This
        PROVE  /\ KindsFound(c, n, d)' = KindsFound(c, n, d)
               /\ (d \in Row(n, c).examined)' <=> d \in Row(n, c).examined
               /\ (Row(n, c).import = "done")' <=> Row(n, c).import = "done"
    <3>1. \A k : <<d, k>> \in Row(n, c)'.found <=> <<d, k>> \in Row(n, c).found
      BY <1>2, <1>3, <1>5, <1>9
    <3>2. KindsFound(c, n, d)' = KindsFound(c, n, d)
      BY <1>7, <3>1, KindsAre
    <3>3. d \in Row(n, c)'.examined <=> d \in Row(n, c).examined
      BY <1>2, <1>3, <1>5, <1>9
    <3>. QED BY <1>2, <1>3, <1>5, <1>9, <3>2, <3>3
  <2>. QED BY <1>5, <1>6, <2>1, <2>2, DayStays
<1>. QED BY <1>8, <1>9

-----------------------------------------------------------------------------
(* What the rows say of a step.                                            *)

(* A step nobody wrote about. *)
LEMMA StepStays ==
  ASSUME RunsType, NEW c \in Cluster, NEW s \in Steps, StepOK(c, s),
         This' \in Nat, This <= This',
         \A n \in 1 .. This :
            /\ (Row(n, c)[s])' = Row(n, c)[s]
            /\ (Row(n, c).left)' \cap {StepKind(s)} = Row(n, c).left \cap {StepKind(s)},
         \A n \in 1 .. This' : n > This => Row(n, c)' = Pending,
         result'[c][s] = result[c][s],
         <<c, s>> \in lost => <<c, s>> \in lost'
  PROVE  StepOK(c, s)'
<1>1. This \in Nat
  BY DEF RunsType
<1>. DEFINE through == {n \in 1 .. This : Row(n, c)[s] # "not_reached"}
<1>2. StepVerdict(c, s) = Newest(through)
  <2>1. through = {n \in 1 .. This : Turns(c)[n][s] # "not_reached"}
    BY DEF Turns, Row
  <2>. QED BY <2>1 DEF StepVerdict
<1>3. StepVerdict(c, s)' = Newest(through)
  <2>1. \A n \in 1 .. This' : n > This => (Row(n, c)[s])' = "not_reached"
    BY DEF Pending, Steps
  <2>2. through = {n \in 1 .. This' : (Row(n, c)[s])' # "not_reached"}
    BY <1>1, <2>1
  <2>3. through = {n \in 1 .. This' : Turns(c)'[n][s] # "not_reached"}
    BY <2>2 DEF Turns, Row
  <2>. QED BY <2>3 DEF StepVerdict, Newest
<1>4. Newest(through) \in 0 .. This
  BY <1>1, NewestIs
<1>. HIDE DEF through
<1>5. OpenStep(c, s)' = OpenStep(c, s)
  <2>1. CASE Newest(through) = 0
    BY <1>2, <1>3, <2>1 DEF OpenStep
  <2>2. CASE Newest(through) # 0
    <3>1. PICK v \in Nat : v = Newest(through) /\ v \in 1 .. This /\ v \in 1 .. This'
      BY <1>1, <1>4, <2>2
    <3>2. OpenStep(c, s) = Row(v, c).left \cap {StepKind(s)}
      BY <1>2, <2>2, <3>1 DEF OpenStep, Turns, Row
    <3>3. OpenStep(c, s)' = (Row(v, c).left)' \cap {StepKind(s)}
      BY <1>3, <2>2, <3>1 DEF OpenStep, Turns, Row
    <3>. QED BY <3>1, <3>2, <3>3
  <2>. QED BY <2>1, <2>2
<1>. QED BY <1>5 DEF StepOK

(* A step the current run went through. *)
LEMMA StepConcluded ==
  ASSUME RunsType, NEW c \in Cluster, NEW s \in Steps, This' = This, This > 0,
         (Row(This, c)[s])' # "not_reached",
         (Row(This, c).left)' \cap {StepKind(s)} = result'[c][s]
  PROVE  StepOK(c, s)'
<1>1. This \in Nat /\ This \in 1 .. This
  BY DEF RunsType
<1>. DEFINE through == {n \in 1 .. This' : Turns(c)'[n][s] # "not_reached"}
<1>2. This \in through
  BY <1>1 DEF Turns, Row
<1>3. Newest(through) = This
  <2>1. PICK k \in Nat : k = This
    BY <1>1
  <2>2. through \subseteq 1 .. k /\ k \in through
    BY <1>2, <2>1
  <2>3. \A m \in through : m <= k
    BY <2>1
  <2>. HIDE DEF through
  <2>4. Newest(through) = k
    BY <2>2, <2>3, NewestUnique
  <2>. QED BY <2>1, <2>4
<1>4. StepVerdict(c, s)' = This
  BY <1>3 DEF StepVerdict, Newest
<1>5. OpenStep(c, s)' = (Row(This, c).left)' \cap {StepKind(s)}
  BY <1>1, <1>4 DEF OpenStep, Turns, Row
<1>. QED BY <1>5 DEF StepOK

-----------------------------------------------------------------------------
(* Steps that write nothing, and what every write leaves alone.            *)

(* Without a write every row, and what the rows say, stays. *)
LEMMA NothingWritten ==
  ASSUME IInv, runs' = runs, last' = last, result' = result, lost' = lost
  PROVE  /\ RunsType' /\ HistoryType' /\ DayInv' /\ StepInv' /\ SuccessIsWhole'
         /\ This' = This /\ runs'[This].state = runs[This].state
         /\ \A n, c : Row(n, c)' = Row(n, c)
<1>1. RunsType /\ HistoryType
  BY TypeParts DEF IInv
<1>2. This' = This
  BY DEF This
<1>3. RunsType' /\ HistoryType'
  BY <1>1, <1>2 DEF RunsType, HistoryType
<1>4. \A n, c : Row(n, c)' = Row(n, c)
  BY DEF Row
<1>5. DayInv'
  <2>. SUFFICES ASSUME NEW c \in Cluster, NEW d \in Day PROVE DayOK(c, d)'
    BY DEF DayInv
  <2>1. DayOK(c, d)
    BY DEF IInv, DayInv
  <2>. QED BY <1>2, <2>1 DEF DayOK, KindsFound, Turns, Row
<1>6. StepInv'
  <2>. SUFFICES ASSUME NEW c \in Cluster, NEW s \in Steps PROVE StepOK(c, s)'
    BY DEF StepInv
  <2>1. StepOK(c, s)
    BY DEF IInv, StepInv
  <2>. QED BY <1>2, <2>1 DEF StepOK, OpenStep, StepVerdict, Turns, Newest
<1>7. SuccessIsWhole'
  BY <1>2 DEF IInv, SuccessIsWhole
<1>. QED BY <1>2, <1>3, <1>4, <1>5, <1>6, <1>7

(* SuccessIsWhole, row by row. *)
LEMMA SuccessIs ==
  SuccessIsWhole <=>
    \A n \in 1 .. This : runs[n].state = "finished" /\ ~runs[n].failed =>
        \A c \in Cluster : WholeTurn(Row(n, c))
BY DEF SuccessIsWhole, WholeTurn, Row

(* A write of the current run touches one row, and no ended run. *)
LEMMA WriteFrame ==
  ASSUME IInv, pc # "idle", at \in Cluster, NEW turn \in TurnRows, Write(turn)
  PROVE  /\ RunsType' /\ SuccessIsWhole'
         /\ This' = This /\ This \in Nat /\ This > 0 /\ runs'[This].state = "running"
         /\ runs'[This].turns[at] = turn
         /\ \A c \in Cluster : c # at => Row(This, c)' = Row(This, c)
         /\ \A n \in 1 .. This, c \in Cluster :
               n # This \/ c # at => Row(n, c)' = Row(n, c)
<1>1. RunsType /\ ProcessType /\ This \in Nat /\ This > 0 /\ runs[This].state = "running"
  BY TypeParts DEF IInv, RunsType, ProcessType
<1>2. /\ runs' \in Seq(RunRows) /\ This' = This
      /\ \A n \in 1 .. This, c \in Cluster :
            Row(n, c)' = IF n = This /\ c = at THEN turn ELSE Row(n, c)
      /\ \A n \in 1 .. This :
            /\ runs'[n].state = runs[n].state
            /\ runs'[n].failed = runs[n].failed
  BY <1>1, Written
<1>3. RunsType'
  BY <1>1, <1>2 DEF RunsType
<1>4. \A n \in 1 .. This, c \in Cluster : n # This \/ c # at => Row(n, c)' = Row(n, c)
  BY <1>2
<1>5. runs'[This].turns[at] = turn
  BY <1>1, <1>2 DEF Row
<1>6. SuccessIsWhole'
  <2>1. \A n \in 1 .. This : runs[n].state = "finished" /\ ~runs[n].failed =>
            n # This /\ \A c \in Cluster : WholeTurn(Row(n, c))
    BY <1>1, SuccessIs DEF IInv
  <2>2. ASSUME NEW n \in 1 .. This', runs'[n].state = "finished", ~runs'[n].failed,
               NEW c \in Cluster
        PROVE  WholeTurn(Row(n, c)')
    <3>1. n # This /\ WholeTurn(Row(n, c)) /\ Row(n, c)' = Row(n, c)
      BY <1>2, <1>4, <2>1, <2>2
    <3>. QED BY <3>1
  <2>3. \A n \in 1 .. This' : runs'[n].state = "finished" /\ ~runs'[n].failed =>
            \A c \in Cluster : WholeTurn(Row(n, c)')
    BY <2>2
  <2>. QED BY <2>3 DEF SuccessIsWhole, WholeTurn, Row
<1>. QED BY <1>1, <1>2, <1>3, <1>4, <1>5, <1>6

(* A write that leaves a step and its problems alone leaves what is open. *)
LEMMA StepsStay ==
  ASSUME IInv, pc # "idle", at \in Cluster, NEW turn \in TurnRows, Write(turn),
         NEW c \in Cluster, NEW s \in Steps,
         c = at => turn[s] = Mine[s] /\ turn.left \cap {StepKind(s)} = Mine.left \cap {StepKind(s)},
         result'[c][s] = result[c][s], <<c, s>> \in lost => <<c, s>> \in lost'
  PROVE  StepOK(c, s)'
<1>1. /\ RunsType /\ StepOK(c, s) /\ This > 0 /\ This \in Nat /\ This' = This
      /\ Mine = Row(This, at)
  BY TypeParts, WriteFrame, MineIs DEF IInv, StepInv
<1>2. ASSUME NEW n \in 1 .. This
      PROVE  /\ (Row(n, c)[s])' = Row(n, c)[s]
             /\ (Row(n, c).left)' \cap {StepKind(s)} = Row(n, c).left \cap {StepKind(s)}
  <2>1. CASE n # This \/ c # at
    <3>1. Row(n, c)' = Row(n, c)
      BY <2>1, WriteFrame
    <3>. QED BY <3>1
  <2>2. CASE n = This /\ c = at
    <3>1. Row(n, c)' = turn
      BY <1>1, <2>2, WriteFrame DEF Row
    <3>. QED BY <1>1, <2>2, <3>1
  <2>. QED BY <2>1, <2>2
<1>. QED BY <1>1, <1>2, StepStays

-----------------------------------------------------------------------------
(* The steps within a run that write nothing.                              *)

(* What is known within a turn. *)
LEMMA InTheTurn ==
  ASSUME IInv, pc \notin {"idle", "turn", "aborted"}
  PROVE  /\ at \in Cluster /\ This \in Nat /\ This > 0
         /\ Mine = Row(This, at) /\ Mine \in TurnRows /\ record \in Records
         /\ RunsType /\ ProcessType /\ HistoryType
<1>1. RunsType /\ ProcessType /\ HistoryType
  BY TypeParts DEF IInv
<1>2. at \in Cluster
  BY DEF IInv, FreshInv
<1>3. This \in Nat /\ This > 0 /\ record \in Records
  BY <1>1 DEF RunsType, ProcessType
<1>. QED BY <1>1, <1>2, <1>3, MineIs

(* While the run stays with a cluster, the other turns are as they were. *)
LEMMA OthersStay ==
  ASSUME IInv, pc # "idle", pc' \notin {"idle", "turn"}, pc' # "aborted" => at \in Cluster,
         at' = at, failed' = failed, This' = This,
         \A c \in Cluster : c # at => Row(This, c)' = Row(This, c)
  PROVE  FreshInv' /\ OverInv'
<1>1. at \in Nat /\ \A c \in Cluster : c \in Nat
  BY Constants, TypeParts DEF IInv, ProcessType
<1>2. FreshInv'
  <2>1. \A c \in Cluster : c > at => c # at /\ Row(This, c) = Pending
    BY <1>1 DEF IInv, FreshInv
  <2>2. \A c \in Cluster : c > at' => Row(This, c)' = Pending
    BY <2>1
  <2>. QED BY <2>2 DEF FreshInv
<1>3. OverInv'
  <2>1. ~failed => \A c \in Cluster : c < at => c # at /\ WholeTurn(Row(This, c))
    BY <1>1 DEF IInv, OverInv
  <2>2. ~failed' => \A c \in Cluster : c < at' => WholeTurn(Row(This, c)')
    BY <2>1
  <2>. QED BY <2>2 DEF OverInv, WholeTurn, Row
<1>. QED BY <1>2, <1>3

(* The steps that only prepare or decide something. *)
LEMMA DecisionStep ==
  ASSUME IInv,
         Import \/ Imported \/ Build \/ Cleanup \/ RawScan \/ Removed \/ Busy \/ Surprise
  PROVE  IInv'
<1>1. /\ pc \in Places \ {"idle", "turn", "ending", "aborting", "aborted"}
      /\ pc' \in {"day", "imported", "built", "cleaned", "remove", "ending"}
      /\ runs' = runs /\ last' = last /\ result' = result /\ lost' = lost
      /\ at' = at /\ failed' = failed
  <2>1. pc \in Places
    BY TypeParts DEF IInv, ProcessType
  <2>2. CASE Import \/ Imported \/ Build \/ Cleanup \/ RawScan \/ Removed
    BY <2>1, <2>2 DEF Import, Imported, Build, Cleanup, RawScan, Removed, history
  <2>3. CASE Busy \/ Surprise
    BY <2>1, <2>3 DEF Busy, Surprise, InTurn, history
  <2>. QED BY <2>2, <2>3
<1>2. /\ at \in Cluster /\ This \in Nat /\ This > 0
      /\ Mine = Row(This, at) /\ Mine \in TurnRows /\ record \in Records
      /\ RunsType /\ ProcessType /\ HistoryType
  BY <1>1, InTheTurn
<1>3. /\ RunsType' /\ HistoryType' /\ DayInv' /\ StepInv' /\ SuccessIsWhole'
      /\ This' = This /\ runs'[This].state = runs[This].state
      /\ \A n, c : Row(n, c)' = Row(n, c)
  BY <1>1, NothingWritten
<1>4. Mine' = Mine
  BY <1>1, <1>3 DEF Mine
<1>5. FreshInv' /\ OverInv'
  BY <1>1, <1>2, <1>3, OthersStay
<1>6. ProcessType'
  <2>1. record' \in Records
    <3>1. CASE Import \/ RawScan \/ Removed
      BY <1>2, <3>1 DEF Import, RawScan, Removed
    <3>2. CASE Imported
      BY <1>2, <3>2 DEF Imported, Records
    <3>3. CASE Build
      BY <1>2, <3>3 DEF Build, Records
    <3>4. CASE Cleanup
      BY <1>2, <3>4 DEF Cleanup, Records
    <3>5. CASE Busy
      BY <1>2, <3>5 DEF Busy, Records
    <3>6. CASE Surprise
      BY <1>2, <3>6 DEF Surprise, Records
    <3>. QED BY <3>1, <3>2, <3>3, <3>4, <3>5, <3>6
  <2>2. complete' \in [Cluster -> SUBSET Day]
    <3>1. CASE Import
      <4>1. Min(plan) \in Day
        BY <1>2, <3>1, MinIsIn DEF Import, ProcessType
      <4>. QED BY <1>2, <3>1, <4>1 DEF Import, ProcessType
    <3>2. CASE ~Import
      BY <1>2, <3>2 DEF Imported, Build, Cleanup, RawScan, Removed, Busy, Surprise,
         ProcessType
    <3>. QED BY <3>1, <3>2
  <2>3. left' \in SUBSET StepKinds
    BY <1>2 DEF Import, Imported, Build, Cleanup, RawScan, Removed, Busy, Surprise,
       ProcessType,
                StepKinds
  <2>4. todo' \subseteq Day /\ plan' \subseteq Day
    BY <1>2 DEF Import, Imported, Build, Cleanup, RawScan, Removed, Busy, Surprise,
       ProcessType
  <2>5. stops' \in 0 .. MaxStops
    <3>1. CASE Busy \/ Surprise
      <4>1. Stops
        BY <3>1 DEF Busy, Surprise
      <4>. QED BY <1>2, <4>1, Constants DEF Stops, ProcessType
    <3>2. CASE Import \/ Imported \/ Build \/ Cleanup \/ RawScan \/ Removed
      <4>1. stops' = stops
        BY <3>2 DEF Import, Imported, Build, Cleanup, RawScan, Removed
      <4>. QED BY <1>2, <4>1 DEF ProcessType
    <3>. QED BY <3>1, <3>2
  <2>6. pc' \in Places /\ This' > 0 /\ runs'[This].state = "running"
    BY <1>1, <1>2, <1>3 DEF Places, ProcessType
  <2>. QED BY <1>1, <1>2, <1>3, <2>1, <2>2, <2>3, <2>4, <2>5, <2>6 DEF ProcessType
<1>7. TurnInv'
  <2>1. TurnInv
    BY DEF IInv
  <2>2. CASE Import
    BY <1>1, <1>4, <2>1, <2>2 DEF Import, TurnInv, Early, Importing
  <2>3. CASE Imported
    BY <1>1, <1>2, <1>4, <2>1, <2>3 DEF Imported, TurnInv, Early, Importing, Records
  <2>4. CASE Build
    <3>1. /\ pc = "build" /\ pc' = "built" /\ record'.import = record.import
          /\ record'.build # "not_reached" /\ left' \subseteq {"build_not_succeeded"}
      BY <1>2, <2>4 DEF Build, Records
    <3>. QED BY <1>4, <2>1, <3>1 DEF TurnInv, Early, Importing
  <2>5. CASE Cleanup
    <3>1. /\ pc = "cleanup" /\ pc' = "cleaned" /\ record'.import = record.import
          /\ record'.cleanup # "not_reached" /\ left' \subseteq {"cleanup_pending"}
      BY <1>2, <2>5 DEF Cleanup, Records
    <3>. QED BY <1>4, <2>1, <3>1 DEF TurnInv, Early, Importing
  <2>6. CASE RawScan \/ Removed
    BY <1>1, <1>4, <2>1, <2>6 DEF RawScan, Removed, TurnInv, Early, Importing
  <2>7. CASE Busy \/ Surprise
    BY <1>1, <1>2, <1>4, <2>1, <2>7 DEF Busy, Surprise, TurnInv, Early, Importing,
       Records
  <2>. QED BY <2>2, <2>3, <2>4, <2>5, <2>6, <2>7
<1>8. HereInv'
  <2>1. HereInv
    BY DEF IInv
  <2>2. CASE Import
    BY <1>1, <1>4, <2>1, <2>2 DEF Import, HereInv, Importing, Early
  <2>3. CASE Imported
    BY <1>1, <1>2, <1>4, <2>1, <2>3 DEF Imported, HereInv, Importing, Early, Records
  <2>4. CASE Build
    <3>1. /\ pc = "build" /\ pc' = "built" /\ record'.import = record.import
          /\ record'.state = record.state
          /\ ~record'.failed => ~record.failed /\ record'.build = "settled"
      BY <1>2, <2>4 DEF Build, Records
    <3>. QED BY <1>4, <2>1, <3>1 DEF HereInv, Importing, Early
  <2>5. CASE Cleanup
    <3>1. /\ pc = "cleanup" /\ pc' = "cleaned" /\ record'.import = record.import
          /\ record'.state = record.state /\ record'.build = record.build
          /\ ~record'.failed => ~record.failed /\ record'.cleanup \in {"settled", "pending"}
      BY <1>2, <2>5 DEF Cleanup, Records
    <3>. QED BY <1>4, <2>1, <3>1 DEF HereInv, Importing, Early
  <2>6. CASE RawScan \/ Removed
    BY <1>1, <1>4, <2>1, <2>6 DEF RawScan, Removed, HereInv, Importing, Early
  <2>7. CASE Busy \/ Surprise
    BY <1>1, <1>2, <1>4, <2>1, <2>7 DEF Busy, Surprise, HereInv, Importing, Early,
       Records
  <2>. QED BY <2>2, <2>3, <2>4, <2>5, <2>6, <2>7
<1>9. TypeOK'
  BY <1>3, <1>6 DEF TypeOK, RunsType, ProcessType, HistoryType
<1>. QED BY <1>3, <1>5, <1>7, <1>8, <1>9 DEF IInv

(* Signal: a turn is to be written as aborted, or only the run. *)
LEMMA SignalStep == ASSUME IInv, Signal PROVE IInv'
<1>1. /\ pc \notin {"idle", "aborting", "aborted"} /\ pc' \in {"aborting", "aborted"}
      /\ pc' = "aborting" => pc \notin {"turn", "ending"}
      /\ runs' = runs /\ last' = last /\ result' = result /\ lost' = lost
      /\ at' = at /\ failed' = failed /\ left' = left /\ todo' = todo /\ plan' = plan
      /\ complete' = complete
  BY DEF Signal, InTurn, history
<1>2. RunsType /\ ProcessType /\ HistoryType
  BY TypeParts DEF IInv
<1>3. /\ RunsType' /\ HistoryType' /\ DayInv' /\ StepInv' /\ SuccessIsWhole'
      /\ This' = This /\ runs'[This].state = runs[This].state
      /\ \A n, c : Row(n, c)' = Row(n, c)
  BY <1>1, NothingWritten
<1>4. Mine' = Mine
  BY <1>1, <1>3 DEF Mine
<1>5. pc' # "aborted" => at \in Cluster
  BY <1>1 DEF IInv, FreshInv
<1>6. FreshInv' /\ OverInv'
  BY <1>1, <1>3, <1>5, OthersStay
<1>7. ProcessType'
  <2>1. record' \in Records
    BY <1>2 DEF Signal, ProcessType, Records
  <2>2. stops' \in 0 .. MaxStops
    BY <1>2, Constants DEF Signal, Stops, ProcessType
  <2>3. pc' \in Places /\ This' > 0 /\ runs'[This].state = "running"
    BY <1>1, <1>2, <1>3 DEF Places, ProcessType
  <2>. QED BY <1>1, <1>2, <1>3, <2>1, <2>2, <2>3 DEF ProcessType
<1>8. TurnInv'
  <2>1. TurnInv
    BY DEF IInv
  <2>2. pc' = "aborting" => record'.import = record.import
    BY <1>2 DEF Signal, ProcessType, Records
  <2>. QED BY <1>1, <1>4, <2>1, <2>2 DEF TurnInv, Early, Importing
<1>9. HereInv'
  BY <1>1 DEF HereInv
<1>10. TypeOK'
  BY <1>3, <1>7 DEF TypeOK, RunsType, ProcessType, HistoryType
<1>. QED BY <1>3, <1>6, <1>8, <1>9, <1>10 DEF IInv

(* What nothing of a process is left of. *)
LEMMA NothingLeft ==
  ASSUME Gone
  PROVE  /\ pc' = "idle" /\ at' \in 1 .. Clusters + 1
         /\ record' \in Records /\ left' \in SUBSET StepKinds /\ failed' \in BOOLEAN
         /\ todo' \subseteq Day /\ plan' \subseteq Day
         /\ FreshInv' /\ TurnInv' /\ OverInv' /\ HereInv'
<1>1. at' \in 1 .. Clusters + 1
  BY Constants DEF Gone
<1>2. record' \in Records
  BY DEF Gone, Blank, Records
<1>3. FreshInv'
  BY DEF Gone, FreshInv, Blank
<1>4. TurnInv' /\ OverInv' /\ HereInv'
  BY DEF Gone, TurnInv, OverInv, HereInv
<1>. QED BY <1>1, <1>2, <1>3, <1>4 DEF Gone

(* Kill: the process is gone, the rows stay. *)
LEMMA KillStep == ASSUME IInv, Kill PROVE IInv'
<1>1. /\ runs' = runs /\ last' = last /\ result' = result /\ lost' = lost
      /\ complete' = complete /\ Gone
  BY DEF Kill, history
<1>2. RunsType /\ ProcessType /\ HistoryType
  BY TypeParts DEF IInv
<1>3. /\ RunsType' /\ HistoryType' /\ DayInv' /\ StepInv' /\ SuccessIsWhole'
  BY <1>1, NothingWritten
<1>4. stops' \in 0 .. MaxStops
  BY <1>2, Constants DEF Kill, Stops, ProcessType
<1>5. ProcessType'
  BY <1>1, <1>2, <1>4, NothingLeft, Zenon DEF ProcessType, Places
<1>6. TypeOK'
  BY <1>3, <1>5 DEF TypeOK, RunsType, ProcessType, HistoryType
<1>. QED BY <1>1, <1>3, <1>6, NothingLeft DEF IInv

-----------------------------------------------------------------------------
(* The ends of a run, and its beginning.                                   *)

(* A run that ends leaves every turn as it is. *)
LEMMA EndFrame ==
  ASSUME IInv, pc # "idle", NEW how \in {"finished", "aborted"}, NEW bad \in BOOLEAN,
         runs' = [runs EXCEPT ![This] = [@ EXCEPT !.state = how, !.failed = bad]],
         last' = last, result' = result, lost' = lost, complete' = complete, stops' = stops,
         Gone,
         how = "finished" /\ ~bad => \A c \in Cluster : WholeTurn(Row(This, c))
  PROVE  IInv'
<1>1. RunsType /\ ProcessType /\ HistoryType /\ This \in Nat /\ This > 0
  BY TypeParts DEF IInv, RunsType, ProcessType
<1>2. /\ runs' \in Seq(RunRows) /\ This' = This
      /\ \A n \in 1 .. This :
            /\ \A c \in Cluster : Row(n, c)' = Row(n, c)
            /\ runs'[n].state = IF n = This THEN how ELSE runs[n].state
            /\ runs'[n].failed = IF n = This THEN bad ELSE runs[n].failed
  BY <1>1, Closed
<1>3. RunsType'
  BY <1>1, <1>2 DEF RunsType
<1>4. HistoryType' /\ ProcessType'
  <2>1. HistoryType'
    BY <1>1 DEF HistoryType
  <2>2. ProcessType'
    BY <1>1, NothingLeft, Zenon DEF ProcessType, Places
  <2>. QED BY <2>1, <2>2
<1>5. DayInv'
  <2>. SUFFICES ASSUME NEW c \in Cluster, NEW d \in Day PROVE DayOK(c, d)'
    BY DEF DayInv
  <2>1. DayOK(c, d)
    BY DEF IInv, DayInv
  <2>2. ASSUME NEW n \in 1 .. This
        PROVE  /\ KindsFound(c, n, d)' = KindsFound(c, n, d)
               /\ (d \in Row(n, c).examined)' <=> d \in Row(n, c).examined
               /\ (Row(n, c).import = "done")' <=> Row(n, c).import = "done"
    <3>1. Row(n, c)' = Row(n, c)
      BY <1>2
    <3>2. KindsFound(c, n, d)' = {k \in Kinds : <<d, k>> \in Row(n, c)'.found}
      BY <1>2 DEF KindsFound, Turns, Row
    <3>. QED BY <3>1, <3>2, KindsAre
  <2>. QED BY <1>1, <1>2, <2>1, <2>2, DayStays
<1>6. StepInv'
  <2>. SUFFICES ASSUME NEW c \in Cluster, NEW s \in Steps PROVE StepOK(c, s)'
    BY DEF StepInv
  <2>1. StepOK(c, s)
    BY DEF IInv, StepInv
  <2>2. ASSUME NEW n \in 1 .. This
        PROVE  /\ (Row(n, c)[s])' = Row(n, c)[s]
               /\ (Row(n, c).left)' \cap {StepKind(s)} = Row(n, c).left \cap {StepKind(s)}
    <3>1. Row(n, c)' = Row(n, c)
      BY <1>2
    <3>. QED BY <3>1
  <2>3. /\ result'[c][s] = result[c][s] /\ (<<c, s>> \in lost => <<c, s>> \in lost')
        /\ This' \in Nat /\ This <= This'
        /\ \A n \in 1 .. This' : n > This => Row(n, c)' = Pending
    BY <1>1, <1>2
  <2>. QED BY <1>1, <2>1, <2>2, <2>3, StepStays
<1>7. SuccessIsWhole'
  <2>1. ASSUME NEW n \in 1 .. This', runs'[n].state = "finished", ~runs'[n].failed,
               NEW c \in Cluster
        PROVE  WholeTurn(Row(n, c)')
    <3>1. Row(n, c)' = Row(n, c)
      BY <1>2
    <3>2. WholeTurn(Row(n, c))
      <4>1. CASE n = This
        BY <1>2, <2>1, <4>1
      <4>2. CASE n # This
        BY <1>2, <2>1, <4>2, SuccessIs DEF IInv
      <4>. QED BY <4>1, <4>2
    <3>. QED BY <3>1, <3>2
  <2>2. \A n \in 1 .. This' : runs'[n].state = "finished" /\ ~runs'[n].failed =>
            \A c \in Cluster : WholeTurn(Row(n, c)')
    BY <2>1
  <2>. QED BY <2>2 DEF SuccessIsWhole, WholeTurn, Row
<1>8. TypeOK'
  BY <1>3, <1>4 DEF TypeOK, RunsType, ProcessType, HistoryType
<1>. QED BY <1>5, <1>6, <1>7, <1>8, NothingLeft DEF IInv

(* Finish: all turns are over. *)
LEMMA FinishStep == ASSUME IInv, Finish PROVE IInv'
<1>1. RunsType /\ ProcessType /\ This \in Nat /\ This > 0 /\ runs[This] \in RunRows
  <2>1. pc # "idle"
    BY DEF Finish
  <2>2. RunsType /\ ProcessType /\ This \in Nat /\ This > 0
    BY <2>1, TypeParts DEF IInv, RunsType, ProcessType
  <2>. QED BY <2>2, RowType
<1>2. runs' = [runs EXCEPT ![This] = [@ EXCEPT !.state = "finished", !.failed = failed]]
  BY <1>1 DEF Finish
<1>3. \A c \in Cluster : c < at
  BY <1>1, Constants DEF Finish, Cluster, ProcessType
<1>4. ~failed => \A c \in Cluster : WholeTurn(Row(This, c))
  BY <1>3 DEF IInv, OverInv, Finish
<1>5. /\ pc # "idle" /\ failed \in BOOLEAN /\ Gone /\ complete' = complete
      /\ last' = last /\ result' = result /\ lost' = lost /\ stops' = stops
  BY <1>1 DEF Finish, history, ProcessType
<1>. QED BY <1>2, <1>4, <1>5, EndFrame

(* RunAborted: a run that was stopped. *)
LEMMA RunAbortedStep == ASSUME IInv, RunAborted PROVE IInv'
<1>1. /\ pc # "idle" /\ Gone /\ complete' = complete
      /\ last' = last /\ result' = result /\ lost' = lost /\ stops' = stops
  BY DEF RunAborted, history
<1>2. RunsType /\ This \in Nat /\ This > 0 /\ runs[This] \in RunRows
  <2>1. RunsType /\ This \in Nat /\ This > 0
    BY <1>1, TypeParts DEF IInv, RunsType, ProcessType
  <2>. QED BY <2>1, RowType
<1>3. PICK bad \in BOOLEAN : bad = runs[This].failed
  BY <1>2 DEF RunRows
<1>4. runs' = [runs EXCEPT ![This] = [@ EXCEPT !.state = "aborted", !.failed = bad]]
  <2>1. [runs[This] EXCEPT !.state = "aborted", !.failed = bad]
        = [runs[This] EXCEPT !.state = "aborted"]
    BY <1>2, <1>3 DEF RunRows
  <2>2. runs' = [runs EXCEPT ![This] = [@ EXCEPT !.state = "aborted"]]
    BY DEF RunAborted
  <2>. QED BY <2>1, <2>2
<1>. QED BY <1>1, <1>4, EndFrame

(* Begin: a new run has said nothing, and one that was left open is over. *)
LEMMA BeginStep == ASSUME IInv, Begin PROVE IInv'
<1>1. /\ pc = "idle" /\ pc' = "turn" /\ at' = at /\ record' = record /\ left' = left
      /\ failed' = failed /\ todo' = todo /\ plan' = plan /\ complete' = complete
      /\ last' = last /\ result' = result /\ lost' = lost /\ stops' = stops /\ This < MaxRuns
  BY DEF Begin, history
<1>2. RunsType /\ ProcessType /\ HistoryType /\ This \in Nat
  BY TypeParts DEF IInv, RunsType
<1>3. /\ runs' \in Seq(RunRows) /\ This' = This + 1
      /\ \A c \in Cluster : runs'[This + 1].turns[c] = Pending
      /\ runs'[This + 1].state = "running" /\ runs'[This + 1].failed = FALSE
      /\ \A n \in 1 .. This :
            /\ \A c \in Cluster : Row(n, c)' = Row(n, c)
            /\ runs'[n].failed = runs[n].failed
            /\ runs'[n].state = IF runs[n].state = "running" THEN "unfinished"
                                ELSE runs[n].state
  BY <1>2, Begun
<1>4. \A n \in 1 .. This' : n > This => n = This + 1 /\ \A c \in Cluster : Row(n, c)' = Pending
  BY <1>2, <1>3 DEF Row
<1>5. RunsType'
  BY <1>1, <1>2, <1>3, Constants DEF RunsType
<1>6. HistoryType' /\ ProcessType'
  <2>1. HistoryType'
    BY <1>1, <1>2 DEF HistoryType
  <2>2. This' > 0 /\ runs'[This'].state = "running"
    BY <1>2, <1>3
  <2>. QED BY <1>1, <1>2, <2>1, <2>2 DEF ProcessType, Places
<1>7. DayInv'
  <2>. SUFFICES ASSUME NEW c \in Cluster, NEW d \in Day PROVE DayOK(c, d)'
    BY DEF DayInv
  <2>1. DayOK(c, d)
    BY DEF IInv, DayInv
  <2>2. ASSUME NEW n \in 1 .. This
        PROVE  /\ KindsFound(c, n, d)' = KindsFound(c, n, d)
               /\ (d \in Row(n, c).examined)' <=> d \in Row(n, c).examined
               /\ (Row(n, c).import = "done")' <=> Row(n, c).import = "done"
    <3>1. Row(n, c)' = Row(n, c) /\ n \in 1 .. This'
      BY <1>2, <1>3
    <3>2. KindsFound(c, n, d)' = {k \in Kinds : <<d, k>> \in Row(n, c)'.found}
      BY <3>1 DEF KindsFound, Turns, Row
    <3>. QED BY <3>1, <3>2, KindsAre
  <2>. QED BY <1>1, <1>2, <1>3, <1>4, <2>1, <2>2, DayStays
<1>8. StepInv'
  <2>. SUFFICES ASSUME NEW c \in Cluster, NEW s \in Steps PROVE StepOK(c, s)'
    BY DEF StepInv
  <2>1. StepOK(c, s)
    BY DEF IInv, StepInv
  <2>2. ASSUME NEW n \in 1 .. This
        PROVE  /\ (Row(n, c)[s])' = Row(n, c)[s]
               /\ (Row(n, c).left)' \cap {StepKind(s)} = Row(n, c).left \cap {StepKind(s)}
    <3>1. Row(n, c)' = Row(n, c)
      BY <1>3
    <3>. QED BY <3>1
  <2>3. /\ result'[c][s] = result[c][s] /\ (<<c, s>> \in lost => <<c, s>> \in lost')
        /\ This' \in Nat /\ This <= This'
        /\ \A n \in 1 .. This' : n > This => Row(n, c)' = Pending
    BY <1>1, <1>2, <1>3, <1>4
  <2>. QED BY <1>2, <2>1, <2>2, <2>3, StepStays
<1>9. SuccessIsWhole'
  <2>1. ASSUME NEW n \in 1 .. This', runs'[n].state = "finished", ~runs'[n].failed,
               NEW c \in Cluster
        PROVE  WholeTurn(Row(n, c)')
    <3>1. n # This + 1
      BY <1>3, <2>1
    <3>2. n \in 1 .. This
      BY <1>2, <1>3, <3>1
    <3>3. runs[n].state = "finished" /\ ~runs[n].failed /\ Row(n, c)' = Row(n, c)
      BY <1>3, <2>1, <3>2
    <3>. QED BY <3>2, <3>3, SuccessIs DEF IInv
  <2>2. \A n \in 1 .. This' : runs'[n].state = "finished" /\ ~runs'[n].failed =>
            \A c \in Cluster : WholeTurn(Row(n, c)')
    BY <2>1
  <2>. QED BY <2>2 DEF SuccessIsWhole, WholeTurn, Row
<1>10. FreshInv'
  <2>1. \A c \in Cluster : Row(This, c)' = Pending
    BY <1>3 DEF Row
  <2>2. record' = Blank
    BY <1>1 DEF IInv, FreshInv
  <2>. QED BY <1>1, <2>1, <2>2 DEF FreshInv
<1>11. TurnInv' /\ HereInv'
  BY <1>1 DEF TurnInv, HereInv
<1>12. OverInv'
  <2>1. \A c \in Cluster : ~(c < at')
    BY <1>1, Constants DEF IInv, FreshInv, Cluster
  <2>. QED BY <2>1 DEF OverInv
<1>13. TypeOK'
  BY <1>5, <1>6 DEF TypeOK, RunsType, ProcessType, HistoryType
<1>. QED BY <1>7, <1>8, <1>9, <1>10, <1>11, <1>12, <1>13 DEF IInv

-----------------------------------------------------------------------------
(* The steps within a run that write.                                      *)

(* A write within the run that leaves the steps and their problems alone. *)
LEMMA ContentWrite ==
  ASSUME IInv, pc # "idle", at \in Cluster, NEW turn \in TurnRows, Write(turn),
         at' = at, failed' = failed, pc' \notin {"idle", "turn"},
         turn.build = Mine.build, turn.cleanup = Mine.cleanup, turn.left = Mine.left,
         result' = result, lost' = lost
  PROVE  /\ RunsType' /\ SuccessIsWhole' /\ FreshInv' /\ OverInv' /\ StepInv'
         /\ This' = This /\ runs'[This].state = "running" /\ Mine' = turn
<1>1. /\ RunsType' /\ SuccessIsWhole'
      /\ This' = This /\ This \in Nat /\ This > 0 /\ runs'[This].state = "running"
      /\ runs'[This].turns[at] = turn
      /\ \A c \in Cluster : c # at => Row(This, c)' = Row(This, c)
  BY WriteFrame
<1>2. FreshInv' /\ OverInv'
  BY <1>1, OthersStay
<1>3. StepInv'
  <2>. SUFFICES ASSUME NEW c \in Cluster, NEW s \in Steps PROVE StepOK(c, s)'
    BY DEF StepInv
  <2>1. turn[s] = Mine[s]
    BY DEF Steps
  <2>2. result'[c][s] = result[c][s] /\ (<<c, s>> \in lost => <<c, s>> \in lost')
    OBVIOUS
  <2>3. turn.left \cap {StepKind(s)} = Mine.left \cap {StepKind(s)}
    OBVIOUS
  <2>. QED BY <2>1, <2>2, <2>3, StepsStay
<1>4. Mine' = turn
  BY <1>1 DEF Mine
<1>. QED BY <1>1, <1>2, <1>3, <1>4

(* Start: the turn of the next cluster begins. *)
LEMMA StartStep == ASSUME IInv, Start PROVE IInv'
<1>. DEFINE turn == [Mine EXCEPT !.state = "running"]
<1>1. /\ pc = "turn" /\ pc' = "started" /\ at' = at /\ record' = record /\ left' = left
      /\ failed' = failed /\ todo' = todo /\ plan' = plan /\ complete' = complete
      /\ last' = last /\ result' = result /\ lost' = lost /\ stops' = stops
      /\ Write(turn)
  BY DEF Start, history
<1>2. RunsType /\ ProcessType /\ HistoryType /\ This \in Nat /\ This > 0 /\ at \in Cluster
  BY <1>1, TypeParts, Constants DEF IInv, RunsType, ProcessType, Start, Cluster
<1>3. Mine = Row(This, at) /\ Mine \in TurnRows /\ Mine = Pending /\ record = Blank
  BY <1>1, <1>2, MineIs DEF IInv, FreshInv
<1>4. /\ turn \in TurnRows /\ turn.import = Mine.import /\ turn.build = Mine.build
      /\ turn.cleanup = Mine.cleanup /\ turn.left = Mine.left
      /\ turn.examined = Mine.examined /\ turn.found = Mine.found
  BY <1>3 DEF TurnRows
<1>. HIDE DEF turn
<1>5. /\ RunsType' /\ SuccessIsWhole' /\ FreshInv' /\ OverInv' /\ StepInv'
      /\ This' = This /\ runs'[This].state = "running" /\ Mine' = turn
  BY <1>1, <1>2, <1>4, ContentWrite
<1>6. DayInv'
  BY <1>1, <1>2, <1>4, SameContent DEF IInv
<1>7. TurnInv'
  BY <1>1, <1>3, <1>4, <1>5 DEF TurnInv, Pending, Early, Importing
<1>8. HereInv'
  BY <1>1, <1>3, <1>4, <1>5 DEF HereInv, Pending, Blank, Early, Importing
<1>9. ProcessType'
  BY <1>1, <1>2, <1>5 DEF ProcessType, Places
<1>10. HistoryType'
  BY <1>1, <1>2 DEF HistoryType
<1>11. TypeOK'
  BY <1>5, <1>9, <1>10 DEF TypeOK, RunsType, ProcessType, HistoryType
<1>. QED BY <1>5, <1>6, <1>7, <1>8, <1>11 DEF IInv

(* Incomplete: the import has begun. *)
LEMMA IncompleteStep == ASSUME IInv, Incomplete PROVE IInv'
<1>. DEFINE turn == [Mine EXCEPT !.import = "incomplete"]
<1>1. /\ pc = "started" /\ pc' = "scan" /\ at' = at /\ left' = left
      /\ record' = [record EXCEPT !.import = "incomplete"]
      /\ failed' = failed /\ todo' = todo /\ plan' = plan /\ complete' = complete
      /\ last' = last /\ result' = result /\ lost' = lost /\ stops' = stops
      /\ Write(turn)
  BY DEF Incomplete, history
<1>2. /\ at \in Cluster /\ This \in Nat /\ This > 0
      /\ Mine = Row(This, at) /\ Mine \in TurnRows /\ record \in Records
      /\ RunsType /\ ProcessType /\ HistoryType
  BY <1>1, InTheTurn
<1>3. Mine.examined = {} /\ Mine.found = {} /\ Mine.import # "done" /\ Mine.left = {}
  BY <1>1 DEF IInv, TurnInv, Early, Importing
<1>4. /\ turn \in TurnRows /\ turn.import = "incomplete" /\ turn.build = Mine.build
      /\ turn.cleanup = Mine.cleanup /\ turn.left = Mine.left
      /\ turn.examined = Mine.examined /\ turn.found = Mine.found
  BY <1>2 DEF TurnRows
<1>. HIDE DEF turn
<1>5. /\ RunsType' /\ SuccessIsWhole' /\ FreshInv' /\ OverInv' /\ StepInv'
      /\ This' = This /\ runs'[This].state = "running" /\ Mine' = turn
  BY <1>1, <1>2, <1>4, ContentWrite
<1>6. DayInv'
  BY <1>1, <1>2, <1>3, <1>4, SameContent DEF IInv
<1>7. TurnInv'
  BY <1>1, <1>3, <1>4, <1>5 DEF TurnInv, Early, Importing
<1>8. HereInv'
  <2>1. record'.failed = record.failed /\ record'.state = record.state
    BY <1>1, <1>2 DEF Records
  <2>2. ~record.failed => record.state = "done"
    BY <1>1 DEF IInv, HereInv
  <2>. QED BY <1>1, <1>3, <1>4, <1>5, <2>1, <2>2 DEF HereInv, Early, Importing
<1>9. ProcessType'
  <2>1. record' \in Records
    BY <1>1, <1>2 DEF Records
  <2>. QED BY <1>1, <1>2, <1>5, <2>1 DEF ProcessType, Places
<1>10. HistoryType'
  BY <1>1, <1>2 DEF HistoryType
<1>11. TypeOK'
  BY <1>5, <1>9, <1>10 DEF TypeOK, RunsType, ProcessType, HistoryType
<1>. QED BY <1>5, <1>6, <1>7, <1>8, <1>11 DEF IInv

(* Scan: what needs no closer look is written, and what is to be done. *)
LEMMA ScanningStep == ASSUME IInv, Scan PROVE IInv'
<1>1. /\ pc = "scan" /\ pc' = "days" /\ at' = at /\ record' = record /\ left' = left
      /\ failed' = failed /\ complete' = complete
      /\ result' = result /\ lost' = lost /\ stops' = stops
  BY DEF Scan
<1>2. /\ at \in Cluster /\ This \in Nat /\ This > 0
      /\ Mine = Row(This, at) /\ Mine \in TurnRows /\ record \in Records
      /\ RunsType /\ ProcessType /\ HistoryType
  BY <1>1, InTheTurn
<1>3. Mine.examined = {} /\ Mine.found = {} /\ Mine.import # "done" /\ Mine.left = {}
  BY <1>1 DEF IInv, TurnInv, Early, Importing
<1>4. PICK seen \in SUBSET Day, kind \in [Day -> Kinds] :
            /\ \A d \in seen : kind[d] # "day_failed"
            /\ Write([Mine EXCEPT !.examined = @ \cup seen,
                                  !.found = @ \cup {<<d, kind[d]>> : d \in seen}])
            /\ last' = [last EXCEPT ![at] = [d \in Day |->
                  IF d \in seen THEN [run |-> This, said |-> {kind[d]}] ELSE @[d]]]
  BY <1>2, ScanSees
<1>. DEFINE turn == [Mine EXCEPT !.examined = @ \cup seen,
                                 !.found = @ \cup {<<d, kind[d]>> : d \in seen}]
<1>5. /\ turn \in TurnRows /\ turn.import = Mine.import /\ turn.build = Mine.build
      /\ turn.cleanup = Mine.cleanup /\ turn.left = Mine.left
      /\ turn.found = {<<d, kind[d]>> : d \in seen}
  <2>1. Mine.found \cup {<<d, kind[d]>> : d \in seen} = {<<d, kind[d]>> : d \in seen}
    BY <1>3
  <2>2. PICK row \in TurnRows, problems \in SUBSET (Day \X Kinds) :
          row = Mine /\ problems = {<<d, kind[d]>> : d \in seen}
    <3>1. {<<d, kind[d]>> : d \in seen} \in SUBSET (Day \X Kinds)
      OBVIOUS
    <3>. HIDE DEF turn
    <3>. QED BY <1>2, <3>1
  <2>3. row.examined \cup seen = seen /\ row.found \cup problems = problems
    BY <1>3, <2>2
  <2>4. turn = [row EXCEPT !.examined = seen, !.found = problems]
    BY <2>2, <2>3
  <2>5. /\ turn \in TurnRows /\ turn.import = row.import /\ turn.build = row.build
        /\ turn.cleanup = row.cleanup /\ turn.left = row.left /\ turn.found = problems
    BY <2>4 DEF TurnRows
  <2>. HIDE DEF turn
  <2>. QED BY <2>2, <2>5
<1>6. Write(turn)
  BY <1>4
<1>. HIDE DEF turn
<1>7. /\ RunsType' /\ SuccessIsWhole' /\ FreshInv' /\ OverInv' /\ StepInv'
      /\ This' = This /\ runs'[This].state = "running" /\ Mine' = turn
  BY <1>1, <1>2, <1>5, <1>6, ContentWrite
<1>8. DayInv'
  BY <1>2, <1>3, ScanStep DEF IInv
<1>9. TurnInv'
  BY <1>1, <1>3, <1>5, <1>7 DEF TurnInv, Early, Importing
<1>10. HereInv'
  <2>1. \A d \in Day : <<d, "day_failed">> \notin turn.found
    BY <1>4, <1>5
  <2>2. ~record.failed => record.state = "done"
    BY <1>1 DEF IInv, HereInv
  <2>. QED BY <1>1, <1>7, <2>1, <2>2 DEF HereInv, Early, Importing
<1>11. ProcessType'
  <2>1. todo' \subseteq Day /\ plan' \subseteq Day
    BY <1>2 DEF Scan, ProcessType
  <2>. QED BY <1>1, <1>2, <1>7, <2>1 DEF ProcessType, Places
<1>12. HistoryType'
  <2>1. This \in 0 .. MaxRuns
    BY <1>2, Constants DEF RunsType
  <2>2. \A d \in Day : last[at][d] \in [run : 0 .. MaxRuns, said : SUBSET Kinds]
    BY <1>2 DEF HistoryType
  <2>3. [d \in Day |-> IF d \in seen THEN [run |-> This, said |-> {kind[d]}] ELSE last[at][d]]
        \in [Day -> [run : 0 .. MaxRuns, said : SUBSET Kinds]]
    BY <2>1, <2>2
  <2>. QED BY <1>1, <1>2, <1>4, <2>3 DEF HistoryType
<1>13. TypeOK'
  BY <1>7, <1>11, <1>12 DEF TypeOK, RunsType, ProcessType, HistoryType
<1>. QED BY <1>7, <1>8, <1>9, <1>10, <1>13 DEF IInv

(* A day is written as looked at; if it failed, the record knows. *)
LEMMA ExaminedKeeps ==
  ASSUME IInv, pc \in {"days", "day", "remove"}, pc' \in {"days", "remove"},
         pc' = "remove" <=> pc = "remove",
         NEW day \in Day, NEW kinds \in SUBSET Kinds, Examined(day, kinds),
         NEW bad \in BOOLEAN, record' = [record EXCEPT !.failed = bad],
         record.failed \/ "day_failed" \in kinds => bad,
         at' = at, left' = left, failed' = failed, complete' = complete, stops' = stops,
         todo' \subseteq Day, plan' \subseteq Day, result' = result, lost' = lost
  PROVE  IInv'
<1>1. /\ at \in Cluster /\ This \in Nat /\ This > 0
      /\ Mine = Row(This, at) /\ Mine \in TurnRows /\ record \in Records
      /\ RunsType /\ ProcessType /\ HistoryType
  BY InTheTurn
<1>. DEFINE turn == [Mine EXCEPT !.examined = @ \cup {day}, !.found = @ \cup Found(day, kinds)]
<1>2. /\ turn \in TurnRows /\ turn.import = Mine.import /\ turn.build = Mine.build
      /\ turn.cleanup = Mine.cleanup /\ turn.left = Mine.left
      /\ turn.found = Mine.found \cup Found(day, kinds)
  <2>1. PICK row \in TurnRows, days \in SUBSET Day, problems \in SUBSET (Day \X Kinds) :
          /\ row = Mine /\ days = Mine.examined \cup {day}
          /\ problems = Mine.found \cup Found(day, kinds)
    <3>1. Mine.examined \in SUBSET Day /\ Mine.found \in SUBSET (Day \X Kinds)
      BY <1>1 DEF TurnRows
    <3>2. Mine.examined \cup {day} \in SUBSET Day
      BY <3>1
    <3>3. Mine.found \cup Found(day, kinds) \in SUBSET (Day \X Kinds)
      BY <3>1, FoundIs
    <3>. HIDE DEF turn
    <3>. QED BY <1>1, <3>2, <3>3
  <2>2. turn = [row EXCEPT !.examined = days, !.found = problems]
    BY <2>1
  <2>3. /\ turn \in TurnRows /\ turn.import = row.import /\ turn.build = row.build
        /\ turn.cleanup = row.cleanup /\ turn.left = row.left /\ turn.found = problems
    BY <2>2 DEF TurnRows
  <2>. HIDE DEF turn
  <2>. QED BY <2>1, <2>3
<1>3. Write(turn) /\ last' = Says(day, kinds)
  BY DEF Examined
<1>. HIDE DEF turn
<1>4. /\ RunsType' /\ SuccessIsWhole' /\ FreshInv' /\ OverInv' /\ StepInv'
      /\ This' = This /\ runs'[This].state = "running" /\ Mine' = turn
  BY <1>1, <1>2, <1>3, ContentWrite
<1>5. DayInv'
  BY <1>1, ExaminedStep DEF IInv
<1>6. /\ record' \in Records /\ record'.failed = bad
      /\ record'.state = record.state /\ record'.import = record.import
      /\ record'.build = record.build /\ record'.cleanup = record.cleanup
  BY <1>1 DEF Records
<1>7. TurnInv'
  <2>1. (Mine.import = "done" => record.import = "done") /\ (pc # "remove" => Mine.left = {})
    BY DEF IInv, TurnInv, Early, Importing
  <2>. QED BY <1>2, <1>4, <1>6, <2>1 DEF TurnInv, Early, Importing
<1>8. HereInv'
  <2>1. \A d \in Day : <<d, "day_failed">> \in turn.found
            => <<d, "day_failed">> \in Mine.found \/ "day_failed" \in kinds
    BY <1>2, FoundIs
  <2>2. ~bad => /\ record.state = "done"
                /\ \A d \in Day : <<d, "day_failed">> \notin Mine.found
                /\ pc = "remove" => /\ record.import = "done" /\ record.build = "settled"
                                    /\ record.cleanup \in {"settled", "pending"}
    BY DEF IInv, HereInv, Early, Importing
  <2>3. ~bad => \A d \in Day : <<d, "day_failed">> \notin turn.found
    BY <2>1, <2>2
  <2>. QED BY <1>4, <1>6, <2>2, <2>3 DEF HereInv, Early, Importing
<1>9. ProcessType'
  BY <1>1, <1>4, <1>6 DEF ProcessType, Places
<1>10. HistoryType'
  <2>1. This \in 0 .. MaxRuns
    BY <1>1, Constants DEF RunsType
  <2>2. last[at][day].run \in 0 .. MaxRuns /\ last[at][day].said \in SUBSET Kinds
    BY <1>1 DEF HistoryType
  <2>. DEFINE said == [run |-> This, said |-> IF last[at][day].run = This
                                              THEN last[at][day].said \cup kinds ELSE kinds]
  <2>3. said \in [run : 0 .. MaxRuns, said : SUBSET Kinds]
    BY <2>1, <2>2
  <2>4. last' = [last EXCEPT ![at][day] = said]
    BY <1>3 DEF Says
  <2>. HIDE DEF said
  <2>. QED BY <1>1, <2>3, <2>4 DEF HistoryType
<1>11. TypeOK'
  BY <1>4, <1>9, <1>10 DEF TypeOK, RunsType, ProcessType, HistoryType
<1>. QED BY <1>4, <1>5, <1>7, <1>8, <1>11 DEF IInv

(* Compare: an imported day is as it was imported, or failed. *)
LEMMA CompareStep == ASSUME IInv, Compare PROVE IInv'
<1>1. pc = "days" /\ RunsType /\ ProcessType /\ record \in Records
  BY InTheTurn DEF Compare
<1>2. Min(todo) \in Day
  BY <1>1, MinIsIn DEF Compare, ProcessType
<1>3. PICK changed \in BOOLEAN :
        /\ Examined(Min(todo), IF changed THEN {"day_failed"} ELSE {})
        /\ record' = [record EXCEPT !.failed = @ \/ changed]
  BY DEF Compare
<1>4. PICK bad \in BOOLEAN : bad <=> record.failed \/ changed
  OBVIOUS
<1>5. record' = [record EXCEPT !.failed = bad]
  BY <1>1, <1>3, <1>4 DEF Records
<1>6. PICK kinds \in SUBSET Kinds : kinds = IF changed THEN {"day_failed"} ELSE {}
  BY DEF Kinds
<1>7. Examined(Min(todo), kinds) /\ (record.failed \/ "day_failed" \in kinds => bad)
  BY <1>3, <1>4, <1>6
<1>8. /\ at' = at /\ left' = left /\ failed' = failed /\ complete' = complete /\ stops' = stops
      /\ todo' \subseteq Day /\ plan' \subseteq Day /\ result' = result /\ lost' = lost
      /\ pc' = pc
  BY <1>1 DEF Compare, ProcessType
<1>. QED BY <1>1, <1>2, <1>5, <1>7, <1>8, ExaminedKeeps

(* DayDone: a day was imported, or failed. *)
LEMMA DayDoneStep == ASSUME IInv, DayDone PROVE IInv'
<1>1. pc = "day" /\ pc' = "days" /\ RunsType /\ ProcessType /\ record \in Records
  BY InTheTurn DEF DayDone
<1>2. Min(plan) \in Day
  <2>1. plan # {}
    BY <1>1 DEF IInv, TurnInv
  <2>. QED BY <1>1, <2>1, MinIsIn DEF ProcessType
<1>3. PICK fine \in BOOLEAN :
        /\ Examined(Min(plan), IF fine THEN {} ELSE {"day_failed"})
        /\ record' = [record EXCEPT !.failed = @ \/ ~fine]
  BY DEF DayDone
<1>4. PICK bad \in BOOLEAN : bad <=> record.failed \/ ~fine
  OBVIOUS
<1>5. record' = [record EXCEPT !.failed = bad]
  BY <1>1, <1>3, <1>4 DEF Records
<1>6. PICK kinds \in SUBSET Kinds : kinds = IF fine THEN {} ELSE {"day_failed"}
  BY DEF Kinds
<1>7. Examined(Min(plan), kinds) /\ (record.failed \/ "day_failed" \in kinds => bad)
  BY <1>3, <1>4, <1>6
<1>8. /\ at' = at /\ left' = left /\ failed' = failed /\ complete' = complete /\ stops' = stops
      /\ todo' \subseteq Day /\ plan' \subseteq Day /\ result' = result /\ lost' = lost
  BY <1>1 DEF DayDone, ProcessType
<1>. QED BY <1>1, <1>2, <1>5, <1>7, <1>8, ExaminedKeeps

(* Remove: an imported day is deleted, or fails. *)
LEMMA RemoveStep == ASSUME IInv, Remove PROVE IInv'
<1>1. /\ at \in Cluster /\ This \in Nat /\ This > 0
      /\ Mine = Row(This, at) /\ Mine \in TurnRows /\ record \in Records
      /\ RunsType /\ ProcessType /\ HistoryType /\ pc = "remove"
  BY InTheTurn DEF Remove
<1>2. Min(todo) \in Day
  BY <1>1, MinIsIn DEF Remove, ProcessType
<1>3. /\ at' = at /\ left' = left /\ failed' = failed /\ complete' = complete /\ stops' = stops
      /\ todo' \subseteq Day /\ plan' \subseteq Day /\ result' = result /\ lost' = lost
      /\ pc' = pc
  BY <1>1 DEF Remove, ProcessType
<1>4. CASE /\ record' = [record EXCEPT !.failed = TRUE]
           /\ Examined(Min(todo), {"day_failed"})
  <2>1. {"day_failed"} \in SUBSET Kinds
    BY DEF Kinds
  <2>. QED BY <1>1, <1>2, <1>3, <1>4, <2>1, ExaminedKeeps
<1>5. CASE /\ record' = record \/ record' = [record EXCEPT !.failed = TRUE]
           /\ runs' = runs /\ last' = last
  <2>1. /\ RunsType' /\ HistoryType' /\ DayInv' /\ StepInv' /\ SuccessIsWhole'
        /\ This' = This /\ runs'[This].state = runs[This].state
        /\ \A n, c : Row(n, c)' = Row(n, c)
    BY <1>3, <1>5, NothingWritten
  <2>2. Mine' = Mine
    BY <1>3, <1>5, <2>1 DEF Mine
  <2>3. /\ record' \in Records /\ record'.import = record.import /\ record'.state = record.state
        /\ record'.build = record.build /\ record'.cleanup = record.cleanup
        /\ record'.failed = record.failed \/ record'.failed = TRUE
    BY <1>1, <1>5 DEF Records
  <2>4. FreshInv' /\ OverInv'
    BY <1>1, <1>3, <2>1, OthersStay
  <2>5. TurnInv'
    BY <1>1, <1>3, <2>2, <2>3 DEF IInv, TurnInv, Early, Importing
  <2>6. HereInv'
    BY <1>1, <1>3, <2>2, <2>3 DEF IInv, HereInv, Early, Importing
  <2>7. ProcessType'
    BY <1>1, <1>3, <2>1, <2>3 DEF ProcessType
  <2>8. TypeOK'
    BY <2>1, <2>7 DEF TypeOK, RunsType, ProcessType, HistoryType
  <2>. QED BY <2>1, <2>4, <2>5, <2>6, <2>8 DEF IInv
<1>. QED BY <1>4, <1>5 DEF Remove

(* Whole: what it notes has its type. *)
LEMMA WholeType ==
  ASSUME RunsType, HistoryType, at \in Cluster, Whole
  PROVE  last' \in [Cluster -> [Day -> [run : 0 .. MaxRuns, said : SUBSET Kinds]]]
<1>1. This \in 0 .. MaxRuns
  BY Constants DEF RunsType
<1>2. \A d \in Day : last[at][d] \in [run : 0 .. MaxRuns, said : SUBSET Kinds]
  BY DEF HistoryType
<1>. DEFINE said == [d \in Day |-> IF d \in Mine.examined THEN last[at][d]
                                   ELSE [run |-> This, said |-> {}]]
<1>3. said \in [Day -> [run : 0 .. MaxRuns, said : SUBSET Kinds]]
  BY <1>1, <1>2
<1>4. last' = [last EXCEPT ![at] = said]
  BY DEF Whole
<1>. HIDE DEF said
<1>. QED BY <1>3, <1>4 DEF HistoryType

(* ImportDone: all days have been looked at. *)
LEMMA ImportDoneStep == ASSUME IInv, ImportDone PROVE IInv'
<1>. DEFINE turn == [Mine EXCEPT !.import = "done"]
<1>1. /\ pc = "imported" /\ pc' = "build" /\ at' = at /\ record' = record /\ left' = left
      /\ failed' = failed /\ todo' = todo /\ plan' = plan /\ complete' = complete
      /\ result' = result /\ lost' = lost /\ stops' = stops
      /\ Write(turn) /\ Whole
  BY DEF ImportDone
<1>2. /\ at \in Cluster /\ This \in Nat /\ This > 0
      /\ Mine = Row(This, at) /\ Mine \in TurnRows /\ record \in Records
      /\ RunsType /\ ProcessType /\ HistoryType
  BY <1>1, InTheTurn
<1>3. /\ turn \in TurnRows /\ turn.import = "done" /\ turn.build = Mine.build
      /\ turn.cleanup = Mine.cleanup /\ turn.left = Mine.left
      /\ turn.examined = Mine.examined /\ turn.found = Mine.found
  BY <1>2 DEF TurnRows
<1>. HIDE DEF turn
<1>4. /\ RunsType' /\ SuccessIsWhole' /\ FreshInv' /\ OverInv' /\ StepInv'
      /\ This' = This /\ runs'[This].state = "running" /\ Mine' = turn
  BY <1>1, <1>2, <1>3, ContentWrite
<1>5. DayInv'
  BY <1>1, <1>2, <1>3, WholeStep DEF IInv
<1>6. record.import = "done" /\ Mine.left = {}
  BY <1>1 DEF IInv, TurnInv, Early, Importing
<1>7. TurnInv'
  BY <1>1, <1>3, <1>4, <1>6 DEF TurnInv, Early, Importing
<1>8. HereInv'
  BY <1>1, <1>3, <1>4, <1>6 DEF IInv, HereInv, Early, Importing
<1>9. ProcessType'
  BY <1>1, <1>2, <1>4 DEF ProcessType, Places
<1>10. HistoryType'
  BY <1>1, <1>2, WholeType DEF HistoryType
<1>11. TypeOK'
  BY <1>4, <1>9, <1>10 DEF TypeOK, RunsType, ProcessType, HistoryType
<1>. QED BY <1>4, <1>5, <1>7, <1>8, <1>11 DEF IInv

(* The result of a step is written with the problems it leaves. *)
LEMMA StepDoneKeeps ==
  ASSUME IInv, NEW step \in Steps, StepDone(step),
         step = "build" => pc = "built" /\ pc' = "cleanup",
         step = "cleanup" => pc = "cleaned" /\ pc' = "raw",
         at' = at, record' = record, left' = {}, failed' = failed, todo' = todo, plan' = plan,
         complete' = complete, last' = last, stops' = stops
  PROVE  IInv'
<1>. DEFINE turn == [Mine EXCEPT ![step] = record[step], !.left = @ \cup left]
<1>1. /\ pc \in {"built", "cleaned"} /\ pc' \in {"cleanup", "raw"} /\ Write(turn)
      /\ result' = [result EXCEPT ![at][step] = left] /\ lost' = lost \ {<<at, step>>}
  BY DEF StepDone, Steps
<1>2. /\ at \in Cluster /\ This \in Nat /\ This > 0
      /\ Mine = Row(This, at) /\ Mine \in TurnRows /\ record \in Records
      /\ RunsType /\ ProcessType /\ HistoryType
  BY <1>1, InTheTurn
<1>3. /\ record[step] # "not_reached" /\ left \subseteq {StepKind(step)}
      /\ Mine.left \cap {StepKind(step)} = {}
      /\ step = "build" => Mine.left = {}
      /\ Mine.import = "done" => record.import = "done"
  BY DEF IInv, TurnInv, Steps, StepKind, Early, Importing
<1>4. /\ turn \in TurnRows /\ turn.left = Mine.left \cup left
      /\ turn.import = Mine.import /\ turn.state = Mine.state
      /\ turn.examined = Mine.examined /\ turn.found = Mine.found
      /\ turn[step] = record[step]
      /\ \A s \in Steps : s # step => turn[s] = Mine[s]
  <2>1. left \in SUBSET StepKinds
    BY <1>2 DEF ProcessType
  <2>2. CASE step = "build"
    <3>1. turn = [Mine EXCEPT !.build = record.build, !.left = Mine.left \cup left]
      BY <2>2
    <3>. HIDE DEF turn
    <3>. QED BY <1>2, <2>1, <2>2, <3>1 DEF TurnRows, Records, Steps
  <2>3. CASE step = "cleanup"
    <3>1. turn = [Mine EXCEPT !.cleanup = record.cleanup, !.left = Mine.left \cup left]
      BY <2>3
    <3>. HIDE DEF turn
    <3>. QED BY <1>2, <2>1, <2>3, <3>1 DEF TurnRows, Records, Steps
  <2>. QED BY <2>2, <2>3 DEF Steps
<1>. HIDE DEF turn
<1>5. /\ RunsType' /\ SuccessIsWhole'
      /\ This' = This /\ runs'[This].state = "running"
      /\ runs'[This].turns[at] = turn
      /\ \A c \in Cluster : c # at => Row(This, c)' = Row(This, c)
  BY <1>1, <1>2, <1>4, WriteFrame
<1>6. Mine' = turn
  BY <1>5 DEF Mine
<1>7. FreshInv' /\ OverInv'
  BY <1>1, <1>2, <1>5, OthersStay
<1>8. DayInv'
  BY <1>1, <1>2, <1>4, SameContent DEF IInv
<1>9. StepInv'
  <2>. SUFFICES ASSUME NEW c \in Cluster, NEW s \in Steps PROVE StepOK(c, s)'
    BY DEF StepInv
  <2>1. CASE c = at /\ s = step
    <3>1. (Row(This, c)[s])' = record[step] /\ (Row(This, c).left)' = Mine.left \cup left
      BY <1>4, <1>5, <2>1 DEF Row
    <3>2. result'[c][s] = left
      BY <1>1, <1>2, <2>1 DEF HistoryType
    <3>3. (Row(This, c).left)' \cap {StepKind(s)} = result'[c][s]
      BY <1>3, <2>1, <3>1, <3>2
    <3>4. (Row(This, c)[s])' # "not_reached"
      BY <1>3, <3>1
    <3>. QED BY <1>2, <1>5, <3>3, <3>4, StepConcluded
  <2>2. CASE ~(c = at /\ s = step)
    <3>1. result'[c][s] = result[c][s] /\ (<<c, s>> \in lost => <<c, s>> \in lost')
      BY <1>1, <1>2, <2>2 DEF HistoryType
    <3>2. c = at => turn[s] = Mine[s] /\ turn.left \cap {StepKind(s)} = Mine.left \cap {StepKind(s)}
      <4>1. s # step => StepKind(s) \notin {StepKind(step)}
        BY DEF Steps, StepKind
      <4>. QED BY <1>3, <1>4, <2>2, <4>1
    <3>. QED BY <1>1, <1>2, <1>4, <3>1, <3>2, StepsStay
  <2>. QED BY <2>1, <2>2
<1>10. TurnInv'
  BY <1>1, <1>3, <1>4, <1>6 DEF TurnInv, Early, Importing, Steps, StepKind
<1>11. HereInv'
  BY <1>1, <1>4, <1>6 DEF IInv, HereInv, Early, Importing, Steps
<1>12. ProcessType'
  BY <1>1, <1>2, <1>5 DEF ProcessType, Places
<1>13. HistoryType'
  BY <1>1, <1>2 DEF HistoryType, ProcessType
<1>14. TypeOK'
  BY <1>5, <1>12, <1>13 DEF TypeOK, RunsType, ProcessType, HistoryType
<1>. QED BY <1>5, <1>7, <1>8, <1>9, <1>10, <1>11, <1>14 DEF IInv

(* BuildDone and CleanupDone. *)
LEMMA StepDoneStep == ASSUME IInv, BuildDone \/ CleanupDone PROVE IInv'
<1>1. CASE BuildDone
  BY <1>1, StepDoneKeeps DEF BuildDone, Steps
<1>2. CASE CleanupDone
  BY <1>2, StepDoneKeeps DEF CleanupDone, Steps
<1>. QED BY <1>1, <1>2

(* ClusterFinished: the whole record is written. *)
LEMMA FinishedKeeps ==
  ASSUME IInv, pc \in {"ending", "aborting"}, ClusterFinished
  PROVE  /\ RunsType' /\ HistoryType' /\ DayInv' /\ StepInv' /\ SuccessIsWhole'
         /\ This' = This /\ runs'[This].state = "running"
         /\ \A c \in Cluster : c # at => Row(This, c)' = Row(This, c)
         /\ LET turn == runs'[This].turns[at] IN
               /\ turn.state = record.state /\ turn.import = record.import
               /\ turn.build = record.build /\ turn.cleanup = record.cleanup
               /\ turn.found = Mine.found
<1>. DEFINE turn == FinishedTurn(Mine)
<1>1. /\ at \in Cluster /\ This \in Nat /\ This > 0
      /\ Mine = Row(This, at) /\ Mine \in TurnRows /\ record \in Records
      /\ RunsType /\ ProcessType /\ HistoryType
  BY InTheTurn
<1>2. /\ Write(turn) /\ result' = result
      /\ lost' = lost \cup {<<at, s>> : s \in {s \in Steps : record[s] # Mine[s]}}
      /\ IF record.import = "done" /\ Mine.import # "done" THEN Whole ELSE last' = last
  BY DEF ClusterFinished
<1>3. /\ turn \in TurnRows /\ turn.state = record.state /\ turn.import = record.import
      /\ turn.build = record.build /\ turn.cleanup = record.cleanup
      /\ turn.found = Mine.found /\ turn.examined = Mine.examined /\ turn.left = Mine.left
  <2>1. turn = [Mine EXCEPT !.state = record.state, !.import = record.import,
                            !.build = record.build, !.cleanup = record.cleanup]
    BY DEF FinishedTurn
  <2>2. /\ record.state \in {"done", "skipped", "aborted"}
        /\ record.import \in {"not_reached", "incomplete", "done"}
        /\ record.build \in {"not_reached", "settled", "failed"}
        /\ record.cleanup \in {"not_reached", "settled", "pending", "failed"}
    BY <1>1 DEF Records
  <2>3. PICK row \in TurnRows : row = Mine
    BY <1>1
  <2>4. turn = [row EXCEPT !.state = record.state, !.import = record.import,
                           !.build = record.build, !.cleanup = record.cleanup]
    BY <2>1, <2>3
  <2>. HIDE DEF turn
  <2>5. /\ turn \in TurnRows /\ turn.state = record.state /\ turn.import = record.import
        /\ turn.build = record.build /\ turn.cleanup = record.cleanup
        /\ turn.found = row.found /\ turn.examined = row.examined /\ turn.left = row.left
    BY <2>2, <2>4 DEF TurnRows
  <2>. QED BY <2>3, <2>5
<1>. HIDE DEF turn
<1>4. /\ RunsType' /\ SuccessIsWhole'
      /\ This' = This /\ runs'[This].state = "running"
      /\ runs'[This].turns[at] = turn
      /\ \A c \in Cluster : c # at => Row(This, c)' = Row(This, c)
  BY <1>1, <1>2, <1>3, WriteFrame
<1>5. DayInv'
  <2>1. CASE record.import = "done" /\ Mine.import # "done"
    BY <1>1, <1>2, <1>3, <2>1, WholeStep DEF IInv
  <2>2. CASE ~(record.import = "done" /\ Mine.import # "done")
    <3>1. Mine.import = "done" => record.import = "done"
      BY DEF IInv, TurnInv
    <3>2. turn.import = "done" <=> Mine.import = "done"
      BY <1>3, <2>2, <3>1
    <3>. QED BY <1>1, <1>2, <1>3, <2>2, <3>2, SameContent DEF IInv
  <2>. QED BY <2>1, <2>2
<1>6. StepInv'
  <2>. SUFFICES ASSUME NEW c \in Cluster, NEW s \in Steps PROVE StepOK(c, s)'
    BY DEF StepInv
  <2>1. turn[s] = record[s]
    BY <1>3 DEF Steps
  <2>2. CASE c = at /\ record[s] # Mine[s]
    <3>1. <<c, s>> \in lost'
      BY <1>2, <2>2
    <3>. QED BY <3>1 DEF StepOK
  <2>3. CASE ~(c = at /\ record[s] # Mine[s])
    <3>1. result'[c][s] = result[c][s] /\ (<<c, s>> \in lost => <<c, s>> \in lost')
      BY <1>2
    <3>2. c = at => turn[s] = Mine[s] /\ turn.left \cap {StepKind(s)} = Mine.left \cap {StepKind(s)}
      BY <1>3, <2>1, <2>3
    <3>. QED BY <1>1, <1>2, <1>3, <3>1, <3>2, StepsStay
  <2>. QED BY <2>2, <2>3
<1>7. HistoryType'
  <2>1. lost' \subseteq Cluster \X Steps
    BY <1>1, <1>2 DEF HistoryType
  <2>. QED BY <1>1, <1>2, <2>1, WholeType DEF HistoryType
<1>. QED BY <1>3, <1>4, <1>5, <1>6, <1>7

(* Turn: the turn is over, and the run knows whether it failed. *)
LEMMA TurnStep == ASSUME IInv, Turn PROVE IInv'
<1>1. /\ pc = "ending" /\ pc' = "turn" /\ at' = at + 1 /\ record' = Blank /\ left' = {}
      /\ failed' = (failed \/ record.failed) /\ todo' = {} /\ plan' = {}
      /\ complete' = complete /\ stops' = stops /\ ClusterFinished
  BY DEF Turn
<1>2. /\ at \in Cluster /\ This \in Nat /\ This > 0
      /\ Mine = Row(This, at) /\ Mine \in TurnRows /\ record \in Records
      /\ RunsType /\ ProcessType /\ HistoryType
  BY <1>1, InTheTurn
<1>3. /\ RunsType' /\ HistoryType' /\ DayInv' /\ StepInv' /\ SuccessIsWhole'
      /\ This' = This /\ runs'[This].state = "running"
      /\ \A c \in Cluster : c # at => Row(This, c)' = Row(This, c)
  BY <1>1, FinishedKeeps
<1>4. at \in Nat /\ \A c \in Cluster : c \in Nat
  BY <1>2, Constants
<1>5. FreshInv'
  <2>1. \A c \in Cluster : c >= at + 1 => c # at /\ Row(This, c) = Pending
    BY <1>1, <1>4 DEF IInv, FreshInv
  <2>2. \A c \in Cluster : c > at' \/ c = at' => Row(This, c)' = Pending
    BY <1>1, <1>3, <1>4, <2>1
  <2>. QED BY <1>1, <2>2 DEF FreshInv
<1>6. OverInv'
  <2>1. ~failed' => ~failed /\ ~record.failed
    BY <1>1
  <2>2. ~failed => \A c \in Cluster : c < at => c # at /\ WholeTurn(Row(This, c))
    BY <1>1, <1>4 DEF IInv, OverInv
  <2>3. ~record.failed => WholeTurn(runs'[This].turns[at])
    <3>1. /\ runs'[This].turns[at].state = record.state
          /\ runs'[This].turns[at].import = record.import
          /\ runs'[This].turns[at].build = record.build
          /\ runs'[This].turns[at].cleanup = record.cleanup
          /\ runs'[This].turns[at].found = Mine.found
      BY <1>1, FinishedKeeps
    <3>. QED BY <1>1, <3>1 DEF IInv, HereInv, WholeTurn, Early, Importing
  <2>4. ASSUME ~failed', NEW c \in Cluster, c < at' PROVE WholeTurn(Row(This, c)')
    <3>1. CASE c = at
      <4>1. Row(This, c)' = runs'[This].turns[at]
        BY <1>3, <3>1 DEF Row
      <4>. QED BY <2>1, <2>3, <2>4, <4>1
    <3>2. CASE c # at
      <4>1. c < at
        BY <1>1, <1>4, <2>4, <3>2
      <4>2. Row(This, c)' = Row(This, c) /\ WholeTurn(Row(This, c))
        BY <1>3, <2>1, <2>2, <2>4, <3>2, <4>1
      <4>. QED BY <4>2
    <3>. QED BY <3>1, <3>2
  <2>. QED BY <2>4 DEF OverInv, WholeTurn, Row
<1>7. TurnInv' /\ HereInv'
  BY <1>1 DEF TurnInv, HereInv
<1>8. ProcessType'
  <2>1. at' \in 1 .. Clusters + 1
    BY <1>1, <1>2, Constants DEF Cluster
  <2>2. record' \in Records
    BY <1>1 DEF Blank, Records
  <2>3. failed' \in BOOLEAN
    BY <1>1
  <2>. QED BY <1>1, <1>2, <1>3, <2>1, <2>2, <2>3 DEF ProcessType, Places
<1>9. TypeOK'
  BY <1>3, <1>8 DEF TypeOK, RunsType, ProcessType, HistoryType
<1>. QED BY <1>3, <1>5, <1>6, <1>7, <1>9 DEF IInv

(* TurnAborted: the turn is written as it was when the signal came. *)
LEMMA TurnAbortedStep == ASSUME IInv, TurnAborted PROVE IInv'
<1>1. /\ pc = "aborting" /\ pc' = "aborted" /\ at' = at /\ record' = record /\ left' = left
      /\ failed' = failed /\ todo' = todo /\ plan' = plan
      /\ complete' = complete /\ stops' = stops /\ ClusterFinished
  BY DEF TurnAborted
<1>2. /\ at \in Cluster /\ This \in Nat /\ This > 0 /\ ProcessType
  BY <1>1, InTheTurn
<1>3. /\ RunsType' /\ HistoryType' /\ DayInv' /\ StepInv' /\ SuccessIsWhole'
      /\ This' = This /\ runs'[This].state = "running"
      /\ \A c \in Cluster : c # at => Row(This, c)' = Row(This, c)
  BY <1>1, FinishedKeeps
<1>4. FreshInv' /\ OverInv'
  BY <1>1, <1>3, OthersStay
<1>5. TurnInv' /\ HereInv'
  BY <1>1 DEF TurnInv, HereInv
<1>6. ProcessType'
  BY <1>1, <1>2, <1>3 DEF ProcessType, Places
<1>7. TypeOK'
  BY <1>3, <1>6 DEF TypeOK, RunsType, ProcessType, HistoryType
<1>. QED BY <1>3, <1>4, <1>5, <1>7 DEF IInv

-----------------------------------------------------------------------------
(* The invariant.                                                          *)

(* Before the first run nothing is open and nothing was said. *)
LEMMA Initially == ASSUME Init PROVE IInv
<1>1. runs = << >> /\ This = 0 /\ pc = "idle" /\ at = 1 /\ record = Blank
  BY DEF Init, This
<1>2. RunsType
  BY <1>1, Constants DEF RunsType
<1>3. ProcessType
  <2>1. record \in Records
    BY <1>1 DEF Blank, Records
  <2>2. stops \in 0 .. MaxStops /\ at \in 1 .. Clusters + 1
    BY Constants DEF Init
  <2>. QED BY <2>1, <2>2 DEF Init, ProcessType, Places
<1>4. HistoryType
  BY Constants DEF Init, HistoryType
<1>5. TypeOK
  BY <1>2, <1>3, <1>4, TypeParts
<1>6. FreshInv /\ TurnInv /\ OverInv /\ HereInv /\ SuccessIsWhole
  BY <1>1 DEF Init, FreshInv, TurnInv, OverInv, HereInv, SuccessIsWhole
<1>7. DayInv
  BY <1>1 DEF Init, DayInv, DayOK
<1>8. StepInv
  <2>1. \A c, s : {n \in 1 .. This : Turns(c)[n][s] # "not_reached"} = {}
    BY <1>1
  <2>2. \A c, s : StepVerdict(c, s) = 0
    BY <2>1 DEF StepVerdict, Newest
  <2>3. \A c \in Cluster, s \in Steps : OpenStep(c, s) = {} /\ result[c][s] = {}
    BY <2>2 DEF Init, OpenStep
  <2>. QED BY <2>3 DEF StepInv, StepOK
<1>. QED BY <1>5, <1>6, <1>7, <1>8 DEF IInv

(* A step that changes nothing changes no part of the invariant. *)
LEMMA Stutter == ASSUME IInv, UNCHANGED vars PROVE IInv'
<1>1. /\ runs' = runs /\ complete' = complete /\ pc' = pc /\ at' = at /\ record' = record
      /\ left' = left /\ failed' = failed /\ todo' = todo /\ plan' = plan
      /\ last' = last /\ result' = result /\ lost' = lost /\ stops' = stops
  BY DEF vars
<1>2. /\ RunsType' /\ HistoryType' /\ DayInv' /\ StepInv' /\ SuccessIsWhole'
      /\ This' = This /\ \A n, c : Row(n, c)' = Row(n, c)
  BY <1>1, NothingWritten
<1>3. Mine' = Mine
  BY <1>1, <1>2 DEF Mine
<1>4. TypeOK'
  BY <1>1, <1>2 DEF IInv, TypeOK
<1>5. FreshInv'
  BY <1>1, <1>2 DEF IInv, FreshInv
<1>6. TurnInv' /\ HereInv'
  BY <1>1, <1>3 DEF IInv, TurnInv, HereInv
<1>7. OverInv'
  BY <1>1, <1>2 DEF IInv, OverInv, WholeTurn
<1>. QED BY <1>2, <1>4, <1>5, <1>6, <1>7 DEF IInv

(* Every step keeps the invariant. *)
LEMMA Inductive == ASSUME IInv, [Next]_vars PROVE IInv'
<1>1. CASE UNCHANGED vars
  BY <1>1, Stutter
<1>2. CASE Begin \/ Finish \/ RunAborted \/ Kill \/ Signal
  BY <1>2, BeginStep, FinishStep, RunAbortedStep, KillStep, SignalStep
<1>3. CASE Import \/ Imported \/ Build \/ Cleanup \/ RawScan \/ Removed \/ Busy \/ Surprise
  BY <1>3, DecisionStep
<1>4. CASE Start \/ Incomplete \/ Scan \/ Compare \/ DayDone \/ Remove
  BY <1>4, StartStep, IncompleteStep, ScanningStep, CompareStep, DayDoneStep, RemoveStep
<1>5. CASE ImportDone \/ BuildDone \/ CleanupDone \/ Turn \/ TurnAborted
  BY <1>5, ImportDoneStep, StepDoneStep, TurnStep, TurnAbortedStep
<1>. QED BY <1>1, <1>2, <1>3, <1>4, <1>5, StepCases

(* IInv is an invariant of the runs, the signals and the kills.            *)
THEOREM Invariance == Spec => []IInv
<1>1. Init => IInv
  BY Initially
<1>2. IInv /\ [Next]_vars => IInv'
  BY Inductive
<1>. QED BY <1>1, <1>2, PTL DEF Spec

-----------------------------------------------------------------------------
(* The open problems.                                                      *)

(* mpp_daily_problems is computed from the rows: of a day it takes the last *)
(* run that concluded about it, among those since the last whole import.    *)
(* Between that run and now no row says anything of the day.                *)
LEMMA OpenDayIsLast ==
  ASSUME IInv, NEW c \in Cluster, NEW d \in Day
  PROVE  OpenDay(c, d) = last[c][d].said
<1>. DEFINE r == last[c][d].run
            whole == {w \in 1 .. This : Turns(c)[w].import = "done"}
            spoken == {n \in Since(c) : \/ Turns(c)[n].import = "done"
                                        \/ d \in Turns(c)[n].examined
                                        \/ KindsFound(c, n, d) # {}}
<1>1. DayOK(c, d) /\ This \in Nat
  BY TypeParts DEF IInv, DayInv, RunsType
<1>2. \A n \in 1 .. This : Turns(c)[n] = Row(n, c)
  BY DEF Turns, Row
<1>3. r \in 0 .. This /\ Since(c) \subseteq 1 .. This /\ spoken \subseteq 1 .. This
  BY <1>1 DEF DayOK, Since
<1>4. \A n \in spoken : n <= r
  <2>1. ASSUME NEW n \in spoken PROVE n <= r
    <3>1. n \in 1 .. This
      BY <1>3
    <3>2. Row(n, c).import = "done" \/ d \in Row(n, c).examined
      BY <1>1, <1>2, <3>1 DEF DayOK
    <3>. QED BY <1>1, <3>1, <3>2 DEF DayOK
  <2>. QED BY <2>1
<1>5. CASE r = 0
  <2>1. spoken = {}
    <3>1. \A n \in spoken : n <= 0 /\ n \in 1 .. This
      BY <1>3, <1>4, <1>5
    <3>. HIDE DEF spoken
    <3>. QED BY <1>1, <3>1
  <2>2. \A n \in Since(c) : KindsFound(c, n, d) = {}
    BY <2>1
  <2>3. OpenDay(c, d) = {}
    BY <2>2 DEF OpenDay
  <2>. QED BY <1>1, <1>5, <2>3 DEF DayOK
<1>6. CASE r # 0
  <2>1. r \in 1 .. This /\ r > 0
    BY <1>1, <1>3, <1>6
  <2>2. \A w \in whole : w <= r
    BY <1>1, <1>2 DEF DayOK
  <2>3. Newest(whole) <= r
    <3>1. whole \subseteq 1 .. This
      OBVIOUS
    <3>. HIDE DEF whole
    <3>2. Newest(whole) \in 0 .. This /\ (whole # {} => Newest(whole) \in whole)
          /\ (whole = {} <=> Newest(whole) = 0)
      BY <1>1, <3>1, NewestIs
    <3>. QED BY <2>1, <2>2, <3>2
  <2>4. r \in Since(c)
    BY <2>1, <2>3 DEF Since
  <2>5. r \in spoken
    BY <1>1, <1>2, <2>1, <2>4 DEF DayOK
  <2>6. Newest(spoken) = r
    <3>. HIDE DEF spoken, r
    <3>. QED BY <1>1, <1>3, <1>4, <2>5, NewestUnique
  <2>7. DayVerdict(c, d) = r
    BY <2>6 DEF DayVerdict
  <2>8. last[c][d].said = KindsFound(c, r, d)
    BY <1>1, <2>1 DEF DayOK
  <2>9. CASE \E n \in Since(c) : KindsFound(c, n, d) # {}
    BY <2>7, <2>8, <2>9 DEF OpenDay
  <2>10. CASE ~ \E n \in Since(c) : KindsFound(c, n, d) # {}
    <3>1. KindsFound(c, r, d) = {}
      BY <2>4, <2>10
    <3>. QED BY <2>8, <2>10, <3>1 DEF OpenDay
  <2>. QED BY <2>9, <2>10
<1>. QED BY <1>5, <1>6

(* The open problems are what the newest look at each day concluded, and    *)
(* what the newest run through a step concluded there, whatever was killed, *)
(* stopped, skipped or disturbed; but for a step whose record a stop cut    *)
(* off from its problems.                                                   *)
THEOREM ProblemsAreConclusions == Spec => []OpenIsLastConclusion
<1>1. IInv => OpenIsLastConclusion
  <2>1. IInv => \A c \in Cluster, d \in Day : OpenDay(c, d) = last[c][d].said
    BY OpenDayIsLast
  <2>2. IInv => \A c \in Cluster, s \in Steps : <<c, s>> \in lost \/ OpenStep(c, s) = result[c][s]
    BY DEF IInv, StepInv, StepOK
  <2>. QED BY <2>1, <2>2 DEF OpenIsLastConclusion
<1>. QED BY <1>1, Invariance, PTL

(* A run that finished without a failure had its turn with every cluster,  *)
(* imported every day it found whole, and neither failed to build nor to   *)
(* clean.                                                                  *)
THEOREM SuccessMeansAll == Spec => []SuccessIsWhole
<1>1. IInv => SuccessIsWhole
  BY DEF IInv
<1>. QED BY <1>1, Invariance, PTL
====
