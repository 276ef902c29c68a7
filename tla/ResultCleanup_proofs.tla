------------------------ MODULE ResultCleanup_proofs ------------------------
(***************************************************************************)
(* The safety of ResultCleanup, for any months, group rows, chunk, budget, *)
(* readers and number of faults: a month waits no longer than its budget,  *)
(* the marks and the record tell the truth, readers get whole results, and *)
(* what happens is what Retention promises.                                *)
(*                                                                         *)
(* A command decides once, at Preview, what has expired, and acts on that  *)
(* decision while the clock goes on.  ReportInv says what stays true of    *)
(* the decision: the lease keeps builds out, so the current version is the *)
(* one that Preview saw, and time only makes months older.                 *)
(***************************************************************************)
EXTENDS ResultCleanup, FiniteSetTheorems, TLAPS

(* The lease keeps builds and cleanups apart, and a build is never of a    *)
(* month that was removed. *)
LeaseInv ==
    /\ lease = "cleanup" <=> pc # "idle"
    /\ lease = "build" => building \in made \ cleaned

MarksInv ==
    /\ MarksTellTruth
    /\ \A m \in cleaned : m < clock

(* What was decided at Preview, and what is still true of it. *)
ReportInv ==
    /\ \A m \in Months :
          /\ report[m] = "cleaned" => m \in cleaned
          /\ report[m] \in {"retained", "protected"} => m \notin cleaned
    /\ pc \notin {"idle", "preview"} =>
          \A m \in Months : report[m] = "expired" =>
             /\ m # version
             /\ \E months \in Keeps : expired(m, clock, months)
             /\ m \in todo => m \notin cleaned

(* The month at hand, and how far its group rows are removed. *)
PlaceInv ==
    /\ pc \in Trying => at \in made \ todo /\ (removed => at \in cleaned)
    /\ pc = "partitions" => report[at] = "expired" /\ at \notin cleaned
    /\ pc \in {"partitions", "measure"} => table = 1 /\ last = 0
    /\ pc \in {"measure", "groups", "finish"} => at \in cleaned
    /\ pc = "groups" => /\ table = 2 => groups[at][1] = {}
                        /\ \A k \in groups[at][table] : k > last
    /\ pc = "finish" => groups[at] = None
    /\ pc = "settled" => at \in done

(* The record.  As long as nothing failed, every month that was taken up   *)
(* and had something to remove is finished, but for the one at hand. *)
Settled ==
    \A m \in Months :
        /\ report[m] \in {"expired", "cleaned"} /\ row[m] # "none"
        /\ pc \in Statement => m # at
        => m \in done

RecordInv ==
    /\ \A m \in Months :
          /\ row[m] \in {"succeeded", "already_cleaned"} => m \in done
          /\ row[m] \in {"removing_groups", "groups_pending"} => m \in cleaned
          /\ row[m] \in {"retained", "protected"} => m \notin cleaned
    /\ pc \in {"idle", "preview"} => ~failure
    /\ pc = "preview" => row = [m \in Months |-> "none"]
    /\ pc # "idle" => outcome = "running"
    /\ (pc # "idle" /\ ~failure) \/ outcome = "succeeded" => Settled

(* One month's lock waits and what is left of its budget. *)
WaitInv == waited + budget = BUDGET

(* A reader that holds the lock keeps the month it asked for. *)
ReadInv ==
    Isolation = "read committed" =>
        \A r \in Reader :
            /\ reading[r].pc = "begun" => reading[r].month \in saved
            /\ reading[r].pc = "locked" => reading[r].month \in leaves
            /\ reading[r].answer # "empty"

(* TypeOK in three parts. *)
CatalogType ==
    /\ clock \in 1 .. LastMonth
    /\ version \in Months \cup {0} /\ building \in Months \cup {0}
    /\ made \subseteq Months /\ saved \subseteq made /\ leaves \subseteq made
    /\ done \subseteq cleaned /\ cleaned \subseteq made
    /\ groups \in [Months -> [Tables -> SUBSET (1 .. Keys)]]
    /\ lease \in {"free", "build", "cleanup"}
    /\ foreign \in {"none", "shared", "exclusive"}
    /\ faults \in 0 .. MaxFaults

CommandType ==
    /\ row \in [Months -> RowStates]
    /\ outcome \in {"none", "running", "succeeded", "failed", "interrupted"}
    /\ pc \in {"idle", "preview", "month"} \cup Trying
    /\ report \in [Months -> Views]
    /\ todo \subseteq made
    /\ at \in Months \cup {0} /\ (pc \in Trying => at \in Months)
    /\ removed \in BOOLEAN /\ failure \in BOOLEAN
    /\ budget \in 0 .. BUDGET
    /\ table \in Tables /\ last \in 0 .. Keys
    /\ waited \in Nat

ReaderType ==
    reading \in [Reader -> [pc : {"idle", "begun", "locked", "over"}, month : Months \cup {0},
                           cleaned : SUBSET Months,
                           answer : {"none", "whole", "results_cleaned", "empty"}]]

IInv == TypeOK /\ LeaseInv /\ MarksInv /\ ReportInv /\ PlaceInv /\ RecordInv
               /\ WaitInv /\ ReadInv

(* The constants, one fact each. *)
LEMMA Constants ==
  /\ LastMonth \in Nat /\ LastMonth >= 1 /\ MaxFaults \in Nat
  /\ Keys \in Nat /\ CHUNK \in Nat /\ CHUNK >= 1 /\ BUDGET \in Nat /\ BUDGET >= 1
  /\ \A m \in Months : m \in Nat /\ 1 <= m /\ m <= LastMonth
  /\ \A k \in Keeps : k \in Nat /\ k >= 1
<1>1. LastMonth \in Nat /\ LastMonth >= 1
  BY MonthAssumption
<1>2. \A m \in Months : m \in 1 .. LastMonth
  BY MonthAssumption
<1>3. \A m \in Months : m \in Nat /\ 1 <= m /\ m <= LastMonth
  BY <1>1, <1>2
<1>4. \A k \in Keeps : k \in Nat \ {0}
  BY CleanupAssumption
<1>5. \A n \in Nat \ {0} : n \in Nat /\ n >= 1
  OBVIOUS
<1>6. CHUNK \in Nat \ {0} /\ BUDGET \in Nat \ {0} /\ Keys \in Nat /\ MaxFaults \in Nat
  BY CleanupAssumption
<1>. QED BY <1>1, <1>3, <1>4, <1>5, <1>6

(* The two group tables. *)
LEMMA TwoTables == \A t : t \in Tables <=> t = 1 \/ t = 2
BY DEF Tables

(* TypeOK is its three parts. *)
LEMMA TypeParts == TypeOK <=> CatalogType /\ CommandType /\ ReaderType
BY DEF TypeOK, CatalogType, CommandType, ReaderType

-----------------------------------------------------------------------------
(* Least and greatest elements, and batches.                               *)

(* The least element of a set of naturals, and the greatest of a bounded  *)
(* one: what Min and Max of the community modules choose is there. *)
LEMMA Least ==
  ASSUME NEW S \in SUBSET Nat, S # {}
  PROVE  Min(S) \in S /\ \A k \in S : Min(S) <= k
<1>. DEFINE Below(x) == {j \in S : j <= x}
            Downs    == {Below(x) : x \in S}
<1>1. ASSUME NEW x \in S PROVE Below(x) \in FiniteSubsetsOf(S)
  <2>1. Below(x) \subseteq S /\ \A j \in Below(x) : j <= x
    OBVIOUS
  <2>2. IsFiniteSet(Below(x))
    BY <2>1, FS_BoundedSetOfNaturals
  <2>. QED BY <2>1, <2>2 DEF FiniteSubsetsOf
<1>2. Downs \subseteq FiniteSubsetsOf(S) /\ Downs # {}
  BY <1>1
<1>3. \E D \in Downs : \A E \in Downs : ~(<<E, D>> \in StrictSubsetOrdering(S))
  <2>. HIDE DEF Downs
  <2>. QED BY <1>2, FS_StrictSubsetOrderingWellFounded, WFMin
<1>4. PICK x \in S : \A y \in S : ~(<<Below(y), Below(x)>> \in StrictSubsetOrdering(S))
  BY <1>3
<1>5. ASSUME NEW y \in S, y < x PROVE FALSE
  <2>1. x \in Below(x) /\ x \notin Below(y) /\ Below(y) \subseteq Below(x)
    <3>1. x \in Nat /\ y \in Nat /\ (\A j \in S : j \in Nat)
      OBVIOUS
    <3>2. x \in Below(x)
      BY <3>1
    <3>3. x \notin Below(y)
      BY <1>5, <3>1
    <3>4. Below(y) \subseteq Below(x)
      <4>1. ASSUME NEW j \in S, j <= y PROVE j <= x
        BY <1>5, <3>1, <4>1
      <4>. QED BY <4>1
    <3>. QED BY <3>2, <3>3, <3>4
  <2>2. <<Below(y), Below(x)>> \in StrictSubsetOrdering(S)
    BY <2>1 DEF StrictSubsetOrdering
  <2>. QED BY <2>2, <1>4
<1>6. \A y \in S : x <= y
  BY <1>5
<1>. QED BY <1>6 DEF Min

(* The same for Max. *)
LEMMA Greatest ==
  ASSUME NEW n \in Nat, NEW S \in SUBSET (0 .. n), S # {}
  PROVE  Max(S) \in S /\ \A k \in S : k <= Max(S)
<1>. DEFINE D == {n - k : k \in S}
<1>1. D \in SUBSET Nat /\ D # {}
  <2>1. \A k \in S : k \in Nat /\ k <= n /\ n - k \in Nat
    OBVIOUS
  <2>. QED BY <2>1
<1>2. Min(D) \in D /\ \A d \in D : Min(D) <= d
  <2>. HIDE DEF D
  <2>. QED BY <1>1, Least
<1>3. PICK x \in S : n - x = Min(D)
  BY <1>2
<1>4. \A k \in S : n - x <= n - k
  BY <1>2, <1>3
<1>5. \A k \in S : k <= x
  <2>1. \A k \in S : k \in Nat
    OBVIOUS
  <2>. QED BY <1>4, <2>1
<1>. QED BY <1>5 DEF Max

(* The keys of a batch: the chunk lowest ones. *)
Lowest(rest) == {k \in rest : Cardinality({j \in rest : j <= k}) <= CHUNK}

(* A batch of the lowest keys is all that is left if it is not full; a     *)
(* full one has everything up to its last key. *)
LEMMA Batches ==
  ASSUME NEW rest \in SUBSET (1 .. Keys), NEW B,
         B = Lowest(rest)
  PROVE  /\ Cardinality(B) # CHUNK => B = rest
         /\ Cardinality(B) = CHUNK =>
               Max(B) \in B /\ \A k \in rest \ B : k > Max(B)
<1>0. Keys \in Nat /\ CHUNK \in Nat \ {0}
  BY CleanupAssumption
<1>. DEFINE Below(k) == {j \in rest : j <= k}
<1>1. \A k \in rest : k \in Nat /\ k \in 0 .. Keys
  BY <1>0
<1>2. IsFiniteSet(rest)
  <2>1. IsFiniteSet(1 .. Keys)
    BY <1>0, FS_Interval
  <2>. QED BY <2>1, FS_Subset
<1>3. B \in SUBSET rest /\ \A k \in rest : k \in B <=> Cardinality(Below(k)) <= CHUNK
  BY DEF Lowest
<1>4. IsFiniteSet(B) /\ Cardinality(B) \in Nat
  BY <1>2, <1>3, FS_Subset, FS_CardinalityType
<1>5. ASSUME NEW k \in rest
      PROVE  /\ Below(k) \in SUBSET rest
             /\ IsFiniteSet(Below(k)) /\ Cardinality(Below(k)) \in Nat
             /\ \A j \in rest : j \in Below(k) <=> j <= k
  <2>1. Below(k) \in SUBSET rest
    OBVIOUS
  <2>2. \A j \in rest : j \in Below(k) <=> j <= k
    OBVIOUS
  <2>. HIDE DEF Below
  <2>. QED BY <2>1, <2>2, <1>2, FS_Subset, FS_CardinalityType
<1>. HIDE DEF Below
<1>6. ASSUME B # {}
      PROVE  /\ Max(B) \in B
             /\ \A k \in rest \ B : k > Max(B)
             /\ Cardinality(B) <= CHUNK
  <2>1. B \in SUBSET (0 .. Keys)
    BY <1>1, <1>3
  <2>2. Max(B) \in B /\ \A k \in B : k <= Max(B)
    BY <1>0, <2>1, <1>6, Greatest
  <2>3. PICK m \in B : m = Max(B)
    BY <2>2
  <2>4. m \in rest /\ Cardinality(Below(m)) <= CHUNK
    BY <1>3
  <2>5. ASSUME NEW k \in rest, k <= m PROVE k \in B
    <3>1. \A j \in Below(k) : j \in Below(m)
      <4>1. ASSUME NEW j \in rest, j <= k PROVE j <= m
        BY <2>4, <2>5, <4>1, <1>1
      <4>. QED BY <4>1, <2>4, <1>5
    <3>2. Cardinality(Below(k)) <= Cardinality(Below(m))
      BY <3>1, <1>5, <2>4, FS_Subset
    <3>3. Cardinality(Below(k)) <= CHUNK
      BY <1>0, <3>2, <2>4, <1>5
    <3>. QED BY <3>3, <1>3
  <2>6. \A k \in rest \ B : k > m
    BY <2>4, <2>5, <1>1
  <2>7. \A k \in B : k \in Below(m)
    BY <2>2, <2>3, <2>4, <1>3, <1>5
  <2>8. Cardinality(B) <= Cardinality(Below(m))
    BY <2>7, <2>4, <1>5, FS_Subset
  <2>9. Cardinality(B) <= CHUNK
    BY <1>0, <2>8, <2>4, <1>4, <1>5
  <2>. QED BY <2>3, <2>6, <2>9
<1>7. Cardinality(B) = CHUNK => B # {}
  BY <1>0, FS_EmptySet
<1>8. ASSUME rest \ B # {}
      PROVE  Cardinality(B) >= CHUNK /\ B # {}
  <2>1. rest \ B \in SUBSET Nat
    BY <1>1
  <2>2. PICK least \in rest \ B : \A k \in rest \ B : least <= k
    BY <2>1, <1>8, Least
  <2>3. Cardinality(Below(least)) > CHUNK
    BY <1>0, <2>2, <1>3, <1>5
  <2>4. \A j \in Below(least) : j \in B \cup {least}
    <3>1. ASSUME NEW j \in rest, j <= least, j \notin B PROVE j = least
      <4>1. least <= j
        BY <2>2, <3>1
      <4>. QED BY <4>1, <3>1, <1>1
    <3>. QED BY <3>1, <1>5
  <2>. DEFINE C == B \cup {least}
  <2>5. IsFiniteSet(C) /\ Cardinality(C) = Cardinality(B) + 1
    BY <1>4, <2>2, FS_AddElement
  <2>6. Cardinality(Below(least)) <= Cardinality(B) + 1
    <3>1. Below(least) \in SUBSET C
      BY <2>4
    <3>. HIDE DEF C
    <3>. QED BY <3>1, <2>5, FS_Subset
  <2>7. Cardinality(Below(least)) \in Nat
    BY <1>5
  <2>8. Cardinality(B) >= CHUNK
    BY <1>0, <2>3, <2>6, <2>7, <1>4
  <2>9. Cardinality(B) # 0
    BY <1>0, <2>8, <1>4
  <2>. QED BY <2>8, <2>9, FS_EmptySet
<1>9. Cardinality(B) # CHUNK => B = rest
  <2>. SUFFICES ASSUME Cardinality(B) # CHUNK, rest \ B # {} PROVE FALSE
    BY <1>3
  <2>. QED BY <1>0, <1>4, <1>6, <1>8
<1>. QED BY <1>6, <1>7, <1>9

(* What RemoveGroups removes, and where it goes on. *)
LEMMA BatchRemoved ==
  ASSUME CatalogType, CommandType, PlaceInv, pc = "groups"
  PROVE  /\ Cardinality(Batch) # CHUNK => groups[at][table] \ Batch = {}
         /\ Cardinality(Batch) = CHUNK =>
               /\ Max(Batch) \in 1 .. Keys
               /\ \A k \in groups[at][table] \ Batch : k > Max(Batch)
<1>1. groups[at][table] \in SUBSET (1 .. Keys)
  <2>1. at \in Months /\ table \in Tables
    BY DEF CommandType, Trying, Statement
  <2>2. groups \in [Months -> [Tables -> SUBSET (1 .. Keys)]]
    BY DEF CatalogType
  <2>. QED BY <2>1, <2>2
<1>2. {k \in groups[at][table] : k > last} = groups[at][table]
  BY DEF PlaceInv
<1>3. Batch = Lowest(groups[at][table])
  BY <1>2 DEF Batch, Lowest
<1>4. Batch \in SUBSET groups[at][table]
  BY <1>3 DEF Lowest
<1>5. /\ Cardinality(Batch) # CHUNK => Batch = groups[at][table]
      /\ Cardinality(Batch) = CHUNK =>
            Max(Batch) \in Batch /\ \A k \in groups[at][table] \ Batch : k > Max(Batch)
  <2>1. ASSUME NEW rest, rest \in SUBSET (1 .. Keys), Batch = Lowest(rest)
        PROVE  /\ Cardinality(Batch) # CHUNK => Batch = rest
               /\ Cardinality(Batch) = CHUNK =>
                     Max(Batch) \in Batch /\ \A k \in rest \ Batch : k > Max(Batch)
    BY <2>1, Batches
  <2>. QED BY <2>1, <1>1, <1>3
<1>. QED BY <1>1, <1>4, <1>5

(* The end of a command leaves its variables as they were at the start. *)
LEMMA EndsType ==
  ASSUME CommandType, UNCHANGED report, row' \in [Months -> RowStates],
         NEW state \in {"succeeded", "failed", "interrupted"}, Ends(state)
  PROVE  CommandType'
<1>1. budget' \in 0 .. BUDGET /\ last' \in 0 .. Keys
  BY Constants DEF Ends
<1>2. table' \in Tables
  BY DEF Ends, Tables
<1>3. /\ pc' = "idle" /\ at' = 0 /\ todo' = {} /\ waited' = 0
      /\ removed' = FALSE /\ failure' = FALSE
      /\ outcome' \in {"succeeded", "failed", "interrupted"}
  BY DEF Ends
<1>. QED BY <1>1, <1>2, <1>3 DEF CommandType, Trying, Statement

(* What RemoveGroups does to the group rows, one table at a time. *)
LEMMA GroupsAfter ==
  ASSUME CatalogType, CommandType, RemoveGroups
  PROVE  /\ at \in Months /\ table \in Tables
         /\ \A m \in Months \ {at} : groups'[m] = groups[m]
         /\ groups'[at] \in [Tables -> SUBSET (1 .. Keys)]
         /\ groups'[at][table] = groups[at][table] \ Batch
         /\ \A t \in Tables \ {table} : groups'[at][t] = groups[at][t]
<1>. DEFINE rows == groups[at][table] \ Batch
<1>1. at \in Months /\ table \in Tables
  BY DEF RemoveGroups, CommandType, Trying, Statement
<1>2. groups \in [Months -> [Tables -> SUBSET (1 .. Keys)]]
  BY DEF CatalogType
<1>3. groups' = [groups EXCEPT ![at][table] = rows]
  BY DEF RemoveGroups
<1>4. rows \in SUBSET (1 .. Keys)
  BY <1>1, <1>2
<1>. HIDE DEF rows
<1>5. groups'[at] = [groups[at] EXCEPT ![table] = rows]
  BY <1>1, <1>2, <1>3
<1>6. \A m \in Months \ {at} : groups'[m] = groups[m]
  BY <1>1, <1>2, <1>3
<1>. QED BY <1>1, <1>2, <1>4, <1>5, <1>6 DEF rows

-----------------------------------------------------------------------------
(* IInv holds initially, and every step keeps each of its parts.            *)

(* Before anything was built or removed. *)
LEMMA InvInit == Init => IInv
<1>. USE Constants DEF Init
<1>1. Init => CatalogType
  <2>1. None \in [Tables -> SUBSET (1 .. Keys)]
    BY DEF None
  <2>2. ASSUME Init PROVE groups \in [Months -> [Tables -> SUBSET (1 .. Keys)]]
    BY <2>1, <2>2
  <2>3. ASSUME Init PROVE clock \in 1 .. LastMonth /\ faults \in 0 .. MaxFaults
    BY <2>3
  <2>. QED BY <2>2, <2>3 DEF CatalogType
<1>2. Init => CommandType
  <2>1. Init => row \in [Months -> RowStates] /\ report \in [Months -> Views]
    BY DEF RowStates, Views
  <2>2. Init => budget \in 0 .. BUDGET /\ last \in 0 .. Keys /\ table \in Tables
    BY DEF Tables
  <2>3. ASSUME Init
        PROVE  /\ outcome = "none" /\ pc = "idle" /\ todo = {} /\ at = 0
               /\ removed = FALSE /\ failure = FALSE /\ waited = 0
    BY <2>3
  <2>. HIDE DEF Init
  <2>. QED BY <2>1, <2>2, <2>3 DEF CommandType, Trying, Statement
<1>3. Init => ReaderType
  BY DEF ReaderType, Idle
<1>4. Init => LeaseInv /\ MarksInv /\ ReportInv
  BY DEF LeaseInv, MarksInv, MarksTellTruth, ReportInv
<1>5. Init => PlaceInv /\ WaitInv
  BY DEF PlaceInv, WaitInv, Trying, Statement
<1>6. Init => RecordInv
  BY DEF RecordInv, Settled
<1>7. Init => ReadInv
  <2>1. Init => \A r \in Reader : reading[r] = Idle
    OBVIOUS
  <2>2. Idle.pc = "idle" /\ Idle.answer = "none"
    BY DEF Idle
  <2>. QED BY <2>1, <2>2 DEF ReadInv
<1>. QED BY <1>1, <1>2, <1>3, <1>4, <1>5, <1>6, <1>7, TypeParts DEF IInv

(* The catalog: a build is of an open month, a cleanup marks an open month. *)
LEMMA CatalogTypeStep ==
  ASSUME CatalogType, CommandType, LeaseInv, PlaceInv, [Next]_vars
  PROVE  CatalogType'
<1>. USE Constants DEF CatalogType, CommandType, LeaseInv, PlaceInv, Tables,
         None, Whole, Locked, Trying, Statement, catalog, data, locals,
         process
<1>0. CASE UNCHANGED vars BY <1>0 DEF vars
<1>1. CASE Tick BY <1>1 DEF Tick
<1>2. CASE BuildBegins BY <1>2 DEF BuildBegins
<1>3. CASE BuildEnds
  <2>1. CASE UNCHANGED <<saved, groups, version>>
    BY <1>3, <2>1 DEF BuildEnds
  <2>2. CASE saved' = saved \cup {building} /\ version' \in {version, building}
             /\ groups' = [groups EXCEPT ![building] = Whole]
    <3>1. lease = "build" /\ building \in made /\ building \in Months
      BY <1>3 DEF BuildEnds
    <3>2. Whole \in [Tables -> SUBSET (1 .. Keys)]
      OBVIOUS
    <3>3. groups' \in [Months -> [Tables -> SUBSET (1 .. Keys)]]
      <4>. HIDE DEF Whole, Tables
      <4>. QED BY <2>2, <3>1, <3>2
    <3>. HIDE DEF Whole, Tables
    <3>. QED BY <1>3, <2>2, <3>1, <3>3 DEF BuildEnds
  <2>. QED BY <1>3, <2>1, <2>2 DEF BuildEnds
<1>4. CASE Foreign BY <1>4 DEF Foreign
<1>5. CASE Admit BY <1>5 DEF Admit
<1>6. CASE Preview BY <1>6 DEF Preview
<1>7. CASE Month BY <1>7 DEF Month, Eligible, Pending
<1>8. CASE Return BY <1>8 DEF Return, Ends
<1>9. CASE Wait BY <1>9 DEF Wait, Give, TimedOut
<1>10. CASE RemovePartitions BY <1>10 DEF RemovePartitions
<1>11. CASE Measure BY <1>11 DEF Measure
<1>12. CASE RemoveGroups BY <1>12 DEF RemoveGroups
<1>13. CASE FinishGroups BY <1>13 DEF FinishGroups
<1>14. CASE NextMonth BY <1>14 DEF NextMonth
<1>15. CASE Cancelled BY <1>15 DEF Cancelled, Give, TimedOut
<1>16. CASE MonthFails BY <1>16 DEF MonthFails, Give
<1>17. CASE Interrupted BY <1>17 DEF Interrupted, Ends
<1>18. CASE Stopped BY <1>18 DEF Stopped, Ends
<1>19. ASSUME NEW r \in Reader, ReadBegins(r) PROVE CatalogType' BY <1>19 DEF ReadBegins
<1>20. ASSUME NEW r \in Reader, Require(r) PROVE CatalogType' BY <1>20 DEF Require, Marked
<1>21. ASSUME NEW r \in Reader, Read(r) PROVE CatalogType' BY <1>21 DEF Read
<1>22. ASSUME NEW r \in Reader, ReadEnds(r) PROVE CatalogType' BY <1>22 DEF ReadEnds, Idle
<1>. QED
  BY <1>0, <1>1, <1>2, <1>3, <1>4, <1>5, <1>6, <1>7, <1>8, <1>9, <1>10, <1>11,
     <1>12, <1>13, <1>14, <1>15, <1>16, <1>17, <1>18, <1>19, <1>20, <1>21,
     <1>22 DEF Next, Cleanup, Fault, Reading

(* The command's own variables; Min and Max pick what is there. *)
LEMMA CommandTypeStep ==
  ASSUME CatalogType, CommandType, LeaseInv, PlaceInv, [Next]_vars
  PROVE  CommandType'
<1>. USE Constants DEF CatalogType, CommandType, LeaseInv, PlaceInv, Tables,
         RowStates, Views, Trying, Statement, catalog, data, locals, process
<1>0. CASE UNCHANGED vars BY <1>0 DEF vars
<1>1. CASE Tick BY <1>1 DEF Tick
<1>2. CASE BuildBegins BY <1>2 DEF BuildBegins
<1>3. CASE BuildEnds BY <1>3 DEF BuildEnds
<1>4. CASE Foreign BY <1>4 DEF Foreign
<1>5. CASE Admit BY <1>5 DEF Admit
<1>6. CASE Preview
  <2>1. \A m \in Months : \A months : View(m, months) \in Views
    BY DEF View
  <2>2. report' \in [Months -> Views]
    BY <1>6, <2>1 DEF Preview
  <2>. QED BY <1>6, <2>2 DEF Preview
<1>7. CASE Month
  <2>. DEFINE m == Min(todo)
  <2>1. m \in todo /\ m \in Months
    <3>1. todo \in SUBSET Nat /\ todo # {}
      BY <1>7 DEF Month
    <3>. QED BY <3>1, Least
  <2>2. row'[m] \in RowStates /\ row' = [row EXCEPT ![m] = row'[m]]
    <3>1. report[m] \in Views
      BY <2>1
    <3>. HIDE DEF m
    <3>2. row' = [row EXCEPT ![m] = IF Eligible(m) THEN "pending"
                                    ELSE IF report[m] = "cleaned" THEN "already_cleaned"
                                    ELSE report[m]]
      BY <1>7 DEF Month, m
    <3>3. ~Eligible(m) => report[m] # "expired"
      BY DEF Eligible
    <3>. QED BY <3>1, <3>2, <3>3, <2>1
  <2>. HIDE DEF m
  <2>3. row' \in [Months -> RowStates]
    BY <2>1, <2>2
  <2>4. /\ todo' = todo \ {m} /\ at' = m
        /\ removed' = (report[m] = "cleaned")
        /\ pc' \in {"month", "groups", "partitions"}
        /\ UNCHANGED <<made, outcome, report, failure>>
        /\ budget' = BUDGET /\ waited' = 0 /\ table' = 1 /\ last' = 0
    BY <1>7 DEF Month, m
  <2>5. removed' \in BOOLEAN
    BY <2>4
  <2>. QED BY <2>1, <2>3, <2>4, <2>5
<1>8. CASE Return BY <1>8, EndsType DEF Return
<1>9. CASE Wait
  <2>1. PICK spent \in 1 .. budget :
           /\ waited' = waited + spent
           /\ budget' = budget - spent
           /\ IF spent < budget THEN UNCHANGED <<row, failure, pc>> ELSE Give(TimedOut)
    BY <1>9 DEF Wait
  <2>2. waited' \in Nat /\ budget' \in 0 .. BUDGET
    BY <2>1
  <2>3. at \in Months
    BY <1>9 DEF Wait
  <2>4. /\ row' \in [Months -> RowStates]
        /\ failure' \in BOOLEAN
        /\ pc' \in {pc, "month"}
    BY <2>1, <2>3 DEF Give, TimedOut
  <2>. QED BY <1>9, <2>2, <2>4 DEF Wait
<1>10. CASE RemovePartitions BY <1>10 DEF RemovePartitions
<1>11. CASE Measure BY <1>11 DEF Measure
<1>12. CASE RemoveGroups
  <2>1. at \in Months /\ row' \in [Months -> RowStates]
    BY <1>12 DEF RemoveGroups
  <2>2. last' \in 0 .. Keys
    <3>1. Cardinality(Batch) = CHUNK => Max(Batch) \in 1 .. Keys
      BY <1>12, BatchRemoved DEF RemoveGroups
    <3>. QED BY <1>12, <3>1 DEF RemoveGroups
  <2>. QED BY <1>12, <2>1, <2>2 DEF RemoveGroups
<1>13. CASE FinishGroups BY <1>13 DEF FinishGroups
<1>14. CASE NextMonth BY <1>14 DEF NextMonth
<1>15. CASE Cancelled BY <1>15 DEF Cancelled, Give, TimedOut
<1>16. CASE MonthFails BY <1>16 DEF MonthFails, Give
<1>17. CASE Interrupted
  <2>1. row' \in [Months -> RowStates]
    BY <1>17 DEF Interrupted
  <2>. QED BY <1>17, <2>1, EndsType DEF Interrupted
<1>18. CASE Stopped BY <1>18, EndsType DEF Stopped
<1>19. ASSUME NEW r \in Reader, ReadBegins(r) PROVE CommandType' BY <1>19 DEF ReadBegins
<1>20. ASSUME NEW r \in Reader, Require(r) PROVE CommandType' BY <1>20 DEF Require, Marked
<1>21. ASSUME NEW r \in Reader, Read(r) PROVE CommandType' BY <1>21 DEF Read
<1>22. ASSUME NEW r \in Reader, ReadEnds(r) PROVE CommandType' BY <1>22 DEF ReadEnds, Idle
<1>. QED
  BY <1>0, <1>1, <1>2, <1>3, <1>4, <1>5, <1>6, <1>7, <1>8, <1>9, <1>10, <1>11,
     <1>12, <1>13, <1>14, <1>15, <1>16, <1>17, <1>18, <1>19, <1>20, <1>21,
     <1>22 DEF Next, Cleanup, Fault, Reading

(* The readers. *)
LEMMA ReaderTypeStep ==
  ASSUME CatalogType, ReaderType, [Next]_vars
  PROVE  ReaderType'
<1>. USE DEF CatalogType, ReaderType, Idle, catalog, data, locals, process
<1>0. CASE UNCHANGED vars BY <1>0 DEF vars
<1>1. CASE Tick BY <1>1 DEF Tick
<1>2. CASE BuildBegins BY <1>2 DEF BuildBegins
<1>3. CASE BuildEnds BY <1>3 DEF BuildEnds
<1>4. CASE Foreign BY <1>4 DEF Foreign
<1>5. CASE Admit BY <1>5 DEF Admit
<1>6. CASE Preview BY <1>6 DEF Preview
<1>7. CASE Month BY <1>7 DEF Month, Eligible, Pending
<1>8. CASE Return BY <1>8 DEF Return, Ends
<1>9. CASE Wait BY <1>9 DEF Wait, Give, TimedOut
<1>10. CASE RemovePartitions BY <1>10 DEF RemovePartitions
<1>11. CASE Measure BY <1>11 DEF Measure
<1>12. CASE RemoveGroups BY <1>12 DEF RemoveGroups
<1>13. CASE FinishGroups BY <1>13 DEF FinishGroups
<1>14. CASE NextMonth BY <1>14 DEF NextMonth
<1>15. CASE Cancelled BY <1>15 DEF Cancelled, Give, TimedOut
<1>16. CASE MonthFails BY <1>16 DEF MonthFails, Give
<1>17. CASE Interrupted BY <1>17 DEF Interrupted, Ends
<1>18. CASE Stopped BY <1>18 DEF Stopped, Ends
<1>19. ASSUME NEW r \in Reader, ReadBegins(r) PROVE ReaderType'
  <2>. DEFINE R == [pc : {"idle", "begun", "locked", "over"}, month : Months \cup {0},
                    cleaned : SUBSET Months,
                    answer : {"none", "whole", "results_cleaned", "empty"}]
  <2>1. reading[r] \in R /\ \A m \in saved : m \in Months
    OBVIOUS
  <2>2. reading'[r] \in R /\ reading' = [reading EXCEPT ![r] = reading'[r]]
    <3>1. PICK m \in saved :
            reading' = [reading EXCEPT ![r] =
              [pc |-> "begun", month |-> m, answer |-> "none",
               cleaned |-> IF Isolation = "repeatable read" THEN cleaned ELSE {}]]
      BY <1>19 DEF ReadBegins
    <3>2. m \in Months /\ cleaned \subseteq Months
      OBVIOUS
    <3>3. [pc |-> "begun", month |-> m, answer |-> "none",
           cleaned |-> IF Isolation = "repeatable read" THEN cleaned ELSE {}] \in R
      BY <3>2
    <3>. HIDE DEF R
    <3>. QED BY <3>1, <3>3
  <2>. HIDE DEF R
  <2>3. reading' \in [Reader -> R]
    BY <2>2 DEF R
  <2>. QED BY <2>3 DEF R
<1>20. ASSUME NEW r \in Reader, Require(r) PROVE ReaderType'
  <2>. DEFINE R == [pc : {"idle", "begun", "locked", "over"}, month : Months \cup {0},
                    cleaned : SUBSET Months,
                    answer : {"none", "whole", "results_cleaned", "empty"}]
  <2>1. reading[r] \in R /\ \A m \in saved : m \in Months
    OBVIOUS
  <2>2. reading'[r] \in R /\ reading' = [reading EXCEPT ![r] = reading'[r]]
    BY <1>20, <2>1 DEF Require, Marked
  <2>. HIDE DEF R
  <2>3. reading' \in [Reader -> R]
    BY <2>2 DEF R
  <2>. QED BY <2>3 DEF R
<1>21. ASSUME NEW r \in Reader, Read(r) PROVE ReaderType'
  <2>. DEFINE R == [pc : {"idle", "begun", "locked", "over"}, month : Months \cup {0},
                    cleaned : SUBSET Months,
                    answer : {"none", "whole", "results_cleaned", "empty"}]
  <2>1. reading[r] \in R /\ \A m \in saved : m \in Months
    OBVIOUS
  <2>2. reading'[r] \in R /\ reading' = [reading EXCEPT ![r] = reading'[r]]
    BY <1>21, <2>1 DEF Read
  <2>. HIDE DEF R
  <2>3. reading' \in [Reader -> R]
    BY <2>2 DEF R
  <2>. QED BY <2>3 DEF R
<1>22. ASSUME NEW r \in Reader, ReadEnds(r) PROVE ReaderType' BY <1>22 DEF ReadEnds, Idle
<1>. QED
  BY <1>0, <1>1, <1>2, <1>3, <1>4, <1>5, <1>6, <1>7, <1>8, <1>9, <1>10, <1>11,
     <1>12, <1>13, <1>14, <1>15, <1>16, <1>17, <1>18, <1>19, <1>20, <1>21,
     <1>22 DEF Next, Cleanup, Fault, Reading

(* Only Admit and BuildBegins take the lease, and only when it is free. *)
LEMMA LeaseStep ==
  ASSUME CatalogType, CommandType, LeaseInv, PlaceInv, [Next]_vars
  PROVE  LeaseInv'
<1>. USE DEF CatalogType, CommandType, LeaseInv, PlaceInv, Trying, Statement,
         catalog, data, locals, process
<1>0. CASE UNCHANGED vars BY <1>0 DEF vars
<1>1. CASE Tick BY <1>1 DEF Tick
<1>2. CASE BuildBegins BY <1>2 DEF BuildBegins
<1>3. CASE BuildEnds BY <1>3 DEF BuildEnds
<1>4. CASE Foreign BY <1>4 DEF Foreign
<1>5. CASE Admit BY <1>5 DEF Admit
<1>6. CASE Preview BY <1>6 DEF Preview
<1>7. CASE Month BY <1>7 DEF Month, Eligible, Pending
<1>8. CASE Return BY <1>8 DEF Return, Ends
<1>9. CASE Wait BY <1>9 DEF Wait, Give, TimedOut
<1>10. CASE RemovePartitions BY <1>10 DEF RemovePartitions
<1>11. CASE Measure BY <1>11 DEF Measure
<1>12. CASE RemoveGroups BY <1>12 DEF RemoveGroups
<1>13. CASE FinishGroups BY <1>13 DEF FinishGroups
<1>14. CASE NextMonth BY <1>14 DEF NextMonth
<1>15. CASE Cancelled BY <1>15 DEF Cancelled, Give, TimedOut
<1>16. CASE MonthFails BY <1>16 DEF MonthFails, Give
<1>17. CASE Interrupted BY <1>17 DEF Interrupted, Ends
<1>18. CASE Stopped BY <1>18 DEF Stopped, Ends
<1>19. ASSUME NEW r \in Reader, ReadBegins(r) PROVE LeaseInv' BY <1>19 DEF ReadBegins
<1>20. ASSUME NEW r \in Reader, Require(r) PROVE LeaseInv' BY <1>20 DEF Require, Marked
<1>21. ASSUME NEW r \in Reader, Read(r) PROVE LeaseInv' BY <1>21 DEF Read
<1>22. ASSUME NEW r \in Reader, ReadEnds(r) PROVE LeaseInv' BY <1>22 DEF ReadEnds, Idle
<1>. QED
  BY <1>0, <1>1, <1>2, <1>3, <1>4, <1>5, <1>6, <1>7, <1>8, <1>9, <1>10, <1>11,
     <1>12, <1>13, <1>14, <1>15, <1>16, <1>17, <1>18, <1>19, <1>20, <1>21,
     <1>22 DEF Next, Cleanup, Fault, Reading

(* RemovePartitions and FinishGroups set a mark when it has become true, and
   no build opens or fills a month that was removed. *)
LEMMA MarksStep ==
  ASSUME CatalogType, CommandType, LeaseInv, MarksInv, ReportInv, PlaceInv, [Next]_vars
  PROVE  MarksInv'
<1>. USE Constants DEF CatalogType, CommandType, LeaseInv, MarksInv,
         MarksTellTruth, ReportInv, PlaceInv, expired, None, Tables, Trying,
         Statement, catalog, data, locals, process
<1>0. CASE UNCHANGED vars BY <1>0 DEF vars
<1>1. CASE Tick BY <1>1 DEF Tick
<1>2. CASE BuildBegins BY <1>2 DEF BuildBegins
<1>3. CASE BuildEnds BY <1>3 DEF BuildEnds
<1>4. CASE Foreign BY <1>4 DEF Foreign
<1>5. CASE Admit BY <1>5 DEF Admit
<1>6. CASE Preview BY <1>6 DEF Preview
<1>7. CASE Month BY <1>7 DEF Month, Eligible, Pending
<1>8. CASE Return BY <1>8 DEF Return, Ends
<1>9. CASE Wait BY <1>9 DEF Wait, Give, TimedOut
<1>10. CASE RemovePartitions BY <1>10 DEF RemovePartitions
<1>11. CASE Measure BY <1>11 DEF Measure
<1>12. CASE RemoveGroups
  <2>1. at \in cleaned
    BY <1>12 DEF RemoveGroups
  <2>2. UNCHANGED <<clock, made, saved, leaves, cleaned, done>>
    BY <1>12 DEF RemoveGroups
  <2>3. \A m \in saved \ cleaned : groups'[m] = Whole
    BY <1>12, <2>1, GroupsAfter
  <2>4. ASSUME at \in done PROVE groups'[at] = None
    <3>1. \A t \in Tables : groups[at][t] = {}
      BY <2>4
    <3>2. \A t \in Tables : groups'[at][t] = {}
      BY <1>12, <3>1, GroupsAfter
    <3>. QED BY <1>12, <3>2, GroupsAfter
  <2>5. \A m \in done : groups'[m] = None
    <3>1. \A m \in done \ {at} : m \in Months /\ groups[m] = None
      OBVIOUS
    <3>2. \A m \in done \ {at} : groups'[m] = None
      BY <1>12, <3>1, GroupsAfter
    <3>. QED BY <2>4, <3>2
  <2>. QED BY <2>2, <2>3, <2>5
<1>13. CASE FinishGroups BY <1>13 DEF FinishGroups
<1>14. CASE NextMonth BY <1>14 DEF NextMonth
<1>15. CASE Cancelled BY <1>15 DEF Cancelled, Give, TimedOut
<1>16. CASE MonthFails BY <1>16 DEF MonthFails, Give
<1>17. CASE Interrupted BY <1>17 DEF Interrupted, Ends
<1>18. CASE Stopped BY <1>18 DEF Stopped, Ends
<1>19. ASSUME NEW r \in Reader, ReadBegins(r) PROVE MarksInv' BY <1>19 DEF ReadBegins
<1>20. ASSUME NEW r \in Reader, Require(r) PROVE MarksInv' BY <1>20 DEF Require, Marked
<1>21. ASSUME NEW r \in Reader, Read(r) PROVE MarksInv' BY <1>21 DEF Read
<1>22. ASSUME NEW r \in Reader, ReadEnds(r) PROVE MarksInv' BY <1>22 DEF ReadEnds, Idle
<1>. QED
  BY <1>0, <1>1, <1>2, <1>3, <1>4, <1>5, <1>6, <1>7, <1>8, <1>9, <1>10, <1>11,
     <1>12, <1>13, <1>14, <1>15, <1>16, <1>17, <1>18, <1>19, <1>20, <1>21,
     <1>22 DEF Next, Cleanup, Fault, Reading

(* Time passes and nothing is published: what had expired stays expired. *)
LEMMA ReportStep ==
  ASSUME CatalogType, CommandType, LeaseInv, ReportInv, PlaceInv, [Next]_vars
  PROVE  ReportInv'
<1>. USE Constants DEF CatalogType, CommandType, LeaseInv, ReportInv,
         PlaceInv, expired, Trying, Statement, catalog, data, locals, process
<1>0. CASE UNCHANGED vars BY <1>0 DEF vars
<1>1. CASE Tick BY <1>1 DEF Tick
<1>2. CASE BuildBegins BY <1>2 DEF BuildBegins
<1>3. CASE BuildEnds BY <1>3 DEF BuildEnds
<1>4. CASE Foreign BY <1>4 DEF Foreign
<1>5. CASE Admit BY <1>5 DEF Admit
<1>6. CASE Preview
  <2>1. PICK months \in Keeps : report' = [m \in Months |-> View(m, months)]
    BY <1>6 DEF Preview
  <2>2. \A m \in Months : report'[m] = View(m, months)
    BY <2>1
  <2>3. \A m \in Months :
          /\ View(m, months) = "cleaned" => m \in cleaned
          /\ View(m, months) \in {"retained", "protected"} => m \notin cleaned
          /\ View(m, months) = "expired" =>
                m \notin cleaned /\ m # version /\ expired(m, clock, months)
    BY DEF View
  <2>4. UNCHANGED <<clock, version, cleaned>>
    BY <1>6 DEF Preview
  <2>. QED BY <2>2, <2>3, <2>4
<1>7. CASE Month BY <1>7 DEF Month, Eligible, Pending
<1>8. CASE Return BY <1>8 DEF Return, Ends
<1>9. CASE Wait BY <1>9 DEF Wait, Give, TimedOut
<1>10. CASE RemovePartitions BY <1>10 DEF RemovePartitions
<1>11. CASE Measure BY <1>11 DEF Measure
<1>12. CASE RemoveGroups BY <1>12 DEF RemoveGroups
<1>13. CASE FinishGroups BY <1>13 DEF FinishGroups
<1>14. CASE NextMonth BY <1>14 DEF NextMonth
<1>15. CASE Cancelled BY <1>15 DEF Cancelled, Give, TimedOut
<1>16. CASE MonthFails BY <1>16 DEF MonthFails, Give
<1>17. CASE Interrupted BY <1>17 DEF Interrupted, Ends
<1>18. CASE Stopped BY <1>18 DEF Stopped, Ends
<1>19. ASSUME NEW r \in Reader, ReadBegins(r) PROVE ReportInv' BY <1>19 DEF ReadBegins
<1>20. ASSUME NEW r \in Reader, Require(r) PROVE ReportInv' BY <1>20 DEF Require, Marked
<1>21. ASSUME NEW r \in Reader, Read(r) PROVE ReportInv' BY <1>21 DEF Read
<1>22. ASSUME NEW r \in Reader, ReadEnds(r) PROVE ReportInv' BY <1>22 DEF ReadEnds, Idle
<1>. QED
  BY <1>0, <1>1, <1>2, <1>3, <1>4, <1>5, <1>6, <1>7, <1>8, <1>9, <1>10, <1>11,
     <1>12, <1>13, <1>14, <1>15, <1>16, <1>17, <1>18, <1>19, <1>20, <1>21,
     <1>22 DEF Next, Cleanup, Fault, Reading

(* A batch that is not full was the last one of its table. *)
LEMMA PlaceStep ==
  ASSUME CatalogType, CommandType, LeaseInv, MarksInv, ReportInv, PlaceInv, [Next]_vars
  PROVE  PlaceInv'
<1>. USE Constants DEF CatalogType, CommandType, LeaseInv, MarksInv,
         MarksTellTruth, ReportInv, PlaceInv, None, Tables, Trying, Statement,
         catalog, data, locals, process
<1>0. CASE UNCHANGED vars BY <1>0 DEF vars
<1>1. CASE Tick BY <1>1 DEF Tick
<1>2. CASE BuildBegins BY <1>2 DEF BuildBegins
<1>3. CASE BuildEnds BY <1>3 DEF BuildEnds
<1>4. CASE Foreign BY <1>4 DEF Foreign
<1>5. CASE Admit BY <1>5 DEF Admit
<1>6. CASE Preview BY <1>6 DEF Preview
<1>7. CASE Month
  <2>. DEFINE m == Min(todo)
  <2>1. m \in todo
    <3>1. todo \in SUBSET Nat /\ todo # {}
      BY <1>7, Constants DEF Month
    <3>. QED BY <3>1, Least
  <2>2. /\ todo' = todo \ {m} /\ at' = m /\ table' = 1 /\ last' = 0
        /\ removed' = (report[m] = "cleaned")
        /\ pc' = IF ~Eligible(m) THEN "month"
                 ELSE IF report[m] = "cleaned" THEN "groups" ELSE "partitions"
        /\ UNCHANGED <<made, cleaned, done, groups, report>>
    BY <1>7 DEF Month
  <2>. HIDE DEF m
  <2>3. m \in made /\ m \in Months /\ report[m] \in {"cleaned", "protected", "expired", "retained"}
    BY <2>1 DEF Views
  <2>4. pc' = "partitions" => report[m] = "expired" /\ m \notin cleaned
    BY <1>7, <2>1, <2>2, <2>3 DEF Month, Eligible, Pending
  <2>5. pc' = "groups" => m \in cleaned
    BY <2>2, <2>3
  <2>6. \A t \in Tables : \A k \in groups[m][t] : k > 0
    BY <2>3, Constants
  <2>7. \A k \in groups'[at'][table'] : k > last'
    BY <2>2, <2>6
  <2>8. CASE pc' = "month" BY <2>8
  <2>9. CASE pc' = "partitions" BY <2>1, <2>2, <2>3, <2>4, <2>9
  <2>10. CASE pc' = "groups"
    <3>1. at' \in made' \ todo' /\ at' \in cleaned' /\ table' = 1
      BY <2>1, <2>2, <2>3, <2>5, <2>10
    <3>. QED BY <2>7, <2>10, <3>1
  <2>. QED BY <2>2, <2>8, <2>9, <2>10
<1>8. CASE Return BY <1>8 DEF Return, Ends
<1>9. CASE Wait BY <1>9 DEF Wait, Give, TimedOut
<1>10. CASE RemovePartitions BY <1>10 DEF RemovePartitions
<1>11. CASE Measure BY <1>11 DEF Measure
<1>12. CASE RemoveGroups
  <2>1. pc = "groups" /\ at \in cleaned /\ at \in made \ todo
    BY <1>12 DEF RemoveGroups
  <2>2. UNCHANGED <<made, todo, cleaned, done, report, at, removed>>
    BY <1>12 DEF RemoveGroups
  <2>3. /\ groups'[at][table] = groups[at][table] \ Batch
        /\ \A t \in Tables \ {table} : groups'[at][t] = groups[at][t]
        /\ groups'[at] \in [Tables -> SUBSET (1 .. Keys)]
    BY <1>12, GroupsAfter
  <2>4. CASE Cardinality(Batch) = CHUNK
    <3>1. last' = Max(Batch) /\ table' = table /\ pc' = pc
      BY <1>12, <2>4 DEF RemoveGroups
    <3>2. \A k \in groups[at][table] \ Batch : k > Max(Batch)
      BY <2>1, <2>4, BatchRemoved
    <3>3. table = 2 => groups'[at][1] = {}
      BY <2>1, <2>3, TwoTables
    <3>. QED BY <2>1, <2>2, <2>3, <3>1, <3>2, <3>3
  <2>5. CASE Cardinality(Batch) # CHUNK
    <3>1. groups'[at][table] = {}
      BY <2>1, <2>3, <2>5, BatchRemoved
    <3>2. last' = 0
      BY <1>12, <2>5 DEF RemoveGroups
    <3>3. CASE table = 1
      <4>1. table' = 2 /\ pc' = pc
        BY <1>12, <2>5, <3>3 DEF RemoveGroups
      <4>2. \A k \in groups'[at][2] : k > 0
        BY <2>3, Constants, TwoTables
      <4>. QED BY <2>1, <2>2, <3>1, <3>2, <3>3, <4>1, <4>2
    <3>4. CASE table = 2
      <4>1. pc' = "finish"
        BY <1>12, <2>5, <3>4 DEF RemoveGroups
      <4>2. groups'[at][1] = {} /\ groups'[at][2] = {}
        BY <2>1, <2>3, <3>1, <3>4, TwoTables
      <4>3. groups'[at] = None
        <5>1. \A t \in Tables : groups'[at][t] = {}
          BY <4>2, TwoTables
        <5>. QED BY <2>3, <5>1
      <4>. QED BY <2>1, <2>2, <4>1, <4>3
    <3>. QED BY <3>3, <3>4
  <2>. QED BY <2>4, <2>5
<1>13. CASE FinishGroups BY <1>13 DEF FinishGroups
<1>14. CASE NextMonth BY <1>14 DEF NextMonth
<1>15. CASE Cancelled BY <1>15 DEF Cancelled, Give, TimedOut
<1>16. CASE MonthFails BY <1>16 DEF MonthFails, Give
<1>17. CASE Interrupted BY <1>17 DEF Interrupted, Ends
<1>18. CASE Stopped BY <1>18 DEF Stopped, Ends
<1>19. ASSUME NEW r \in Reader, ReadBegins(r) PROVE PlaceInv' BY <1>19 DEF ReadBegins
<1>20. ASSUME NEW r \in Reader, Require(r) PROVE PlaceInv' BY <1>20 DEF Require, Marked
<1>21. ASSUME NEW r \in Reader, Read(r) PROVE PlaceInv' BY <1>21 DEF Read
<1>22. ASSUME NEW r \in Reader, ReadEnds(r) PROVE PlaceInv' BY <1>22 DEF ReadEnds, Idle
<1>. QED
  BY <1>0, <1>1, <1>2, <1>3, <1>4, <1>5, <1>6, <1>7, <1>8, <1>9, <1>10, <1>11,
     <1>12, <1>13, <1>14, <1>15, <1>16, <1>17, <1>18, <1>19, <1>20, <1>21,
     <1>22 DEF Next, Cleanup, Fault, Reading

(* Each row is written with or after what it says. *)
LEMMA RecordStep ==
  ASSUME CatalogType, CommandType, LeaseInv, MarksInv, ReportInv, PlaceInv, RecordInv, [Next]_vars
  PROVE  RecordInv'
<1>. USE DEF CatalogType, CommandType, LeaseInv, MarksInv, ReportInv,
         PlaceInv, RecordInv, Settled, Trying, Statement, catalog, data,
         locals, process
<1>0. CASE UNCHANGED vars BY <1>0 DEF vars
<1>1. CASE Tick BY <1>1 DEF Tick
<1>2. CASE BuildBegins BY <1>2 DEF BuildBegins
<1>3. CASE BuildEnds BY <1>3 DEF BuildEnds
<1>4. CASE Foreign BY <1>4 DEF Foreign
<1>5. CASE Admit
  <2>1. row' = [m \in Months |-> "none"]
    BY <1>5 DEF Admit
  <2>2. \A m \in Months : row'[m] = "none"
    BY <2>1
  <2>3. pc' = "preview" /\ outcome' = "running" /\ ~failure'
    BY <1>5 DEF Admit
  <2>4. Settled'
    BY <2>2
  <2>5. \A m \in Months :
          row'[m] \notin {"succeeded", "already_cleaned", "removing_groups",
                         "groups_pending", "retained", "protected"}
    BY <2>2
  <2>. QED BY <2>1, <2>3, <2>4, <2>5
<1>6. CASE Preview BY <1>6 DEF Preview
<1>7. CASE Month
  <2>. DEFINE m == Min(todo)
  <2>1. m \in todo
    <3>1. todo \in SUBSET Nat /\ todo # {}
      BY <1>7, Constants DEF Month
    <3>. QED BY <3>1, Least
  <2>2. /\ at' = m
        /\ row' = [row EXCEPT ![m] = IF Eligible(m) THEN "pending"
                                     ELSE IF report[m] = "cleaned" THEN "already_cleaned"
                                     ELSE report[m]]
        /\ pc' = IF ~Eligible(m) THEN "month"
                 ELSE IF report[m] = "cleaned" THEN "groups" ELSE "partitions"
        /\ UNCHANGED <<cleaned, done, report, outcome, failure>>
    BY <1>7 DEF Month
  <2>. HIDE DEF m
  <2>3. m \in Months /\ report[m] \in {"cleaned", "protected", "expired", "retained"}
    BY <2>1 DEF Views
  <2>4. ~Eligible(m) /\ report[m] = "cleaned" => m \in done
    BY <2>3 DEF Eligible, Pending
  <2>5. ~Eligible(m) => report[m] # "expired"
    BY DEF Eligible
  <2>6. \A n \in Months \ {m} : row'[n] = row[n]
    BY <2>2
  <2>7. row'[m] = IF Eligible(m) THEN "pending"
                  ELSE IF report[m] = "cleaned" THEN "already_cleaned" ELSE report[m]
    BY <2>2, <2>3
  <2>8. outcome = "running" /\ pc = "month"
    BY <1>7 DEF Month
  <2>9. \A n \in Months :
          /\ row'[n] \in {"succeeded", "already_cleaned"} => n \in done
          /\ row'[n] \in {"removing_groups", "groups_pending"} => n \in cleaned
          /\ row'[n] \in {"retained", "protected"} => n \notin cleaned
    BY <2>3, <2>4, <2>6, <2>7
  <2>10. ~failure => Settled'
    BY <2>2, <2>3, <2>4, <2>5, <2>6, <2>7, <2>8
  <2>. QED BY <2>2, <2>8, <2>9, <2>10
<1>8. CASE Return BY <1>8 DEF Return, Ends
<1>9. CASE Wait BY <1>9 DEF Wait, Give, TimedOut
<1>10. CASE RemovePartitions BY <1>10 DEF RemovePartitions
<1>11. CASE Measure BY <1>11 DEF Measure
<1>12. CASE RemoveGroups BY <1>12 DEF RemoveGroups
<1>13. CASE FinishGroups BY <1>13 DEF FinishGroups
<1>14. CASE NextMonth BY <1>14 DEF NextMonth
<1>15. CASE Cancelled BY <1>15 DEF Cancelled, Give, TimedOut
<1>16. CASE MonthFails BY <1>16 DEF MonthFails, Give
<1>17. CASE Interrupted BY <1>17 DEF Interrupted, Ends
<1>18. CASE Stopped BY <1>18 DEF Stopped, Ends
<1>19. ASSUME NEW r \in Reader, ReadBegins(r) PROVE RecordInv' BY <1>19 DEF ReadBegins
<1>20. ASSUME NEW r \in Reader, Require(r) PROVE RecordInv' BY <1>20 DEF Require, Marked
<1>21. ASSUME NEW r \in Reader, Read(r) PROVE RecordInv' BY <1>21 DEF Read
<1>22. ASSUME NEW r \in Reader, ReadEnds(r) PROVE RecordInv' BY <1>22 DEF ReadEnds, Idle
<1>. QED
  BY <1>0, <1>1, <1>2, <1>3, <1>4, <1>5, <1>6, <1>7, <1>8, <1>9, <1>10, <1>11,
     <1>12, <1>13, <1>14, <1>15, <1>16, <1>17, <1>18, <1>19, <1>20, <1>21,
     <1>22 DEF Next, Cleanup, Fault, Reading

(* What a failed attempt costs is taken from the budget of the month. *)
LEMMA WaitStep ==
  ASSUME CatalogType, CommandType, WaitInv, [Next]_vars
  PROVE  WaitInv'
<1>. USE Constants DEF CatalogType, CommandType, WaitInv, catalog, data,
         locals, process
<1>0. CASE UNCHANGED vars BY <1>0 DEF vars
<1>1. CASE Tick BY <1>1 DEF Tick
<1>2. CASE BuildBegins BY <1>2 DEF BuildBegins
<1>3. CASE BuildEnds BY <1>3 DEF BuildEnds
<1>4. CASE Foreign BY <1>4 DEF Foreign
<1>5. CASE Admit BY <1>5 DEF Admit
<1>6. CASE Preview BY <1>6 DEF Preview
<1>7. CASE Month BY <1>7 DEF Month, Eligible, Pending
<1>8. CASE Return BY <1>8 DEF Return, Ends
<1>9. CASE Wait BY <1>9 DEF Wait, Give, TimedOut
<1>10. CASE RemovePartitions BY <1>10 DEF RemovePartitions
<1>11. CASE Measure BY <1>11 DEF Measure
<1>12. CASE RemoveGroups BY <1>12 DEF RemoveGroups
<1>13. CASE FinishGroups BY <1>13 DEF FinishGroups
<1>14. CASE NextMonth BY <1>14 DEF NextMonth
<1>15. CASE Cancelled BY <1>15 DEF Cancelled, Give, TimedOut
<1>16. CASE MonthFails BY <1>16 DEF MonthFails, Give
<1>17. CASE Interrupted BY <1>17 DEF Interrupted, Ends
<1>18. CASE Stopped BY <1>18 DEF Stopped, Ends
<1>19. ASSUME NEW r \in Reader, ReadBegins(r) PROVE WaitInv' BY <1>19 DEF ReadBegins
<1>20. ASSUME NEW r \in Reader, Require(r) PROVE WaitInv' BY <1>20 DEF Require, Marked
<1>21. ASSUME NEW r \in Reader, Read(r) PROVE WaitInv' BY <1>21 DEF Read
<1>22. ASSUME NEW r \in Reader, ReadEnds(r) PROVE WaitInv' BY <1>22 DEF ReadEnds, Idle
<1>. QED
  BY <1>0, <1>1, <1>2, <1>3, <1>4, <1>5, <1>6, <1>7, <1>8, <1>9, <1>10, <1>11,
     <1>12, <1>13, <1>14, <1>15, <1>16, <1>17, <1>18, <1>19, <1>20, <1>21,
     <1>22 DEF Next, Cleanup, Fault, Reading

(* A month is removed only when no reader holds the lock. *)
LEMMA ReadStep ==
  ASSUME CatalogType, ReaderType, MarksInv, ReadInv, [Next]_vars
  PROVE  ReadInv'
<1>. USE Constants DEF CatalogType, ReaderType, MarksInv, MarksTellTruth,
         ReadInv, Locked, catalog, data, locals, process
<1>0. CASE UNCHANGED vars BY <1>0 DEF vars
<1>1. CASE Tick BY <1>1 DEF Tick
<1>2. CASE BuildBegins BY <1>2 DEF BuildBegins
<1>3. CASE BuildEnds BY <1>3 DEF BuildEnds
<1>4. CASE Foreign BY <1>4 DEF Foreign
<1>5. CASE Admit BY <1>5 DEF Admit
<1>6. CASE Preview BY <1>6 DEF Preview
<1>7. CASE Month BY <1>7 DEF Month, Eligible, Pending
<1>8. CASE Return BY <1>8 DEF Return, Ends
<1>9. CASE Wait BY <1>9 DEF Wait, Give, TimedOut
<1>10. CASE RemovePartitions BY <1>10 DEF RemovePartitions
<1>11. CASE Measure BY <1>11 DEF Measure
<1>12. CASE RemoveGroups BY <1>12 DEF RemoveGroups
<1>13. CASE FinishGroups BY <1>13 DEF FinishGroups
<1>14. CASE NextMonth BY <1>14 DEF NextMonth
<1>15. CASE Cancelled BY <1>15 DEF Cancelled, Give, TimedOut
<1>16. CASE MonthFails BY <1>16 DEF MonthFails, Give
<1>17. CASE Interrupted BY <1>17 DEF Interrupted, Ends
<1>18. CASE Stopped BY <1>18 DEF Stopped, Ends
<1>19. ASSUME NEW r \in Reader, ReadBegins(r) PROVE ReadInv'
  <2>1. PICK m \in saved :
          reading' = [reading EXCEPT ![r] =
              [pc |-> "begun", month |-> m, answer |-> "none",
               cleaned |-> IF Isolation = "repeatable read" THEN cleaned ELSE {}]]
    BY <1>19 DEF ReadBegins
  <2>2. /\ reading'[r].pc = "begun" /\ reading'[r].month = m /\ reading'[r].answer = "none"
        /\ \A q \in Reader \ {r} : reading'[q] = reading[q]
    BY <2>1
  <2>3. UNCHANGED <<saved, leaves>>
    BY <1>19 DEF ReadBegins
  <2>. QED BY <2>2, <2>3
<1>20. ASSUME NEW r \in Reader, Require(r) PROVE ReadInv'
  <2>1. ASSUME Isolation = "read committed"
        PROVE  /\ reading[r].month \in saved
               /\ reading[r].month \notin cleaned =>
                     reading' = [reading EXCEPT ![r].pc = "locked"]
               /\ reading[r].month \in cleaned =>
                     reading' = [reading EXCEPT ![r].pc = "over",
                                                ![r].answer = "results_cleaned"]
    BY <1>20, <2>1 DEF Require, Marked
  <2>2. UNCHANGED <<saved, leaves>>
    BY <1>20 DEF Require
  <2>3. ASSUME Isolation = "read committed"
        PROVE  /\ \A q \in Reader \ {r} : reading'[q] = reading[q]
               /\ reading'[r].pc \in {"locked", "over"}
               /\ reading'[r].month = reading[r].month
               /\ reading'[r].pc = "locked" => reading[r].month \notin cleaned
               /\ reading'[r].answer \in {reading[r].answer, "results_cleaned"}
    <3>. HIDE DEF MarksInv, MarksTellTruth, ReadInv, CatalogType
    <3>0. reading[r] \in [pc : {"idle", "begun", "locked", "over"}, month : Months \cup {0},
                          cleaned : SUBSET Months,
                          answer : {"none", "whole", "results_cleaned", "empty"}]
      OBVIOUS
    <3>1. CASE reading[r].month \in cleaned
      <4>1. reading' = [reading EXCEPT ![r] =
                [reading[r] EXCEPT !.pc = "over", !.answer = "results_cleaned"]]
        BY <2>1, <2>3, <3>1
      <4>. QED BY <3>0, <3>1, <4>1
    <3>2. CASE reading[r].month \notin cleaned
      <4>1. reading' = [reading EXCEPT ![r] = [reading[r] EXCEPT !.pc = "locked"]]
        BY <2>1, <2>3, <3>2
      <4>. QED BY <3>0, <3>2, <4>1
    <3>. QED BY <3>1, <3>2
  <2>. QED BY <2>1, <2>2, <2>3
<1>21. ASSUME NEW r \in Reader, Read(r) PROVE ReadInv' BY <1>21 DEF Read
<1>22. ASSUME NEW r \in Reader, ReadEnds(r) PROVE ReadInv' BY <1>22 DEF ReadEnds, Idle
<1>. QED
  BY <1>0, <1>1, <1>2, <1>3, <1>4, <1>5, <1>6, <1>7, <1>8, <1>9, <1>10, <1>11,
     <1>12, <1>13, <1>14, <1>15, <1>16, <1>17, <1>18, <1>19, <1>20, <1>21,
     <1>22 DEF Next, Cleanup, Fault, Reading

-----------------------------------------------------------------------------
(* The theorems.                                                           *)

(* The invariant holds in every state of every run. *)
THEOREM Invariance == Spec => []IInv
<1>1. ASSUME IInv, [Next]_vars PROVE IInv'
  <2>1. CatalogType /\ CommandType /\ ReaderType
    BY <1>1, TypeParts DEF IInv
  <2>2. LeaseInv /\ MarksInv /\ ReportInv /\ PlaceInv /\ RecordInv /\ WaitInv /\ ReadInv
    BY <1>1 DEF IInv
  <2>3. TypeOK'
    <3>1. CatalogType' /\ CommandType' /\ ReaderType'
      BY <1>1, <2>1, <2>2, CatalogTypeStep, CommandTypeStep, ReaderTypeStep
    <3>. QED BY <3>1, TypeParts DEF TypeOK, CatalogType, CommandType, ReaderType
  <2>4. LeaseInv' /\ MarksInv' /\ ReportInv'
    BY <1>1, <2>1, <2>2, LeaseStep, MarksStep, ReportStep
  <2>5. PlaceInv' /\ RecordInv' /\ WaitInv' /\ ReadInv'
    BY <1>1, <2>1, <2>2, PlaceStep, RecordStep, WaitStep, ReadStep
  <2>. QED BY <2>3, <2>4, <2>5 DEF IInv
<1>2. IInv /\ [Next]_vars => IInv'
  BY <1>1
<1>. QED BY InvInit, <1>2, PTL DEF Spec

(* WaitIsBounded: the removal of one month, its tables and all the batches *)
(* of its group rows, waits for locks no longer than one LOCK_BUDGET.      *)
THEOREM WaitsAreBounded == Spec => []WaitIsBounded
<1>1. IInv => WaitIsBounded
  <2>. SUFFICES ASSUME IInv PROVE waited <= BUDGET
    BY DEF WaitIsBounded
  <2>1. budget \in Nat /\ waited \in Nat /\ waited + budget = BUDGET
    BY Constants DEF IInv, TypeOK, WaitInv
  <2>. QED BY <2>1, Constants
<1>. QED BY Invariance, <1>1, PTL

(* RecordsTellTruth: whatever ended a cleanup, cleaned_at and              *)
(* groups_cleaned_at say what is there, and the rows of its record say what *)
(* it did; and one that succeeded left nothing expired or unfinished.      *)
THEOREM RecordsAreTrue == Spec => []RecordsTellTruth
<1>1. IInv => RecordsTellTruth
  <2>. SUFFICES ASSUME IInv PROVE MarksTellTruth /\ ReportTellsTruth
    BY DEF RecordsTellTruth
  <2>1. MarksTellTruth /\ RecordInv /\ made \subseteq Months
    BY DEF IInv, MarksInv, TypeOK
  <2>2. CASE outcome = "succeeded"
    <3>1. pc = "idle"
      BY <2>1, <2>2 DEF RecordInv
    <3>. QED BY <2>1, <2>2, <3>1 DEF RecordInv, Settled, ReportTellsTruth, Statement
  <2>3. CASE outcome # "succeeded"
    BY <2>1, <2>3 DEF RecordInv, ReportTellsTruth
  <2>. QED BY <2>1, <2>2, <2>3
<1>. QED BY Invariance, <1>1, PTL

(* ReadsAreWhole: under the isolation that the product's sessions have, a  *)
(* reader gets whole results or is told that they were removed.  Under     *)
(* "repeatable read" it does not hold, as run cleanup_snapshot shows.      *)
THEOREM ReadCommittedReadsAreWhole ==
  ASSUME Isolation = "read committed"
  PROVE  Spec => []ReadsAreWhole
<1>1. IInv => ReadsAreWhole
  BY DEF IInv, ReadInv, ReadsAreWhole
<1>. QED BY Invariance, <1>1, PTL

(* A refinement.  Every step of the detailed system is one of Retention or *)
(* leaves the clock, the version, the leaves and the marks alone: months   *)
(* are removed whole, only when they have expired by the configuration the *)
(* command was started with, and never the month of the current version.   *)
THEOREM RetentionIsImplemented == Spec => ImplementsRetention
<1>1. Init => Retained!Init
  BY Constants DEF Init, Retained!Init
<1>2. ASSUME IInv, [Next]_vars PROVE [Retained!Next]_(Retained!vars)
  <2>. USE DEF catalog, data, process, locals, Retained!vars
  <2>1. /\ CatalogType /\ CommandType
        /\ LeaseInv /\ MarksTellTruth /\ \A m \in cleaned : m < clock
    BY <1>2, TypeParts DEF IInv, MarksInv
  <2>2. CASE Tick
    BY <2>2 DEF Tick, Retained!Next, Retained!Tick
  <2>3. CASE BuildBegins
    <3>. DEFINE opened == {clock} \cup (IF foreign # "none" THEN {} ELSE {clock + 1} \cap Months)
    <3>1. opened \in SUBSET ({clock, clock + 1} \cap Months) /\ clock \notin cleaned
      BY <2>3 DEF BuildBegins
    <3>2. clock + 1 \notin cleaned
      <4>1. clock \in Nat
        BY <2>1 DEF CatalogType
      <4>. QED BY <2>1, <4>1
    <3>3. opened \cap cleaned = {}
      BY <3>1, <3>2
    <3>4. leaves' = leaves \cup opened /\ UNCHANGED <<clock, version, cleaned>>
      BY <2>3 DEF BuildBegins
    <3>. HIDE DEF opened
    <3>. QED BY <3>1, <3>3, <3>4 DEF Retained!Next, Retained!Open
  <2>4. CASE BuildEnds
    <3>1. building \in leaves /\ UNCHANGED <<clock, leaves, cleaned>>
      BY <2>1, <2>4 DEF BuildEnds, LeaseInv, MarksTellTruth
    <3>2. version' \in {version, building}
      BY <2>4 DEF BuildEnds
    <3>. QED BY <3>1, <3>2 DEF Retained!Next, Retained!Publish
  <2>5. CASE RemovePartitions
    <3>1. pc = "partitions" /\ at \in Months /\ report[at] = "expired" /\ at \notin cleaned
      BY <1>2, <2>1, <2>5
         DEF RemovePartitions, CommandType, Trying, Statement, IInv, PlaceInv
    <3>2. at # version /\ \E k \in Keeps : expired(at, clock, k)
      BY <1>2, <3>1 DEF IInv, ReportInv
    <3>3. at \in leaves
      BY <1>2, <2>1, <3>1 DEF IInv, PlaceInv, MarksTellTruth, Trying, Statement
    <3>4. /\ leaves' = leaves \ {at} /\ cleaned' = cleaned \cup {at}
          /\ UNCHANGED <<clock, version>>
      BY <2>5 DEF RemovePartitions
    <3>. QED BY <3>2, <3>3, <3>4
             DEF Retained!Next, Retained!Remove, Retained!expired, expired
  <2>6. CASE \/ UNCHANGED vars \/ Foreign \/ Admit \/ Preview \/ Month \/ Return \/ Wait
    BY <2>6 DEF vars, Foreign, Admit, Preview, Month, Return, Wait
  <2>7. CASE \/ Measure \/ RemoveGroups \/ FinishGroups \/ NextMonth
             \/ Cancelled \/ MonthFails \/ Interrupted \/ Stopped
    BY <2>7 DEF Measure, RemoveGroups, FinishGroups, NextMonth, Cancelled, MonthFails,
                Interrupted, Stopped
  <2>8. ASSUME NEW r \in Reader, Reading(r) PROVE UNCHANGED Retained!vars
    BY <2>8 DEF Reading, ReadBegins, Require, Read, ReadEnds
  <2>. QED BY <1>2, <2>2, <2>3, <2>4, <2>5, <2>6, <2>7, <2>8 DEF Next, Cleanup, Fault
<1>3. IInv /\ [Next]_vars => [Retained!Next]_(Retained!vars)
  BY <1>2
<1>. QED BY Invariance, <1>1, <1>3, PTL DEF Spec, ImplementsRetention, Retained!Spec

(* An action property: a month's results come back in no step, and its two *)
(* marks are set in their order. *)
THEOREM RemovedForGood ==
  Spec => [][cleaned \subseteq cleaned' /\ done \subseteq done' /\ leaves' \cap cleaned' = {}
             /\ done' \subseteq cleaned']_vars
<1>1. IInv' => leaves' \cap cleaned' = {} /\ done' \subseteq cleaned'
  BY DEF IInv, MarksInv, MarksTellTruth, TypeOK
<1>2. [Next]_vars => cleaned \subseteq cleaned' /\ done \subseteq done'
  BY DEF Next, vars, catalog, data, process, locals, Tick, BuildBegins, BuildEnds, Foreign,
     Reading, ReadBegins, Require, Read, ReadEnds, Admit, Cleanup, Preview, Month, Return,
     Wait, RemovePartitions, Measure, RemoveGroups, FinishGroups, NextMonth, Fault,
     Cancelled, MonthFails, Interrupted, Stopped
<1>. QED BY Invariance, <1>1, <1>2, PTL DEF Spec

=============================================================================
