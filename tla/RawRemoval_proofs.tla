------------------------ MODULE RawRemoval_proofs ------------------------
(***************************************************************************)
(* The safety of RawRemoval, for any set of files and of stray names, and  *)
(* for any number of edits and of ends of a run.                           *)
(*                                                                         *)
(* Three things a run knows are compared with what is there: stamps, facts *)
(* read from rows, and the listing of its last scan.  The parts of IInv    *)
(* say for how long each of them is worth something: StampInv always,      *)
(* FactsInv and DeletionInv while the run works on the day, CalmInv while  *)
(* no person has edited the directory since the run began, and QuietInv    *)
(* while none has ever.                                                    *)
(***************************************************************************)
EXTENDS RawRemoval, FiniteSetTheorems, TLAPS

Comparing == {"comparing", "reading"}
Deciding  == {"proven", "deciding"}
Deleting  == {"deleting", "unlinking", "recording", "unmarking"}

(* A stamp was given to one content: a row or a fact with the stamp of the *)
(* file that is there speaks of what is in it.  0 is never given.          *)
StampInv ==
    /\ \A n \in Name : disk[n].stamp <= edits + 1
    /\ \A n \in Name : disk[n].stamp = 0 => disk[n] = Absent
    /\ \A n \in File :
          /\ rows[n].stamp <= edits + 1
          /\ facts[n].stamp <= edits + 1
          /\ rows[n].stamp # 0 /\ disk[n].stamp = rows[n].stamp => disk[n].good
          /\ facts[n].stamp # 0 /\ disk[n].stamp = facts[n].stamp => disk[n].good

PlaceInv ==
    /\ pc \in Deciding \cup Deleting => prove
    /\ pc \in Deciding \cup {"unmarking"} => todo = {}
    /\ pc \in {"reading", "unlinking", "recording"} => todo # {}
    /\ pc \in Comparing => todo \subseteq listing

(* From the comparison to the decision the facts are those of the rows,    *)
(* except that a verified file may have been decided about before.         *)
FactsInv ==
    pc \in Comparing \cup Deciding => \A n \in File :
        /\ facts[n].removed = rows[n].removed
        /\ facts[n].removing => rows[n].removing \/ (rows[n].exists /\ ~rows[n].removed)
        /\ prove /\ n \in listing \ todo => rows[n].exists

(* What is deleted was decided, and what was decided is deleted: nothing   *)
(* is left out but what is recorded as removed.                            *)
DeletionInv ==
    /\ pc \in Deleting => \A n \in File :
          /\ n \in todo => rows[n].removing
          /\ n \in listing \/ facts[n].removing => n \in todo \/ rows[n].removed
    /\ pc = "unlinking" => raced \/ disk[At] = Absent \/ disk[At].good
    /\ pc = "unmarking" => raced \/ Present = {}

Bad == \E n \in Present : n \in Stray \/ ~disk[n].good

CalmInv ==
    calm /\ marker =>
        /\ pc \in {"listed", "scanned"} \cup Comparing => listing = Present
        /\ pc \in Comparing =>
              /\ Present \cap Stray = {}
              /\ \A n \in Present \ todo : disk[n].good
        /\ pc \in {"looked", "scanned"} => alarm \/ ~Bad
        /\ pc \in Deciding \cup Deleting => ~Bad
        /\ pc # "gone"

Gone    == {n \in File : disk[n] = Absent}
Removed == {n \in File : rows[n].removed}

(* Nobody has ever edited the day: what is missing we have deleted.        *)
QuietFiles ==
    edits = 0 =>
        /\ ~alarm
        /\ \A n \in Stray : disk[n] = Absent
        /\ \A n \in File :
              /\ disk[n] \in {[stamp |-> 1, good |-> TRUE], Absent}
              /\ rows[n].removed => disk[n] = Absent
              /\ disk[n] = Absent => rows[n].removing
              /\ ~marker => rows[n].removed

QuietCounts ==
    edits = 0 =>
        /\ unlinked = Cardinality(Gone)
        /\ files = Cardinality(Removed)
        /\ \/ days = 0 /\ \A n \in File : ~rows[n].cleared
           \/ days = 1 /\ ~marker /\ \A n \in File : rows[n].cleared

QuietRun ==
    edits = 0 =>
        /\ pc \notin {"idle", "looked", "gone"} => marker
        /\ pc = "gone" => ~marker
        /\ pc \in {"listed", "scanned"} \cup Comparing \cup Deciding => listing = Present
        /\ pc = "reading" => seen = disk[At]
        /\ pc \in Comparing \cup Deciding => \A n \in File :
              /\ disk[n] = Absent => facts[n].removing
              /\ prove /\ n \in listing \ todo => facts[n].stamp = disk[n].stamp
        /\ pc \in Deleting => \A n \in File :
              /\ disk[n] # Absent =>
                    n \in todo /\ n \in listing /\ facts[n].stamp = disk[n].stamp
              /\ n \in todo \/ rows[n].removed
        /\ pc = "recording" => disk[At] = Absent

RunInv == PlaceInv /\ FactsInv /\ DeletionInv
QuietInv == QuietFiles /\ QuietCounts /\ QuietRun

IInv == TypeOK /\ StampInv /\ RunInv /\ CalmInv /\ QuietInv

-----------------------------------------------------------------------------
(* Facts about the constants and the next file of a loop. *)

(* What the assumptions say, as plain facts. *)
LEMMA Constants ==
    /\ IsFiniteSet(File) /\ File # {} /\ File \cap Stray = {}
    /\ MaxEdits \in Nat /\ MaxStops \in Nat
BY NameAssumption, BoundAssumption

(* A loop that is not over takes one of the names it has not done. *)
LEMMA AtIsTodo == todo # {} => At \in todo
BY DEF At

(* It is the same one as long as the loop has not gone on. *)
LEMMA AtStays == ASSUME todo' = todo PROVE At' = At
BY DEF At

(* What the steps write has the type of what was there. *)
LEMMA RowTypes ==
    ASSUME NEW row \in Rows
    PROVE  /\ [row EXCEPT !.stamp = 0] \in Rows
           /\ [row EXCEPT !.removed = TRUE] \in Rows
           /\ [row EXCEPT !.cleared = TRUE] \in Rows
<1>1. 0 \in Stamps
  BY Constants DEF Stamps
<1> QED
  BY <1>1 DEF Rows

(* What a run remembers of a row has its type. *)
LEMMA FactTypes == ASSUME NEW row \in Rows PROVE Fact(row) \in Facts
BY DEF Rows, Facts, Fact

(* So have the looks that people give to a name. *)
LEMMA EditTypes ==
    ASSUME TypeOK, edits < MaxEdits
    PROVE  Absent \in Looks /\ \A good \in BOOLEAN : [stamp |-> edits + 2, good |-> good] \in Looks
BY Constants DEF TypeOK, Looks, Stamps, Absent

(* People change one name or the marker, and give what they put a new stamp. *)
LEMMA PeopleEdit ==
    ASSUME TypeOK, People
    PROVE  /\ edits < MaxEdits /\ edits' = edits + 1
           /\ edits' \in 0 .. MaxEdits /\ edits' # 0
           /\ raced' = TRUE /\ calm' = FALSE
           /\ marker' \in BOOLEAN
           /\ UNCHANGED <<database, process, unlinked, stops>>
           /\ \/ disk' = disk
              \/ \E n \in Name, look \in Looks :
                    /\ disk' = [disk EXCEPT ![n] = look]
                    /\ look = Absent \/ look.stamp = edits + 2
<1>1. ASSUME NEW n \in Name, NEW good \in BOOLEAN, Put(n, good)
      PROVE  /\ Edited /\ marker' = marker
             /\ \E look \in Looks : /\ disk' = [disk EXCEPT ![n] = look]
                                   /\ look.stamp = edits + 2
  <2>1. /\ [stamp |-> edits + 2, good |-> good] \in Looks
        /\ [stamp |-> edits + 2, good |-> good].stamp = edits + 2
    BY <1>1, EditTypes DEF Put, Edited
  <2> QED
    BY <1>1, <2>1 DEF Put
<1>2. ASSUME NEW n \in Name, Take(n)
      PROVE  Edited /\ marker' = marker /\ disk' = [disk EXCEPT ![n] = Absent]
  BY <1>2 DEF Take
<1>3. ASSUME Edited PROVE Absent \in Looks
  BY <1>3, EditTypes DEF Edited
<1> DEFINE Touched ==
      /\ Edited
      /\ marker' \in BOOLEAN
      /\ \/ disk' = disk
         \/ \E n \in Name, look \in Looks :
               /\ disk' = [disk EXCEPT ![n] = look]
               /\ look = Absent \/ look.stamp = edits + 2
<1>4. ASSUME Mark PROVE Touched
  BY <1>4 DEF Mark, TypeOK
<1>5. marker \in BOOLEAN
  BY DEF TypeOK
<1>6. ASSUME \E n \in Name, good \in BOOLEAN : Put(n, good) PROVE Touched
  BY <1>6, <1>1, <1>5
<1>7. ASSUME \E n \in Name : Take(n) PROVE Touched
  BY <1>7, <1>2, <1>3, <1>5
<1>8. Touched
  BY <1>4, <1>6, <1>7 DEF People
<1>9. edits < MaxEdits /\ edits' = edits + 1 => edits' \in 0 .. MaxEdits /\ edits' # 0
  BY Constants DEF TypeOK
<1> QED
  BY <1>8, <1>9 DEF Edited

-----------------------------------------------------------------------------
(* Every step keeps the types, and the rows their CHECKs. *)
LEMMA TypeStep == ASSUME TypeOK, StampInv, RunInv, Next PROVE TypeOK'
<1> USE Constants, AtIsTodo DEF directory, database, process, history, bounds
<1>1. CASE Begin
  BY <1>1 DEF Begin, Scan, TypeOK, RowsAreLegal, Places, Looks, Rows, Facts, Stamps, Name,
     RunInv, PlaceInv, FactsInv, DeletionInv, Comparing, Deciding, Deleting, Absent, NoRow,
     Fact, Present
<1>2. CASE Compare
  <2>1. facts' \in [File -> Facts]
    BY <1>2, FactTypes DEF Compare, TypeOK
  <2> QED
    BY <1>2, <2>1 DEF Compare, Mismatch, Report, TypeOK, RowsAreLegal, Places
<1>3. CASE Skip
  BY <1>3 DEF Skip, Untouched, TypeOK, RowsAreLegal, Places, Looks, Rows, Facts, Stamps,
     Name, RunInv, PlaceInv, FactsInv, DeletionInv, Comparing, Deciding, Deleting, Absent,
     NoRow, Fact, Present
<1>4. CASE Open
  BY <1>4 DEF Open, TypeOK, RowsAreLegal, Places, Looks, Rows, Facts, Stamps, Name, RunInv,
     PlaceInv, FactsInv, DeletionInv, Comparing, Deciding, Deleting, Absent, NoRow, Fact,
     Present
<1>5. CASE Vanished
  BY <1>5 DEF Vanished, Report, TypeOK, RowsAreLegal, Places, Looks, Rows, Facts, Stamps,
     Name, RunInv, PlaceInv, FactsInv, DeletionInv, Comparing, Deciding, Deleting, Absent,
     NoRow, Fact, Present
<1>6. CASE Verify
  <2>1. At \in File /\ seen.stamp \in Stamps
    BY <1>6 DEF Verify, TypeOK, Looks, PlaceInv, RunInv
  <2>2. Verified(rows[At], seen.stamp) \in Rows
    BY <2>1 DEF TypeOK, Rows, Verified
  <2>3. rows' \in [File -> Rows]
    BY <1>6, <2>2 DEF Verify, TypeOK
  <2>4. RowsAreLegal'
    BY <1>6, <2>1 DEF Verify, Verified, TypeOK, RowsAreLegal, Rows
  <2>5. facts' = [facts EXCEPT ![At] = [facts[At] EXCEPT !.stamp = seen.stamp, !.removed = FALSE]]
    BY <1>6, <2>1 DEF Verify, TypeOK, Facts
  <2>6. [facts[At] EXCEPT !.stamp = seen.stamp, !.removed = FALSE] \in Facts
    BY <2>1 DEF TypeOK, Facts
  <2>7. facts' \in [File -> Facts]
    BY <2>5, <2>6 DEF TypeOK
  <2> QED
    BY <1>6, <2>3, <2>4, <2>7 DEF Verify, TypeOK, Places
<1>7. CASE Refute
  <2>1. rows' \in [File -> Rows]
    <3>1. \A n \in File : [rows[n] EXCEPT !.stamp = 0] \in Rows
      BY RowTypes DEF TypeOK
    <3> QED
      BY <1>7, <3>1 DEF Refute, Doubt, TypeOK
  <2>2. RowsAreLegal'
    BY <1>7 DEF Refute, Doubt, Report, TypeOK, RowsAreLegal, Rows, RunInv, PlaceInv,
       DeletionInv, Deleting
  <2> QED
    BY <1>7, <2>1, <2>2 DEF Refute, Report, TypeOK, RowsAreLegal, Places, Looks, Facts,
       Stamps, RunInv, PlaceInv, Comparing, Deciding, Deleting
<1>8. CASE Compared
  BY <1>8 DEF Compared, TypeOK, RowsAreLegal, Places, Looks, Rows, Facts, Stamps, Name,
     RunInv, PlaceInv, FactsInv, DeletionInv, Comparing, Deciding, Deleting, Absent, NoRow,
     Fact, Present
<1>9. CASE RawScan
  BY <1>9 DEF RawScan, Scan, Begun, Fact, Present, TypeOK, RowsAreLegal, Places, Looks,
     Rows, Facts, Stamps, Name, RunInv, PlaceInv, FactsInv, DeletionInv, Comparing,
     Deciding, Deleting, Absent, NoRow
<1>10. CASE Prove
  BY <1>10 DEF Prove, TypeOK, RowsAreLegal, Places, Looks, Rows, Facts, Stamps, Name,
     RunInv, PlaceInv, FactsInv, DeletionInv, Comparing, Deciding, Deleting, Absent, NoRow,
     Fact, Present
<1>11. CASE NotDue
  BY <1>11 DEF NotDue, Begun, Fact, TypeOK, RowsAreLegal, Places, Looks, Rows, Facts,
     Stamps, Name, RunInv, PlaceInv, FactsInv, DeletionInv, Comparing, Deciding, Deleting,
     Absent, NoRow, Present
<1>12. CASE Recheck
  <2>1. rows' \in [File -> Rows]
    BY <1>12, RowTypes DEF Recheck, Doubt, TypeOK
  <2>2. RowsAreLegal'
    BY <1>12 DEF Recheck, Doubt, Report, TypeOK, RowsAreLegal, Rows, RunInv, PlaceInv,
       DeletionInv, Deleting
  <2> QED
    BY <1>12, <2>1, <2>2 DEF Recheck, Report, TypeOK, RowsAreLegal, Places, Looks, Facts,
       Stamps, RunInv, PlaceInv, Comparing, Deciding, Deleting
<1>13. CASE Decide
  <2>1. rows' \in [File -> Rows]
    <3>1. ASSUME NEW n \in File PROVE rows'[n] \in Rows
      BY <1>13 DEF Decide, TypeOK, Rows
    <3> QED
      BY <1>13, <3>1 DEF Decide
  <2>2. RowsAreLegal'
    BY <1>13 DEF Decide, TypeOK, RowsAreLegal, Rows
  <2> QED
    BY <1>13, <2>1, <2>2 DEF Decide, TypeOK, Places
<1>14. CASE AlreadyGone
  BY <1>14 DEF AlreadyGone, TypeOK, RowsAreLegal, Places, Looks, Rows, Facts, Stamps, Name,
     RunInv, PlaceInv, FactsInv, DeletionInv, Comparing, Deciding, Deleting, Absent, NoRow,
     Fact, Present
<1>15. CASE LookAgain
  BY <1>15 DEF LookAgain, TypeOK, RowsAreLegal, Places, Looks, Rows, Facts, Stamps, Name,
     RunInv, PlaceInv, FactsInv, DeletionInv, Comparing, Deciding, Deleting, Absent, NoRow,
     Fact, Present
<1>16. CASE Differs
  BY <1>16 DEF Differs, Report, Doubt, TypeOK, RowsAreLegal, Places, Looks, Rows, Facts,
     Stamps, Name, RunInv, PlaceInv, FactsInv, DeletionInv, Comparing, Deciding, Deleting,
     Absent, NoRow, Fact, Present
<1>17. CASE Unlink
  BY <1>17 DEF Unlink, TypeOK, RowsAreLegal, Places, Looks, Rows, Facts, Stamps, Name,
     RunInv, PlaceInv, FactsInv, DeletionInv, Comparing, Deciding, Deleting, Absent, NoRow,
     Fact, Present
<1>18. CASE DeleteFails
  BY <1>18 DEF DeleteFails, TypeOK, RowsAreLegal, Places, Looks, Rows, Facts, Stamps, Name,
     RunInv, PlaceInv, FactsInv, DeletionInv, Comparing, Deciding, Deleting, Absent, NoRow,
     Fact, Present
<1>19. CASE Record
  <2>1. rows' \in [File -> Rows]
    BY <1>19, RowTypes DEF Record, TypeOK
  <2>2. RowsAreLegal'
    BY <1>19 DEF Record, TypeOK, RowsAreLegal, Rows, RunInv, PlaceInv, DeletionInv, Deleting
  <2> QED
    BY <1>19, <2>1, <2>2 DEF Record, TypeOK, RowsAreLegal, Places, Looks, Facts, Stamps,
       RunInv, PlaceInv, Comparing, Deciding, Deleting
<1>20. CASE ScanAgain
  BY <1>20 DEF ScanAgain, Report, Present, TypeOK, RowsAreLegal, Places, Looks, Rows, Facts,
     Stamps, Name, RunInv, PlaceInv, FactsInv, DeletionInv, Comparing, Deciding, Deleting,
     Absent, NoRow, Fact
<1>21. CASE Unmark
  BY <1>21 DEF Unmark, TypeOK, RowsAreLegal, Places, Looks, Rows, Facts, Stamps, Name,
     RunInv, PlaceInv, FactsInv, DeletionInv, Comparing, Deciding, Deleting, Absent, NoRow,
     Fact, Present
<1>22. CASE DayGone
  <2>1. rows' \in [File -> Rows]
    BY <1>22, RowTypes DEF DayGone, TypeOK
  <2>2. RowsAreLegal'
    BY <1>22 DEF DayGone, TypeOK, RowsAreLegal, Rows, RunInv, PlaceInv, DeletionInv,
       Deleting
  <2> QED
    BY <1>22, <2>1, <2>2 DEF DayGone, TypeOK, RowsAreLegal, Places, Looks, Facts, Stamps,
       RunInv, PlaceInv, Comparing, Deciding, Deleting
<1>23. CASE Stop
  BY <1>23 DEF Stop, TypeOK, RowsAreLegal, Places, Looks, Rows, Facts, Stamps, Name, RunInv,
     PlaceInv, FactsInv, DeletionInv, Comparing, Deciding, Deleting, Absent, NoRow, Fact,
     Present
<1>24. CASE People
  <2>1. disk' \in [Name -> Looks]
    BY <1>24, PeopleEdit DEF TypeOK
  <2> QED
    BY <1>24, <2>1, PeopleEdit DEF database, process, TypeOK, RowsAreLegal
<1> QED
  BY <1>1, <1>2, <1>3, <1>4, <1>5, <1>6, <1>7, <1>8, <1>9, <1>10, <1>11, <1>12, <1>13,
     <1>14, <1>15, <1>16, <1>17, <1>18, <1>19, <1>20, <1>21, <1>22, <1>23, <1>24 DEF Next,
     Run

(* Every step keeps what stamps say. *)
LEMMA StampStep == ASSUME TypeOK, StampInv, PlaceInv, Next PROVE StampInv'
<1> USE Constants, AtIsTodo DEF directory, database, process, history, bounds
<1>1. CASE Begin
  BY <1>1 DEF Begin, Scan, TypeOK, Looks, Rows, Facts, Stamps, Name, StampInv, PlaceInv,
     Comparing, Deciding, Deleting, Absent, Fact
<1>2. CASE Compare
  BY <1>2 DEF Compare, Mismatch, Report, Fact, TypeOK, Looks, Rows, Facts, Stamps, Name,
     StampInv, PlaceInv, Comparing, Deciding, Deleting, Absent
<1>3. CASE Skip
  BY <1>3 DEF Skip, Untouched, TypeOK, Looks, Rows, Facts, Stamps, Name, StampInv, PlaceInv,
     Comparing, Deciding, Deleting, Absent, Fact
<1>4. CASE Open
  BY <1>4 DEF Open, TypeOK, Looks, Rows, Facts, Stamps, Name, StampInv, PlaceInv, Comparing,
     Deciding, Deleting, Absent, Fact
<1>5. CASE Vanished
  BY <1>5 DEF Vanished, Report, TypeOK, Looks, Rows, Facts, Stamps, Name, StampInv,
     PlaceInv, Comparing, Deciding, Deleting, Absent, Fact
<1>6. CASE Verify
  BY <1>6 DEF Verify, Verified, TypeOK, Looks, Rows, Facts, Stamps, Name, StampInv,
     PlaceInv, Comparing, Deciding, Deleting, Absent, Fact
<1>7. CASE Refute
  BY <1>7 DEF Refute, Report, Doubt, TypeOK, Looks, Rows, Facts, Stamps, Name, StampInv,
     PlaceInv, Comparing, Deciding, Deleting, Absent, Fact
<1>8. CASE Compared
  BY <1>8 DEF Compared, TypeOK, Looks, Rows, Facts, Stamps, Name, StampInv, PlaceInv,
     Comparing, Deciding, Deleting, Absent, Fact
<1>9. CASE RawScan
  BY <1>9 DEF RawScan, Scan, Begun, Fact, Present, TypeOK, Looks, Rows, Facts, Stamps, Name,
     StampInv, PlaceInv, Comparing, Deciding, Deleting, Absent
<1>10. CASE Prove
  BY <1>10 DEF Prove, TypeOK, Looks, Rows, Facts, Stamps, Name, StampInv, PlaceInv,
     Comparing, Deciding, Deleting, Absent, Fact
<1>11. CASE NotDue
  BY <1>11 DEF NotDue, Begun, Fact, TypeOK, Looks, Rows, Facts, Stamps, Name, StampInv,
     PlaceInv, Comparing, Deciding, Deleting, Absent
<1>12. CASE Recheck
  BY <1>12 DEF Recheck, Report, Doubt, TypeOK, Looks, Rows, Facts, Stamps, Name, StampInv,
     PlaceInv, Comparing, Deciding, Deleting, Absent, Fact
<1>13. CASE Decide
  BY <1>13 DEF Decide, TypeOK, Looks, Rows, Facts, Stamps, Name, StampInv, PlaceInv,
     Comparing, Deciding, Deleting, Absent, Fact
<1>14. CASE AlreadyGone
  BY <1>14 DEF AlreadyGone, TypeOK, Looks, Rows, Facts, Stamps, Name, StampInv, PlaceInv,
     Comparing, Deciding, Deleting, Absent, Fact
<1>15. CASE LookAgain
  BY <1>15 DEF LookAgain, TypeOK, Looks, Rows, Facts, Stamps, Name, StampInv, PlaceInv,
     Comparing, Deciding, Deleting, Absent, Fact
<1>16. CASE Differs
  BY <1>16 DEF Differs, Report, Doubt, TypeOK, Looks, Rows, Facts, Stamps, Name, StampInv,
     PlaceInv, Comparing, Deciding, Deleting, Absent, Fact
<1>17. CASE Unlink
  BY <1>17 DEF Unlink, TypeOK, Looks, Rows, Facts, Stamps, Name, StampInv, PlaceInv,
     Comparing, Deciding, Deleting, Absent, Fact
<1>18. CASE DeleteFails
  BY <1>18 DEF DeleteFails, TypeOK, Looks, Rows, Facts, Stamps, Name, StampInv, PlaceInv,
     Comparing, Deciding, Deleting, Absent, Fact
<1>19. CASE Record
  BY <1>19 DEF Record, TypeOK, Looks, Rows, Facts, Stamps, Name, StampInv, PlaceInv,
     Comparing, Deciding, Deleting, Absent, Fact
<1>20. CASE ScanAgain
  BY <1>20 DEF ScanAgain, Report, Present, TypeOK, Looks, Rows, Facts, Stamps, Name,
     StampInv, PlaceInv, Comparing, Deciding, Deleting, Absent, Fact
<1>21. CASE Unmark
  BY <1>21 DEF Unmark, TypeOK, Looks, Rows, Facts, Stamps, Name, StampInv, PlaceInv,
     Comparing, Deciding, Deleting, Absent, Fact
<1>22. CASE DayGone
  BY <1>22 DEF DayGone, TypeOK, Looks, Rows, Facts, Stamps, Name, StampInv, PlaceInv,
     Comparing, Deciding, Deleting, Absent, Fact
<1>23. CASE Stop
  BY <1>23 DEF Stop, TypeOK, Looks, Rows, Facts, Stamps, Name, StampInv, PlaceInv,
     Comparing, Deciding, Deleting, Absent, Fact
<1>24. CASE People
  <2>1. edits \in Nat /\ edits' = edits + 1 /\ rows' = rows /\ facts' = facts
    <3>1. edits \in Nat
      BY DEF TypeOK
    <3> QED
      BY <1>24, <3>1, PeopleEdit DEF database, process
  <2>2. /\ \A n \in File : rows[n].stamp \in Nat /\ facts[n].stamp \in Nat
        /\ \A n \in Name : disk[n].stamp \in Nat
        /\ File \subseteq Name
    BY DEF TypeOK, Rows, Facts, Looks, Stamps, Name
  <2>3. CASE disk' = disk
    BY <2>1, <2>2, <2>3 DEF StampInv
  <2>4. ASSUME NEW m \in Name, NEW look \in Looks, disk' = [disk EXCEPT ![m] = look],
               look = Absent \/ look.stamp = edits + 2
        PROVE StampInv'
    <3>1. disk'[m] = look /\ \A n \in Name \ {m} : disk'[n] = disk[n]
      BY <2>4 DEF TypeOK
    <3>2. look = Absent \/ (look.stamp = edits + 2 /\ look.stamp = edits' + 1 /\ look.stamp # 0)
      BY <2>1, <2>4
    <3>3. Absent.stamp = 0
      BY DEF Absent
    <3>4. /\ \A n \in Name : disk'[n].stamp <= edits' + 1
          /\ \A n \in Name : disk'[n].stamp = 0 => disk'[n] = Absent
      BY <2>1, <2>2, <3>1, <3>2, <3>3 DEF StampInv
    <3>5. ASSUME NEW n \in File
          PROVE  /\ rows[n].stamp <= edits' + 1 /\ facts[n].stamp <= edits' + 1
                 /\ rows[n].stamp # 0 /\ disk'[n].stamp = rows[n].stamp => disk'[n].good
                 /\ facts[n].stamp # 0 /\ disk'[n].stamp = facts[n].stamp => disk'[n].good
      <4>1. rows[n].stamp <= edits + 1 /\ facts[n].stamp <= edits + 1
        BY DEF StampInv
      <4>2. CASE n = m
        BY <2>1, <2>2, <3>1, <3>2, <3>3, <4>1, <4>2
      <4>3. CASE n # m
        BY <2>1, <2>2, <3>1, <4>1, <4>3 DEF StampInv
      <4> QED
        BY <4>2, <4>3
    <3> QED
      BY <2>1, <3>4, <3>5 DEF StampInv
  <2> QED
    BY <1>24, <2>3, <2>4, PeopleEdit
<1> QED
  BY <1>1, <1>2, <1>3, <1>4, <1>5, <1>6, <1>7, <1>8, <1>9, <1>10, <1>11, <1>12, <1>13,
     <1>14, <1>15, <1>16, <1>17, <1>18, <1>19, <1>20, <1>21, <1>22, <1>23, <1>24 DEF Next,
     Run

(* Every step keeps what a place of the run says of its variables. *)
LEMMA PlaceStep == ASSUME TypeOK, PlaceInv, Next PROVE PlaceInv'
<1> USE Constants, AtIsTodo DEF directory, database, process, history, bounds
<1>1. CASE Begin
  BY <1>1 DEF Begin, Scan, TypeOK, PlaceInv, Comparing, Deciding, Deleting
<1>2. CASE Compare
  BY <1>2 DEF Compare, Mismatch, Report, Fact, TypeOK, PlaceInv, Comparing, Deciding,
     Deleting
<1>3. CASE Skip
  BY <1>3 DEF Skip, Untouched, TypeOK, PlaceInv, Comparing, Deciding, Deleting
<1>4. CASE Open
  BY <1>4 DEF Open, TypeOK, PlaceInv, Comparing, Deciding, Deleting
<1>5. CASE Vanished
  BY <1>5 DEF Vanished, Report, TypeOK, PlaceInv, Comparing, Deciding, Deleting
<1>6. CASE Verify
  BY <1>6 DEF Verify, Verified, TypeOK, PlaceInv, Comparing, Deciding, Deleting
<1>7. CASE Refute
  BY <1>7 DEF Refute, Report, Doubt, TypeOK, PlaceInv, Comparing, Deciding, Deleting
<1>8. CASE Compared
  BY <1>8 DEF Compared, TypeOK, PlaceInv, Comparing, Deciding, Deleting
<1>9. CASE RawScan
  BY <1>9 DEF RawScan, Scan, Begun, Fact, Present, TypeOK, PlaceInv, Comparing, Deciding,
     Deleting
<1>10. CASE Prove
  BY <1>10 DEF Prove, TypeOK, PlaceInv, Comparing, Deciding, Deleting
<1>11. CASE NotDue
  BY <1>11 DEF NotDue, Begun, Fact, TypeOK, PlaceInv, Comparing, Deciding, Deleting
<1>12. CASE Recheck
  BY <1>12 DEF Recheck, Report, Doubt, TypeOK, PlaceInv, Comparing, Deciding, Deleting
<1>13. CASE Decide
  BY <1>13 DEF Decide, TypeOK, PlaceInv, Comparing, Deciding, Deleting
<1>14. CASE AlreadyGone
  BY <1>14 DEF AlreadyGone, TypeOK, PlaceInv, Comparing, Deciding, Deleting
<1>15. CASE LookAgain
  BY <1>15 DEF LookAgain, TypeOK, PlaceInv, Comparing, Deciding, Deleting
<1>16. CASE Differs
  BY <1>16 DEF Differs, Report, Doubt, TypeOK, PlaceInv, Comparing, Deciding, Deleting
<1>17. CASE Unlink
  BY <1>17 DEF Unlink, TypeOK, PlaceInv, Comparing, Deciding, Deleting
<1>18. CASE DeleteFails
  BY <1>18 DEF DeleteFails, TypeOK, PlaceInv, Comparing, Deciding, Deleting
<1>19. CASE Record
  BY <1>19 DEF Record, TypeOK, PlaceInv, Comparing, Deciding, Deleting
<1>20. CASE ScanAgain
  BY <1>20 DEF ScanAgain, Report, Present, TypeOK, PlaceInv, Comparing, Deciding, Deleting
<1>21. CASE Unmark
  BY <1>21 DEF Unmark, TypeOK, PlaceInv, Comparing, Deciding, Deleting
<1>22. CASE DayGone
  BY <1>22 DEF DayGone, TypeOK, PlaceInv, Comparing, Deciding, Deleting
<1>23. CASE Stop
  BY <1>23 DEF Stop, TypeOK, PlaceInv, Comparing, Deciding, Deleting
<1>24. CASE People
  BY <1>24 DEF People, Put, Take, Mark, Edited, Absent, TypeOK, PlaceInv, Comparing,
     Deciding, Deleting
<1> QED
  BY <1>1, <1>2, <1>3, <1>4, <1>5, <1>6, <1>7, <1>8, <1>9, <1>10, <1>11, <1>12, <1>13,
     <1>14, <1>15, <1>16, <1>17, <1>18, <1>19, <1>20, <1>21, <1>22, <1>23, <1>24 DEF Next,
     Run

(* Every step keeps the facts true to the rows. *)
LEMMA FactsStep == ASSUME TypeOK, PlaceInv, FactsInv, Next PROVE FactsInv'
<1> USE Constants, AtIsTodo DEF directory, database, process, history, bounds
<1>1. CASE Begin
  BY <1>1 DEF Begin, Scan, TypeOK, Rows, Facts, Looks, PlaceInv, FactsInv, Comparing,
     Deciding, Deleting, Fact
<1>2. CASE Compare
  BY <1>2 DEF Compare, Mismatch, Report, Fact, TypeOK, Rows, Facts, Looks, PlaceInv,
     FactsInv, Comparing, Deciding, Deleting
<1>3. CASE Skip
  BY <1>3 DEF Skip, Untouched, TypeOK, Rows, Facts, Looks, PlaceInv, FactsInv, Comparing,
     Deciding, Deleting, Fact
<1>4. CASE Open
  BY <1>4 DEF Open, TypeOK, Rows, Facts, Looks, PlaceInv, FactsInv, Comparing, Deciding,
     Deleting, Fact
<1>5. CASE Vanished
  BY <1>5 DEF Vanished, Report, TypeOK, Rows, Facts, Looks, PlaceInv, FactsInv, Comparing,
     Deciding, Deleting, Fact
<1>6. CASE Verify
  <2>1. At \in File /\ At \in listing
    BY <1>6 DEF Verify, TypeOK, PlaceInv, Comparing
  <2>2. /\ rows'[At] = Verified(rows[At], seen.stamp)
        /\ \A n \in File \ {At} : rows'[n] = rows[n]
    BY <1>6, <2>1 DEF Verify, TypeOK
  <2>3. /\ facts'[At].removed = FALSE
        /\ \A n \in File : facts'[n].removing = facts[n].removing
        /\ \A n \in File \ {At} : facts'[n] = facts[n]
    BY <1>6, <2>1 DEF Verify, TypeOK, Facts
  <2> QED
    BY <1>6, <2>1, <2>2, <2>3 DEF Verify, Verified, PlaceInv, FactsInv, Comparing, Deciding,
       TypeOK
<1>7. CASE Refute
  BY <1>7 DEF Refute, Report, Doubt, TypeOK, Rows, Facts, Looks, PlaceInv, FactsInv,
     Comparing, Deciding, Deleting, Fact
<1>8. CASE Compared
  BY <1>8 DEF Compared, TypeOK, Rows, Facts, Looks, PlaceInv, FactsInv, Comparing, Deciding,
     Deleting, Fact
<1>9. CASE RawScan
  BY <1>9 DEF RawScan, Scan, Begun, Fact, Present, TypeOK, Rows, Facts, Looks, PlaceInv,
     FactsInv, Comparing, Deciding, Deleting
<1>10. CASE Prove
  BY <1>10 DEF Prove, TypeOK, Rows, Facts, Looks, PlaceInv, FactsInv, Comparing, Deciding,
     Deleting, Fact
<1>11. CASE NotDue
  BY <1>11 DEF NotDue, Begun, Fact, TypeOK, Rows, Facts, Looks, PlaceInv, FactsInv,
     Comparing, Deciding, Deleting
<1>12. CASE Recheck
  BY <1>12 DEF Recheck, Report, Doubt, TypeOK, Rows, Facts, Looks, PlaceInv, FactsInv,
     Comparing, Deciding, Deleting, Fact
<1>13. CASE Decide
  BY <1>13 DEF Decide, TypeOK, Rows, Facts, Looks, PlaceInv, FactsInv, Comparing, Deciding,
     Deleting, Fact
<1>14. CASE AlreadyGone
  BY <1>14 DEF AlreadyGone, TypeOK, Rows, Facts, Looks, PlaceInv, FactsInv, Comparing,
     Deciding, Deleting, Fact
<1>15. CASE LookAgain
  BY <1>15 DEF LookAgain, TypeOK, Rows, Facts, Looks, PlaceInv, FactsInv, Comparing,
     Deciding, Deleting, Fact
<1>16. CASE Differs
  BY <1>16 DEF Differs, Report, Doubt, TypeOK, Rows, Facts, Looks, PlaceInv, FactsInv,
     Comparing, Deciding, Deleting, Fact
<1>17. CASE Unlink
  BY <1>17 DEF Unlink, TypeOK, Rows, Facts, Looks, PlaceInv, FactsInv, Comparing, Deciding,
     Deleting, Fact
<1>18. CASE DeleteFails
  BY <1>18 DEF DeleteFails, TypeOK, Rows, Facts, Looks, PlaceInv, FactsInv, Comparing,
     Deciding, Deleting, Fact
<1>19. CASE Record
  BY <1>19 DEF Record, TypeOK, Rows, Facts, Looks, PlaceInv, FactsInv, Comparing, Deciding,
     Deleting, Fact
<1>20. CASE ScanAgain
  BY <1>20 DEF ScanAgain, Report, Present, TypeOK, Rows, Facts, Looks, PlaceInv, FactsInv,
     Comparing, Deciding, Deleting, Fact
<1>21. CASE Unmark
  BY <1>21 DEF Unmark, TypeOK, Rows, Facts, Looks, PlaceInv, FactsInv, Comparing, Deciding,
     Deleting, Fact
<1>22. CASE DayGone
  BY <1>22 DEF DayGone, TypeOK, Rows, Facts, Looks, PlaceInv, FactsInv, Comparing, Deciding,
     Deleting, Fact
<1>23. CASE Stop
  BY <1>23 DEF Stop, TypeOK, Rows, Facts, Looks, PlaceInv, FactsInv, Comparing, Deciding,
     Deleting, Fact
<1>24. CASE People
  BY <1>24 DEF People, Put, Take, Mark, Edited, Absent, TypeOK, Rows, Facts, Looks,
     PlaceInv, FactsInv, Comparing, Deciding, Deleting, Fact
<1> QED
  BY <1>1, <1>2, <1>3, <1>4, <1>5, <1>6, <1>7, <1>8, <1>9, <1>10, <1>11, <1>12, <1>13,
     <1>14, <1>15, <1>16, <1>17, <1>18, <1>19, <1>20, <1>21, <1>22, <1>23, <1>24 DEF Next,
     Run

(* Every step keeps the deletion to what was decided. *)
LEMMA DeletionStep == ASSUME TypeOK, StampInv, RunInv, Next PROVE DeletionInv'
<1> USE Constants, AtIsTodo, AtStays DEF directory, database, process, history, bounds
<1>1. CASE Begin
  BY <1>1 DEF Begin, Scan, TypeOK, RowsAreLegal, Rows, Facts, Looks, StampInv, Stamps, Name,
     Absent, Present, RunInv, PlaceInv, FactsInv, DeletionInv, Comparing, Deciding, Deleting
<1>2. CASE Compare
  BY <1>2 DEF Compare, Mismatch, Report, Fact, TypeOK, RowsAreLegal, Rows, Facts, Looks,
     StampInv, Stamps, Name, Absent, Present, RunInv, PlaceInv, FactsInv, DeletionInv,
     Comparing, Deciding, Deleting
<1>3. CASE Skip
  BY <1>3 DEF Skip, Untouched, TypeOK, RowsAreLegal, Rows, Facts, Looks, StampInv, Stamps,
     Name, Absent, Present, RunInv, PlaceInv, FactsInv, DeletionInv, Comparing, Deciding,
     Deleting
<1>4. CASE Open
  BY <1>4 DEF Open, TypeOK, RowsAreLegal, Rows, Facts, Looks, StampInv, Stamps, Name,
     Absent, Present, RunInv, PlaceInv, FactsInv, DeletionInv, Comparing, Deciding, Deleting
<1>5. CASE Vanished
  BY <1>5 DEF Vanished, Report, TypeOK, RowsAreLegal, Rows, Facts, Looks, StampInv, Stamps,
     Name, Absent, Present, RunInv, PlaceInv, FactsInv, DeletionInv, Comparing, Deciding,
     Deleting
<1>6. CASE Verify
  BY <1>6 DEF Verify, Verified, TypeOK, RowsAreLegal, Rows, Facts, Looks, StampInv, Stamps,
     Name, Absent, Present, RunInv, PlaceInv, FactsInv, DeletionInv, Comparing, Deciding,
     Deleting
<1>7. CASE Refute
  BY <1>7 DEF Refute, Report, Doubt, TypeOK, RowsAreLegal, Rows, Facts, Looks, StampInv,
     Stamps, Name, Absent, Present, RunInv, PlaceInv, FactsInv, DeletionInv, Comparing,
     Deciding, Deleting
<1>8. CASE Compared
  BY <1>8 DEF Compared, TypeOK, RowsAreLegal, Rows, Facts, Looks, StampInv, Stamps, Name,
     Absent, Present, RunInv, PlaceInv, FactsInv, DeletionInv, Comparing, Deciding, Deleting
<1>9. CASE RawScan
  BY <1>9 DEF RawScan, Scan, Begun, Fact, Present, TypeOK, RowsAreLegal, Rows, Facts, Looks,
     StampInv, Stamps, Name, Absent, RunInv, PlaceInv, FactsInv, DeletionInv, Comparing,
     Deciding, Deleting
<1>10. CASE Prove
  BY <1>10 DEF Prove, TypeOK, RowsAreLegal, Rows, Facts, Looks, StampInv, Stamps, Name,
     Absent, Present, RunInv, PlaceInv, FactsInv, DeletionInv, Comparing, Deciding, Deleting
<1>11. CASE NotDue
  BY <1>11 DEF NotDue, Begun, Fact, TypeOK, RowsAreLegal, Rows, Facts, Looks, StampInv,
     Stamps, Name, Absent, Present, RunInv, PlaceInv, FactsInv, DeletionInv, Comparing,
     Deciding, Deleting
<1>12. CASE Recheck
  BY <1>12 DEF Recheck, Report, Doubt, TypeOK, RowsAreLegal, Rows, Facts, Looks, StampInv,
     Stamps, Name, Absent, Present, RunInv, PlaceInv, FactsInv, DeletionInv, Comparing,
     Deciding, Deleting
<1>13. CASE Decide
  BY <1>13 DEF Decide, TypeOK, RowsAreLegal, Rows, Facts, Looks, StampInv, Stamps, Name,
     Absent, Present, RunInv, PlaceInv, FactsInv, DeletionInv, Comparing, Deciding, Deleting
<1>14. CASE AlreadyGone
  BY <1>14 DEF AlreadyGone, TypeOK, RowsAreLegal, Rows, Facts, Looks, StampInv, Stamps,
     Name, Absent, Present, RunInv, PlaceInv, FactsInv, DeletionInv, Comparing, Deciding,
     Deleting
<1>15. CASE LookAgain
  BY <1>15 DEF LookAgain, TypeOK, RowsAreLegal, Rows, Facts, Looks, StampInv, Stamps, Name,
     Absent, Present, RunInv, PlaceInv, FactsInv, DeletionInv, Comparing, Deciding, Deleting
<1>16. CASE Differs
  BY <1>16 DEF Differs, Report, Doubt, TypeOK, RowsAreLegal, Rows, Facts, Looks, StampInv,
     Stamps, Name, Absent, Present, RunInv, PlaceInv, FactsInv, DeletionInv, Comparing,
     Deciding, Deleting
<1>17. CASE Unlink
  BY <1>17 DEF Unlink, TypeOK, RowsAreLegal, Rows, Facts, Looks, StampInv, Stamps, Name,
     Absent, Present, RunInv, PlaceInv, FactsInv, DeletionInv, Comparing, Deciding, Deleting
<1>18. CASE DeleteFails
  BY <1>18 DEF DeleteFails, TypeOK, RowsAreLegal, Rows, Facts, Looks, StampInv, Stamps,
     Name, Absent, Present, RunInv, PlaceInv, FactsInv, DeletionInv, Comparing, Deciding,
     Deleting
<1>19. CASE Record
  BY <1>19 DEF Record, TypeOK, RowsAreLegal, Rows, Facts, Looks, StampInv, Stamps, Name,
     Absent, Present, RunInv, PlaceInv, FactsInv, DeletionInv, Comparing, Deciding, Deleting
<1>20. CASE ScanAgain
  BY <1>20 DEF ScanAgain, Report, Present, TypeOK, RowsAreLegal, Rows, Facts, Looks,
     StampInv, Stamps, Name, Absent, RunInv, PlaceInv, FactsInv, DeletionInv, Comparing,
     Deciding, Deleting
<1>21. CASE Unmark
  BY <1>21 DEF Unmark, TypeOK, RowsAreLegal, Rows, Facts, Looks, StampInv, Stamps, Name,
     Absent, Present, RunInv, PlaceInv, FactsInv, DeletionInv, Comparing, Deciding, Deleting
<1>22. CASE DayGone
  BY <1>22 DEF DayGone, TypeOK, RowsAreLegal, Rows, Facts, Looks, StampInv, Stamps, Name,
     Absent, Present, RunInv, PlaceInv, FactsInv, DeletionInv, Comparing, Deciding, Deleting
<1>23. CASE Stop
  BY <1>23 DEF Stop, TypeOK, RowsAreLegal, Rows, Facts, Looks, StampInv, Stamps, Name,
     Absent, Present, RunInv, PlaceInv, FactsInv, DeletionInv, Comparing, Deciding, Deleting
<1>24. CASE People
  BY <1>24 DEF People, Put, Take, Mark, Edited, Absent, TypeOK, RowsAreLegal, Rows, Facts,
     Looks, StampInv, Stamps, Name, Present, RunInv, PlaceInv, FactsInv, DeletionInv,
     Comparing, Deciding, Deleting
<1> QED
  BY <1>1, <1>2, <1>3, <1>4, <1>5, <1>6, <1>7, <1>8, <1>9, <1>10, <1>11, <1>12, <1>13,
     <1>14, <1>15, <1>16, <1>17, <1>18, <1>19, <1>20, <1>21, <1>22, <1>23, <1>24 DEF Next,
     Run

(* Every step of a run that nobody disturbs keeps what it has seen true. *)
LEMMA CalmStep == ASSUME TypeOK, StampInv, RunInv, CalmInv, Next PROVE CalmInv'
<1> USE Constants, AtIsTodo DEF directory, database, process, history, bounds
<1>1. CASE Begin
  BY <1>1 DEF Begin, Scan, TypeOK, Rows, Facts, Looks, StampInv, Stamps, Name, Absent,
     Present, RunInv, PlaceInv, CalmInv, Bad, Comparing, Deciding, Deleting
<1>2. CASE Compare
  <2>1. /\ UNCHANGED <<disk, marker, calm, listing>>
        /\ Present' = Present /\ Present \subseteq File \cup Stray
    BY <1>2 DEF Compare, Present, Name
  <2>2. CASE pc' = "comparing"
    <3>1. listing \cap Stray = {} /\ todo' = listing \cap File
      BY <1>2, <2>2 DEF Compare, Mismatch, Report
    <3>2. calm /\ marker => listing = Present
      BY <1>2 DEF Compare, CalmInv
    <3> QED
      BY <2>1, <2>2, <3>1, <3>2 DEF CalmInv, Comparing, Deciding, Deleting
  <2>3. CASE pc' # "comparing"
    <3>1. alarm' /\ pc' \in {"idle", "looked"}
      BY <1>2, <2>3 DEF Compare, Report
    <3> QED
      BY <2>1, <3>1 DEF CalmInv, Comparing, Deciding, Deleting
  <2> QED
    BY <2>2, <2>3
<1>3. CASE Skip
  BY <1>3 DEF Skip, Untouched, TypeOK, Rows, Facts, Looks, StampInv, Stamps, Name, Absent,
     Present, RunInv, PlaceInv, CalmInv, Bad, Comparing, Deciding, Deleting
<1>4. CASE Open
  BY <1>4 DEF Open, TypeOK, Rows, Facts, Looks, StampInv, Stamps, Name, Absent, Present,
     RunInv, PlaceInv, CalmInv, Bad, Comparing, Deciding, Deleting
<1>5. CASE Vanished
  BY <1>5 DEF Vanished, Report, TypeOK, Rows, Facts, Looks, StampInv, Stamps, Name, Absent,
     Present, RunInv, PlaceInv, CalmInv, Bad, Comparing, Deciding, Deleting
<1>6. CASE Verify
  BY <1>6 DEF Verify, Verified, TypeOK, Rows, Facts, Looks, StampInv, Stamps, Name, Absent,
     Present, RunInv, PlaceInv, CalmInv, Bad, Comparing, Deciding, Deleting
<1>7. CASE Refute
  BY <1>7 DEF Refute, Report, Doubt, TypeOK, Rows, Facts, Looks, StampInv, Stamps, Name,
     Absent, Present, RunInv, PlaceInv, CalmInv, Bad, Comparing, Deciding, Deleting
<1>8. CASE Compared
  BY <1>8 DEF Compared, TypeOK, Rows, Facts, Looks, StampInv, Stamps, Name, Absent, Present,
     RunInv, PlaceInv, CalmInv, Bad, Comparing, Deciding, Deleting
<1>9. CASE RawScan
  BY <1>9 DEF RawScan, Scan, Begun, Fact, Present, TypeOK, Rows, Facts, Looks, StampInv,
     Stamps, Name, Absent, RunInv, PlaceInv, CalmInv, Bad, Comparing, Deciding, Deleting
<1>10. CASE Prove
  BY <1>10 DEF Prove, TypeOK, Rows, Facts, Looks, StampInv, Stamps, Name, Absent, Present,
     RunInv, PlaceInv, CalmInv, Bad, Comparing, Deciding, Deleting
<1>11. CASE NotDue
  BY <1>11 DEF NotDue, Begun, Fact, TypeOK, Rows, Facts, Looks, StampInv, Stamps, Name,
     Absent, Present, RunInv, PlaceInv, CalmInv, Bad, Comparing, Deciding, Deleting
<1>12. CASE Recheck
  BY <1>12 DEF Recheck, Report, Doubt, TypeOK, Rows, Facts, Looks, StampInv, Stamps, Name,
     Absent, Present, RunInv, PlaceInv, CalmInv, Bad, Comparing, Deciding, Deleting
<1>13. CASE Decide
  BY <1>13 DEF Decide, TypeOK, Rows, Facts, Looks, StampInv, Stamps, Name, Absent, Present,
     RunInv, PlaceInv, CalmInv, Bad, Comparing, Deciding, Deleting
<1>14. CASE AlreadyGone
  BY <1>14 DEF AlreadyGone, TypeOK, Rows, Facts, Looks, StampInv, Stamps, Name, Absent,
     Present, RunInv, PlaceInv, CalmInv, Bad, Comparing, Deciding, Deleting
<1>15. CASE LookAgain
  BY <1>15 DEF LookAgain, TypeOK, Rows, Facts, Looks, StampInv, Stamps, Name, Absent,
     Present, RunInv, PlaceInv, CalmInv, Bad, Comparing, Deciding, Deleting
<1>16. CASE Differs
  BY <1>16 DEF Differs, Report, Doubt, TypeOK, Rows, Facts, Looks, StampInv, Stamps, Name,
     Absent, Present, RunInv, PlaceInv, CalmInv, Bad, Comparing, Deciding, Deleting
<1>17. CASE Unlink
  BY <1>17 DEF Unlink, TypeOK, Rows, Facts, Looks, StampInv, Stamps, Name, Absent, Present,
     RunInv, PlaceInv, CalmInv, Bad, Comparing, Deciding, Deleting
<1>18. CASE DeleteFails
  BY <1>18 DEF DeleteFails, TypeOK, Rows, Facts, Looks, StampInv, Stamps, Name, Absent,
     Present, RunInv, PlaceInv, CalmInv, Bad, Comparing, Deciding, Deleting
<1>19. CASE Record
  BY <1>19 DEF Record, TypeOK, Rows, Facts, Looks, StampInv, Stamps, Name, Absent, Present,
     RunInv, PlaceInv, CalmInv, Bad, Comparing, Deciding, Deleting
<1>20. CASE ScanAgain
  BY <1>20 DEF ScanAgain, Report, Present, TypeOK, Rows, Facts, Looks, StampInv, Stamps,
     Name, Absent, RunInv, PlaceInv, CalmInv, Bad, Comparing, Deciding, Deleting
<1>21. CASE Unmark
  BY <1>21 DEF Unmark, TypeOK, Rows, Facts, Looks, StampInv, Stamps, Name, Absent, Present,
     RunInv, PlaceInv, CalmInv, Bad, Comparing, Deciding, Deleting
<1>22. CASE DayGone
  BY <1>22 DEF DayGone, TypeOK, Rows, Facts, Looks, StampInv, Stamps, Name, Absent, Present,
     RunInv, PlaceInv, CalmInv, Bad, Comparing, Deciding, Deleting
<1>23. CASE Stop
  BY <1>23 DEF Stop, TypeOK, Rows, Facts, Looks, StampInv, Stamps, Name, Absent, Present,
     RunInv, PlaceInv, CalmInv, Bad, Comparing, Deciding, Deleting
<1>24. CASE People
  BY <1>24 DEF People, Put, Take, Mark, Edited, Absent, TypeOK, Rows, Facts, Looks,
     StampInv, Stamps, Name, Present, RunInv, PlaceInv, CalmInv, Bad, Comparing, Deciding,
     Deleting
<1> QED
  BY <1>1, <1>2, <1>3, <1>4, <1>5, <1>6, <1>7, <1>8, <1>9, <1>10, <1>11, <1>12, <1>13,
     <1>14, <1>15, <1>16, <1>17, <1>18, <1>19, <1>20, <1>21, <1>22, <1>23, <1>24 DEF Next,
     Run

(* Every step of a quiet day keeps the rows true to the directory. *)
LEMMA QuietFilesStep == ASSUME TypeOK, StampInv, RunInv, QuietInv, Next PROVE QuietFiles'
<1> USE Constants, AtIsTodo DEF directory, database, process, history, bounds
<1>1. CASE Begin
  BY <1>1 DEF Begin, Scan, TypeOK, Rows, Facts, Looks, StampInv, Stamps, Name, Absent,
     Present, RunInv, PlaceInv, FactsInv, DeletionInv, QuietInv, QuietFiles, QuietCounts,
     QuietRun, Comparing, Deciding, Deleting
<1>2. CASE Compare
  <2> SUFFICES ASSUME edits = 0 PROVE QuietFiles'
    BY <1>2 DEF Compare, QuietFiles, bounds
  <2>1. /\ listing = Present /\ marker
        /\ \A n \in File : ~rows[n].cleared
    BY <1>2 DEF Compare, QuietInv, QuietCounts, QuietRun
  <2>2. \A n \in File : /\ facts'[n].removed = rows[n].removed
                         /\ facts'[n].removing = rows[n].removing
    BY <1>2, <2>1 DEF Compare, Fact, TypeOK, Rows
  <2>3. listing \cap Stray = {} /\ \A n \in File \ listing : facts'[n].removing
    BY <2>1, <2>2 DEF QuietInv, QuietFiles, Present, Name
  <2>4. ~Mismatch(facts')
    BY <2>3 DEF Mismatch
  <2> QED
    BY <1>2, <2>1, <2>2, <2>3, <2>4 DEF Compare, QuietInv, QuietFiles, QuietRun, Present,
       Name, Comparing, Deciding, Deleting
<1>3. CASE Skip
  BY <1>3 DEF Skip, Untouched, TypeOK, Rows, Facts, Looks, StampInv, Stamps, Name, Absent,
     Present, RunInv, PlaceInv, FactsInv, DeletionInv, QuietInv, QuietFiles, QuietCounts,
     QuietRun, Comparing, Deciding, Deleting
<1>4. CASE Open
  BY <1>4 DEF Open, TypeOK, Rows, Facts, Looks, StampInv, Stamps, Name, Absent, Present,
     RunInv, PlaceInv, FactsInv, DeletionInv, QuietInv, QuietFiles, QuietCounts, QuietRun,
     Comparing, Deciding, Deleting
<1>5. CASE Vanished
  BY <1>5 DEF Vanished, Report, TypeOK, Rows, Facts, Looks, StampInv, Stamps, Name, Absent,
     Present, RunInv, PlaceInv, FactsInv, DeletionInv, QuietInv, QuietFiles, QuietCounts,
     QuietRun, Comparing, Deciding, Deleting
<1>6. CASE Verify
  BY <1>6 DEF Verify, Verified, TypeOK, Rows, Facts, Looks, StampInv, Stamps, Name, Absent,
     Present, RunInv, PlaceInv, FactsInv, DeletionInv, QuietInv, QuietFiles, QuietCounts,
     QuietRun, Comparing, Deciding, Deleting
<1>7. CASE Refute
  BY <1>7 DEF Refute, Report, Doubt, TypeOK, Rows, Facts, Looks, StampInv, Stamps, Name,
     Absent, Present, RunInv, PlaceInv, FactsInv, DeletionInv, QuietInv, QuietFiles,
     QuietCounts, QuietRun, Comparing, Deciding, Deleting
<1>8. CASE Compared
  BY <1>8 DEF Compared, TypeOK, Rows, Facts, Looks, StampInv, Stamps, Name, Absent, Present,
     RunInv, PlaceInv, FactsInv, DeletionInv, QuietInv, QuietFiles, QuietCounts, QuietRun,
     Comparing, Deciding, Deleting
<1>9. CASE RawScan
  BY <1>9 DEF RawScan, Scan, Begun, Fact, Present, TypeOK, Rows, Facts, Looks, StampInv,
     Stamps, Name, Absent, RunInv, PlaceInv, FactsInv, DeletionInv, QuietInv, QuietFiles,
     QuietCounts, QuietRun, Comparing, Deciding, Deleting
<1>10. CASE Prove
  BY <1>10 DEF Prove, TypeOK, Rows, Facts, Looks, StampInv, Stamps, Name, Absent, Present,
     RunInv, PlaceInv, FactsInv, DeletionInv, QuietInv, QuietFiles, QuietCounts, QuietRun,
     Comparing, Deciding, Deleting
<1>11. CASE NotDue
  BY <1>11 DEF NotDue, Begun, Fact, TypeOK, Rows, Facts, Looks, StampInv, Stamps, Name,
     Absent, Present, RunInv, PlaceInv, FactsInv, DeletionInv, QuietInv, QuietFiles,
     QuietCounts, QuietRun, Comparing, Deciding, Deleting
<1>12. CASE Recheck
  BY <1>12 DEF Recheck, Report, Doubt, TypeOK, Rows, Facts, Looks, StampInv, Stamps, Name,
     Absent, Present, RunInv, PlaceInv, FactsInv, DeletionInv, QuietInv, QuietFiles,
     QuietCounts, QuietRun, Comparing, Deciding, Deleting
<1>13. CASE Decide
  <2>1. ASSUME NEW n \in File
        PROVE  /\ rows[n].removed \in BOOLEAN /\ rows'[n].removed = rows[n].removed
               /\ rows[n].removing = TRUE => rows'[n].removing = TRUE
               /\ rows[n].removing \in BOOLEAN
    BY <1>13 DEF Decide, TypeOK, Rows
  <2>2. /\ disk' = disk /\ marker' = marker /\ alarm' = alarm /\ edits' = edits
    BY <1>13 DEF Decide
  <2>3. ASSUME QuietFiles, edits = 0, NEW n \in File
        PROVE  /\ rows'[n].removed => disk[n] = Absent
               /\ disk[n] = Absent => rows'[n].removing
               /\ ~marker => rows'[n].removed
    <3>1. /\ rows[n].removed => disk[n] = Absent
          /\ disk[n] = Absent => rows[n].removing
          /\ ~marker => rows[n].removed
      BY <2>3 DEF QuietFiles
    <3> QED
      BY <2>1, <3>1
  <2>4. ASSUME QuietFiles PROVE QuietFiles'
    BY <2>2, <2>3, <2>4 DEF QuietFiles
  <2> QED
    BY <2>4 DEF QuietInv
<1>14. CASE AlreadyGone
  BY <1>14 DEF AlreadyGone, TypeOK, Rows, Facts, Looks, StampInv, Stamps, Name, Absent,
     Present, RunInv, PlaceInv, FactsInv, DeletionInv, QuietInv, QuietFiles, QuietCounts,
     QuietRun, Comparing, Deciding, Deleting
<1>15. CASE LookAgain
  BY <1>15 DEF LookAgain, TypeOK, Rows, Facts, Looks, StampInv, Stamps, Name, Absent,
     Present, RunInv, PlaceInv, FactsInv, DeletionInv, QuietInv, QuietFiles, QuietCounts,
     QuietRun, Comparing, Deciding, Deleting
<1>16. CASE Differs
  BY <1>16 DEF Differs, Report, Doubt, TypeOK, Rows, Facts, Looks, StampInv, Stamps, Name,
     Absent, Present, RunInv, PlaceInv, FactsInv, DeletionInv, QuietInv, QuietFiles,
     QuietCounts, QuietRun, Comparing, Deciding, Deleting
<1>17. CASE Unlink
  BY <1>17 DEF Unlink, TypeOK, Rows, Facts, Looks, StampInv, Stamps, Name, Absent, Present,
     RunInv, PlaceInv, FactsInv, DeletionInv, QuietInv, QuietFiles, QuietCounts, QuietRun,
     Comparing, Deciding, Deleting
<1>18. CASE DeleteFails
  BY <1>18 DEF DeleteFails, TypeOK, Rows, Facts, Looks, StampInv, Stamps, Name, Absent,
     Present, RunInv, PlaceInv, FactsInv, DeletionInv, QuietInv, QuietFiles, QuietCounts,
     QuietRun, Comparing, Deciding, Deleting
<1>19. CASE Record
  BY <1>19 DEF Record, TypeOK, Rows, Facts, Looks, StampInv, Stamps, Name, Absent, Present,
     RunInv, PlaceInv, FactsInv, DeletionInv, QuietInv, QuietFiles, QuietCounts, QuietRun,
     Comparing, Deciding, Deleting
<1>20. CASE ScanAgain
  BY <1>20 DEF ScanAgain, Report, Present, TypeOK, Rows, Facts, Looks, StampInv, Stamps,
     Name, Absent, RunInv, PlaceInv, FactsInv, DeletionInv, QuietInv, QuietFiles,
     QuietCounts, QuietRun, Comparing, Deciding, Deleting
<1>21. CASE Unmark
  BY <1>21 DEF Unmark, TypeOK, Rows, Facts, Looks, StampInv, Stamps, Name, Absent, Present,
     RunInv, PlaceInv, FactsInv, DeletionInv, QuietInv, QuietFiles, QuietCounts, QuietRun,
     Comparing, Deciding, Deleting
<1>22. CASE DayGone
  BY <1>22 DEF DayGone, TypeOK, Rows, Facts, Looks, StampInv, Stamps, Name, Absent, Present,
     RunInv, PlaceInv, FactsInv, DeletionInv, QuietInv, QuietFiles, QuietCounts, QuietRun,
     Comparing, Deciding, Deleting
<1>23. CASE Stop
  BY <1>23 DEF Stop, TypeOK, Rows, Facts, Looks, StampInv, Stamps, Name, Absent, Present,
     RunInv, PlaceInv, FactsInv, DeletionInv, QuietInv, QuietFiles, QuietCounts, QuietRun,
     Comparing, Deciding, Deleting
<1>24. CASE People
  BY <1>24, PeopleEdit DEF QuietFiles, QuietRun
<1> QED
  BY <1>1, <1>2, <1>3, <1>4, <1>5, <1>6, <1>7, <1>8, <1>9, <1>10, <1>11, <1>12, <1>13,
     <1>14, <1>15, <1>16, <1>17, <1>18, <1>19, <1>20, <1>21, <1>22, <1>23, <1>24 DEF Next,
     Run

(* Every step of a quiet day keeps what the run has seen true. *)
LEMMA QuietRunStep == ASSUME TypeOK, StampInv, RunInv, QuietInv, Next PROVE QuietRun'
<1> USE Constants, AtIsTodo, AtStays DEF directory, database, process, history, bounds
<1>1. CASE Begin
  BY <1>1 DEF Begin, Scan, TypeOK, Rows, Facts, Looks, StampInv, Stamps, Name, Absent,
     Present, RunInv, PlaceInv, FactsInv, DeletionInv, QuietInv, QuietFiles, QuietCounts,
     QuietRun, Comparing, Deciding, Deleting
<1>2. CASE Compare
  <2> SUFFICES ASSUME edits = 0 PROVE QuietRun'
    BY <1>2 DEF Compare, QuietRun, bounds
  <2>1. /\ listing = Present /\ marker
        /\ \A n \in File : ~rows[n].cleared
    BY <1>2 DEF Compare, QuietInv, QuietCounts, QuietRun
  <2>2. \A n \in File : /\ facts'[n].removed = rows[n].removed
                         /\ facts'[n].removing = rows[n].removing
    BY <1>2, <2>1 DEF Compare, Fact, TypeOK, Rows
  <2>3. listing \cap Stray = {} /\ \A n \in File \ listing : facts'[n].removing
    BY <2>1, <2>2 DEF QuietInv, QuietFiles, Present, Name
  <2>4. ~Mismatch(facts')
    BY <2>3 DEF Mismatch
  <2> QED
    BY <1>2, <2>1, <2>2, <2>3, <2>4 DEF Compare, QuietInv, QuietFiles, QuietRun, Present,
       Name, Comparing, Deciding, Deleting
<1>3. CASE Skip
  BY <1>3 DEF Skip, Untouched, TypeOK, Rows, Facts, Looks, StampInv, Stamps, Name, Absent,
     Present, RunInv, PlaceInv, FactsInv, DeletionInv, QuietInv, QuietFiles, QuietCounts,
     QuietRun, Comparing, Deciding, Deleting
<1>4. CASE Open
  BY <1>4 DEF Open, TypeOK, Rows, Facts, Looks, StampInv, Stamps, Name, Absent, Present,
     RunInv, PlaceInv, FactsInv, DeletionInv, QuietInv, QuietFiles, QuietCounts, QuietRun,
     Comparing, Deciding, Deleting
<1>5. CASE Vanished
  BY <1>5 DEF Vanished, Report, TypeOK, Rows, Facts, Looks, StampInv, Stamps, Name, Absent,
     Present, RunInv, PlaceInv, FactsInv, DeletionInv, QuietInv, QuietFiles, QuietCounts,
     QuietRun, Comparing, Deciding, Deleting
<1>6. CASE Verify
  BY <1>6 DEF Verify, Verified, TypeOK, Rows, Facts, Looks, StampInv, Stamps, Name, Absent,
     Present, RunInv, PlaceInv, FactsInv, DeletionInv, QuietInv, QuietFiles, QuietCounts,
     QuietRun, Comparing, Deciding, Deleting
<1>7. CASE Refute
  BY <1>7 DEF Refute, Report, Doubt, TypeOK, Rows, Facts, Looks, StampInv, Stamps, Name,
     Absent, Present, RunInv, PlaceInv, FactsInv, DeletionInv, QuietInv, QuietFiles,
     QuietCounts, QuietRun, Comparing, Deciding, Deleting
<1>8. CASE Compared
  BY <1>8 DEF Compared, TypeOK, Rows, Facts, Looks, StampInv, Stamps, Name, Absent, Present,
     RunInv, PlaceInv, FactsInv, DeletionInv, QuietInv, QuietFiles, QuietCounts, QuietRun,
     Comparing, Deciding, Deleting
<1>9. CASE RawScan
  BY <1>9 DEF RawScan, Scan, Begun, Fact, Present, TypeOK, Rows, Facts, Looks, StampInv,
     Stamps, Name, Absent, RunInv, PlaceInv, FactsInv, DeletionInv, QuietInv, QuietFiles,
     QuietCounts, QuietRun, Comparing, Deciding, Deleting
<1>10. CASE Prove
  BY <1>10 DEF Prove, TypeOK, Rows, Facts, Looks, StampInv, Stamps, Name, Absent, Present,
     RunInv, PlaceInv, FactsInv, DeletionInv, QuietInv, QuietFiles, QuietCounts, QuietRun,
     Comparing, Deciding, Deleting
<1>11. CASE NotDue
  BY <1>11 DEF NotDue, Begun, Fact, TypeOK, Rows, Facts, Looks, StampInv, Stamps, Name,
     Absent, Present, RunInv, PlaceInv, FactsInv, DeletionInv, QuietInv, QuietFiles,
     QuietCounts, QuietRun, Comparing, Deciding, Deleting
<1>12. CASE Recheck
  BY <1>12 DEF Recheck, Report, Doubt, TypeOK, Rows, Facts, Looks, StampInv, Stamps, Name,
     Absent, Present, RunInv, PlaceInv, FactsInv, DeletionInv, QuietInv, QuietFiles,
     QuietCounts, QuietRun, Comparing, Deciding, Deleting
<1>13. CASE Decide
  BY <1>13 DEF Decide, TypeOK, Rows, Facts, Looks, StampInv, Stamps, Name, Absent, Present,
     RunInv, PlaceInv, FactsInv, DeletionInv, QuietInv, QuietFiles, QuietCounts, QuietRun,
     Comparing, Deciding, Deleting
<1>14. CASE AlreadyGone
  BY <1>14 DEF AlreadyGone, TypeOK, Rows, Facts, Looks, StampInv, Stamps, Name, Absent,
     Present, RunInv, PlaceInv, FactsInv, DeletionInv, QuietInv, QuietFiles, QuietCounts,
     QuietRun, Comparing, Deciding, Deleting
<1>15. CASE LookAgain
  BY <1>15 DEF LookAgain, TypeOK, Rows, Facts, Looks, StampInv, Stamps, Name, Absent,
     Present, RunInv, PlaceInv, FactsInv, DeletionInv, QuietInv, QuietFiles, QuietCounts,
     QuietRun, Comparing, Deciding, Deleting
<1>16. CASE Differs
  BY <1>16 DEF Differs, Report, Doubt, TypeOK, Rows, Facts, Looks, StampInv, Stamps, Name,
     Absent, Present, RunInv, PlaceInv, FactsInv, DeletionInv, QuietInv, QuietFiles,
     QuietCounts, QuietRun, Comparing, Deciding, Deleting
<1>17. CASE Unlink
  BY <1>17 DEF Unlink, TypeOK, Rows, Facts, Looks, StampInv, Stamps, Name, Absent, Present,
     RunInv, PlaceInv, FactsInv, DeletionInv, QuietInv, QuietFiles, QuietCounts, QuietRun,
     Comparing, Deciding, Deleting
<1>18. CASE DeleteFails
  BY <1>18 DEF DeleteFails, TypeOK, Rows, Facts, Looks, StampInv, Stamps, Name, Absent,
     Present, RunInv, PlaceInv, FactsInv, DeletionInv, QuietInv, QuietFiles, QuietCounts,
     QuietRun, Comparing, Deciding, Deleting
<1>19. CASE Record
  BY <1>19 DEF Record, TypeOK, Rows, Facts, Looks, StampInv, Stamps, Name, Absent, Present,
     RunInv, PlaceInv, FactsInv, DeletionInv, QuietInv, QuietFiles, QuietCounts, QuietRun,
     Comparing, Deciding, Deleting
<1>20. CASE ScanAgain
  BY <1>20 DEF ScanAgain, Report, Present, TypeOK, Rows, Facts, Looks, StampInv, Stamps,
     Name, Absent, RunInv, PlaceInv, FactsInv, DeletionInv, QuietInv, QuietFiles,
     QuietCounts, QuietRun, Comparing, Deciding, Deleting
<1>21. CASE Unmark
  BY <1>21 DEF Unmark, TypeOK, Rows, Facts, Looks, StampInv, Stamps, Name, Absent, Present,
     RunInv, PlaceInv, FactsInv, DeletionInv, QuietInv, QuietFiles, QuietCounts, QuietRun,
     Comparing, Deciding, Deleting
<1>22. CASE DayGone
  BY <1>22 DEF DayGone, TypeOK, Rows, Facts, Looks, StampInv, Stamps, Name, Absent, Present,
     RunInv, PlaceInv, FactsInv, DeletionInv, QuietInv, QuietFiles, QuietCounts, QuietRun,
     Comparing, Deciding, Deleting
<1>23. CASE Stop
  BY <1>23 DEF Stop, TypeOK, Rows, Facts, Looks, StampInv, Stamps, Name, Absent, Present,
     RunInv, PlaceInv, FactsInv, DeletionInv, QuietInv, QuietFiles, QuietCounts, QuietRun,
     Comparing, Deciding, Deleting
<1>24. CASE People
  BY <1>24, PeopleEdit DEF QuietFiles, QuietRun
<1> QED
  BY <1>1, <1>2, <1>3, <1>4, <1>5, <1>6, <1>7, <1>8, <1>9, <1>10, <1>11, <1>12, <1>13,
     <1>14, <1>15, <1>16, <1>17, <1>18, <1>19, <1>20, <1>21, <1>22, <1>23, <1>24 DEF Next,
     Run

(* Every step of a quiet day keeps the counts.  Only four actions change   *)
(* what is counted: the others keep the same files gone, removed, cleared. *)
LEMMA CountsStay ==
    ASSUME QuietCounts, edits' = edits, disk' = disk, marker' = marker,
           UNCHANGED <<unlinked, files, days>>,
           \A n \in File : /\ rows'[n].removed = rows[n].removed
                           /\ rows'[n].cleared = rows[n].cleared
    PROVE  QuietCounts'
<1>1. Gone' = Gone /\ Removed' = Removed
  BY DEF Gone, Removed
<1> QED
  BY <1>1 DEF QuietCounts

(* Every step of a quiet day keeps its counts. *)
LEMMA QuietCountsStep == ASSUME TypeOK, RunInv, QuietInv, Next PROVE QuietCounts'
<1> USE Constants, AtIsTodo DEF directory, database, process, history, bounds
<1>1. CASE Begin \/ Compare \/ Skip \/ Open \/ Vanished \/ Compared \/ RawScan \/ Prove
           \/ NotDue \/ AlreadyGone \/ LookAgain \/ DeleteFails \/ ScanAgain \/ Stop
  BY <1>1, CountsStay DEF QuietInv, Begin, Compare, Skip, Open, Vanished, Compared, RawScan,
     Prove, NotDue, AlreadyGone, LookAgain, DeleteFails, ScanAgain, Stop
<1>2. CASE Refute \/ Recheck \/ Differs \/ Decide
  <2>1. \A n \in File : /\ rows'[n].removed = rows[n].removed
                        /\ rows'[n].cleared = rows[n].cleared
    BY <1>2 DEF Refute, Recheck, Differs, Decide, Doubt, TypeOK, Rows
  <2> QED
    BY <1>2, <2>1, CountsStay DEF QuietInv, Refute, Recheck, Differs, Decide, Doubt
<1>3. CASE Verify
  <2> SUFFICES ASSUME edits = 0 PROVE QuietCounts'
    BY <1>3 DEF Verify, QuietCounts, bounds
  <2>1. At \in File /\ disk[At] # Absent /\ marker
    BY <1>3 DEF Verify, TypeOK, RunInv, PlaceInv, Comparing, QuietInv, QuietRun, Present
  <2>2. rows[At].removed = FALSE /\ rows[At].cleared = FALSE
    BY <2>1 DEF QuietInv, QuietFiles, QuietCounts, TypeOK, Rows
  <2>3. /\ rows'[At].removed = FALSE /\ rows'[At].cleared = FALSE
        /\ \A n \in File \ {At} : rows'[n] = rows[n]
    BY <1>3, <2>1 DEF Verify, Verified, TypeOK
  <2>4. \A n \in File : /\ rows'[n].removed = rows[n].removed
                        /\ rows'[n].cleared = rows[n].cleared
    BY <2>2, <2>3
  <2> QED
    BY <1>3, <2>4, CountsStay DEF QuietInv, Verify
<1>4. CASE Unlink
  <2> SUFFICES ASSUME edits = 0 PROVE QuietCounts'
    BY <1>4 DEF Unlink, QuietCounts, bounds
  <2>1. At \in File /\ At \notin Gone
    BY <1>4 DEF Unlink, TypeOK, RunInv, PlaceInv, Gone
  <2>2. Gone' = Gone \cup {At} /\ Removed' = Removed
    BY <1>4, <2>1 DEF Unlink, Gone, Removed, TypeOK, Name, database
  <2>3. Cardinality(Gone') = Cardinality(Gone) + 1
    BY <2>1, <2>2, FS_Subset, FS_AddElement DEF Gone
  <2> QED
    BY <1>4, <2>2, <2>3 DEF Unlink, QuietInv, QuietCounts, database
<1>5. CASE Record
  <2> SUFFICES ASSUME edits = 0 PROVE QuietCounts'
    BY <1>5 DEF Record, QuietCounts, bounds
  <2>1. At \in File
    BY <1>5 DEF Record, TypeOK, RunInv, PlaceInv
  <2>2. /\ rows'[At].removed
        /\ \A n \in File \ {At} : rows'[n] = rows[n]
        /\ \A n \in File : rows'[n].cleared = rows[n].cleared
    BY <1>5, <2>1 DEF Record, TypeOK, Rows
  <2>3. Gone' = Gone /\ Removed' = Removed \cup {At}
    BY <1>5, <2>1, <2>2 DEF Record, Gone, Removed, directory
  <2>4. Cardinality(Removed') = IF At \in Removed THEN Cardinality(Removed)
                                ELSE Cardinality(Removed) + 1
    BY <2>3, FS_Subset, FS_AddElement DEF Removed
  <2>5. files' = Cardinality(Removed')
    BY <1>5, <2>1, <2>4 DEF Record, QuietInv, QuietCounts, Removed
  <2> QED
    BY <1>5, <2>2, <2>3, <2>5 DEF Record, QuietInv, QuietCounts, directory, history
<1>6. CASE Unmark
  <2>1. Gone' = Gone /\ Removed' = Removed
    BY <1>6 DEF Unmark, Gone, Removed, database
  <2> QED
    BY <1>6, <2>1 DEF Unmark, QuietInv, QuietCounts, database, history, bounds
<1>7. CASE DayGone
  <2> SUFFICES ASSUME edits = 0 PROVE QuietCounts'
    BY <1>7 DEF DayGone, QuietCounts, bounds
  <2> DEFINE done == {n \in File : rows[n].removing /\ ~rows[n].cleared}
  <2>1. ~marker /\ ~marker' /\ \A n \in File : rows[n].removed /\ rows[n].removing
    BY <1>7 DEF DayGone, QuietInv, QuietRun, QuietFiles, TypeOK, RowsAreLegal, directory
  <2>2. \A n \in File : /\ rows'[n].removed = rows[n].removed
                        /\ rows'[n].cleared = (rows[n].cleared \/ n \in done)
    BY <1>7 DEF DayGone, TypeOK, Rows
  <2>3. \A n \in File : rows'[n].cleared
    BY <2>1, <2>2 DEF TypeOK, Rows
  <2>4. days' = 1
    BY <1>7, <2>1 DEF DayGone, QuietInv, QuietCounts
  <2>5. Gone' = Gone /\ Removed' = Removed
    BY <1>7, <2>2 DEF DayGone, Gone, Removed, directory
  <2> QED
    BY <1>7, <2>1, <2>3, <2>4, <2>5 DEF DayGone, QuietInv, QuietCounts, history
<1>8. CASE People
  BY <1>8, PeopleEdit DEF QuietCounts
<1> QED
  BY <1>1, <1>2, <1>3, <1>4, <1>5, <1>6, <1>7, <1>8 DEF Next, Run

-----------------------------------------------------------------------------
(* The invariant.                                                          *)

(* The invariant holds before the first run. *)
LEMMA InvInit == Init => IInv
<1> SUFFICES ASSUME Init PROVE IInv
  OBVIOUS
<1> USE Constants DEF Init, Absent, NoRow, Fact
<1>0. 0 \in Stamps /\ 1 \in Stamps
  BY DEF Stamps
<1>1. TypeOK
  <2>1. disk \in [Name -> Looks] /\ seen \in Looks
    BY <1>0 DEF Looks
  <2>2. rows \in [File -> Rows] /\ RowsAreLegal
    BY <1>0 DEF Rows, RowsAreLegal
  <2>3. facts \in [File -> Facts]
    BY <1>0 DEF Facts
  <2>4. edits \in 0 .. MaxEdits /\ stops \in 0 .. MaxStops
    OBVIOUS
  <2>5. files \in Nat /\ days \in Nat /\ unlinked \in Nat
    OBVIOUS
  <2>6. pc \in Places /\ marker \in BOOLEAN /\ listing \subseteq Name /\ todo \subseteq File
    BY DEF Places
  <2>7. prove \in BOOLEAN /\ alarm \in BOOLEAN /\ raced \in BOOLEAN /\ calm \in BOOLEAN
    OBVIOUS
  <2> HIDE DEF Init
  <2> QED
    BY <2>1, <2>2, <2>3, <2>4, <2>5, <2>6, <2>7 DEF TypeOK
<1>2. StampInv
  BY DEF StampInv, Name
<1>3. RunInv
  BY DEF RunInv, PlaceInv, FactsInv, DeletionInv, Comparing, Deciding, Deleting
<1>4. CalmInv
  BY DEF CalmInv, Comparing, Deciding, Deleting
<1>5. Gone = {} /\ Removed = {}
  BY DEF Gone, Removed, Name
<1>6. QuietInv
  BY <1>5, FS_EmptySet DEF QuietInv, QuietFiles, QuietCounts, QuietRun, Name,
     Comparing, Deciding, Deleting
<1> QED
  BY <1>1, <1>2, <1>3, <1>4, <1>6 DEF IInv

(* A step that changes nothing changes no part of the invariant. *)
LEMMA Stutter == IInv /\ UNCHANGED vars => IInv'
<1> SUFFICES ASSUME IInv, UNCHANGED vars PROVE IInv'
  OBVIOUS
<1> USE DEF IInv, vars
<1>1. At' = At
  BY AtStays
<1>2. TypeOK' /\ StampInv'
  BY DEF TypeOK, RowsAreLegal, StampInv
<1>3. RunInv'
  BY <1>1 DEF RunInv, PlaceInv, FactsInv, DeletionInv, Present
<1>4. CalmInv'
  BY DEF CalmInv, Present, Bad
<1>5. QuietInv'
  BY <1>1 DEF QuietInv, QuietFiles, QuietCounts, QuietRun, Gone, Removed, Present
<1> QED
  BY <1>2, <1>3, <1>4, <1>5

(* IInv holds in every state, whatever people do and wherever runs end. *)
THEOREM Invariance == Spec => []IInv
<1>1. ASSUME IInv, Next PROVE IInv'
  <2>1. TypeOK' /\ StampInv' /\ PlaceInv' /\ FactsInv' /\ DeletionInv'
    BY <1>1, TypeStep, StampStep, PlaceStep, FactsStep, DeletionStep DEF IInv, RunInv
  <2>2. CalmInv'
    BY <1>1, CalmStep DEF IInv
  <2>3. QuietFiles' /\ QuietCounts' /\ QuietRun'
    BY <1>1, QuietFilesStep, QuietCountsStep, QuietRunStep DEF IInv
  <2> QED
    BY <2>1, <2>2, <2>3 DEF IInv, RunInv, QuietInv
<1>2. IInv /\ [Next]_vars => IInv'
  BY <1>1, Stutter
<1> QED
  BY InvInit, <1>2, PTL DEF Spec

-----------------------------------------------------------------------------
(* What it says.                                                           *)

(* The rows keep the CHECKs of mpp_daily_file, and while nobody edits the  *)
(* day they add up to what was deleted, however often runs are cut short.  *)
THEOREM RowsExact == Spec => []RowsAreExact
<1>1. ASSUME IInv PROVE RowsAreExact
  <2>1. RowsAreLegal
    BY <1>1 DEF IInv, TypeOK
  <2>2. ASSUME edits = 0, NEW n \in File, rows[n].cleared
        PROVE  /\ days = 1 /\ ~marker /\ Present = {}
               /\ files = unlinked /\ files = Cardinality(File)
    <3>1. days = 1 /\ ~marker /\ \A m \in File : rows[m].removed /\ disk[m] = Absent
      BY <1>1, <2>2 DEF IInv, QuietInv, QuietCounts, QuietFiles
    <3>2. Gone = File /\ Removed = File /\ Present = {}
      BY <1>1, <2>2, <3>1 DEF IInv, QuietInv, QuietFiles, Gone, Removed, Present, Name
    <3> QED
      BY <1>1, <2>2, <3>1, <3>2 DEF IInv, QuietInv, QuietCounts
  <2>3. PICK n \in File : TRUE
    BY Constants
  <2>4. QuietDayIsExact
    BY <1>1, <2>2, <2>3, Constants DEF QuietDayIsExact, IInv, QuietInv, QuietCounts,
       QuietFiles
  <2> QED
    BY <2>1, <2>4 DEF RowsAreExact
<1> QED
  BY <1>1, Invariance, PTL

(* A file is unlinked only with the imported content in it, but for an     *)
(* edit between the last look and the unlink.                              *)
THEOREM OnlyImported == Spec => OnlyImportedGoes
<1>1. ASSUME IInv, NEW n \in File, Unlink, n = At PROVE disk[n].good \/ raced
  BY <1>1 DEF IInv, RunInv, DeletionInv, Unlink
<1>2. IInv => [\A n \in File : Unlink /\ n = At => disk[n].good \/ raced]_vars
  BY <1>1
<1> QED
  BY <1>2, Invariance, PTL DEF OnlyImportedGoes

(* The marker goes when the day's names are gone and recorded. *)
THEOREM MarkerLast == Spec => MarkerGoesLast
<1>1. ASSUME IInv, Unmark
      PROVE  /\ Present = {} \/ raced
             /\ \A n \in File : n \in listing \/ facts[n].removing => rows[n].removed
  BY <1>1 DEF IInv, RunInv, DeletionInv, PlaceInv, Unmark, Deleting
<1>2. IInv =>
        [Unmark => /\ Present = {} \/ raced
                   /\ \A n \in File : n \in listing \/ facts[n].removing => rows[n].removed]_vars
  BY <1>1
<1> QED
  BY <1>2, Invariance, PTL DEF MarkerGoesLast

(* A run that nobody disturbs or stops does not end without a report on a  *)
(* marked day that holds something else than what was imported.            *)
THEOREM ChangesReported == Spec => ChangesAreReported
<1> DEFINE Ending == /\ pc # "idle" /\ pc' = "idle" /\ stops' = stops /\ calm /\ marker
                     /\ \E n \in Present : n \in Stray \/ ~disk[n].good
<1>1. ASSUME IInv, Next, Ending PROVE alarm'
  <2>1. stops \in Nat /\ Bad
    BY <1>1 DEF IInv, TypeOK, Bad
  <2>2. pc \in {"looked", "scanned"} => alarm
    BY <1>1, <2>1 DEF IInv, CalmInv
  <2>3. pc \notin Deciding \cup Deleting \cup {"gone"}
    BY <1>1, <2>1 DEF IInv, CalmInv
  <2>4. ~Stop
    BY <2>1, <1>1 DEF Stop
  <2>5. ~People
    BY <1>1 DEF People, Put, Take, Mark, Edited, process
  <2>6. Begin \/ Run
    BY <1>1, <2>4, <2>5 DEF Next
  <2> QED
    BY <1>1, <2>2, <2>3, <2>6 DEF Begin, Run, Compare, Skip, Open, Vanished, Verify, Refute,
       Compared, RawScan, Prove, NotDue, Recheck, Decide, AlreadyGone, LookAgain, Differs,
       Unlink, DeleteFails, Record, ScanAgain, Unmark, DayGone, Report, Deciding, Deleting
<1>2. IInv /\ [Next]_vars => [Ending => alarm']_vars
  BY <1>1
<1> QED
  BY <1>2, Invariance, PTL DEF Spec, ChangesAreReported
=============================================================================
