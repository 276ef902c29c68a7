---------------------------- MODULE RawRemoval ----------------------------
(***************************************************************************)
(* The raw files of one imported day, from the look of the import step to  *)
(* their deletion (sql_apm/daily/run.py: _unchanged, _import, _raw_files,  *)
(* _remove_day, _unlink; sql_apm/storage/daily.py: the rows of             *)
(* mpp_daily_file and the counts of mpp_daily_cluster).                    *)
(*                                                                         *)
(* One source and one day whose batch is complete.  Runs follow each other *)
(* (the daily session lock) and hold the cluster while they delete, so     *)
(* only one process writes these rows; what interferes is the file system, *)
(* which people edit at any moment, and the end of a run between any two   *)
(* steps: killed, interrupted, or stopped by an error.                     *)
(*                                                                         *)
(* A stamp stands for _stamp(): every edit of a name gives it a new one.   *)
(* Stamp 0 is no file, or NULL in a row.                                   *)
(***************************************************************************)
EXTENDS Naturals, FiniteSets

CONSTANTS
    File,      \* the names of the day's batch, frozen by the import
    Stray,     \* other log file names of the same day
    MaxEdits,  \* how often people touch the directory
    MaxStops   \* how often a run ends early

ASSUME NameAssumption == IsFiniteSet(File) /\ File # {} /\ File \cap Stray = {}

ASSUME BoundAssumption == MaxEdits \in Nat /\ MaxStops \in Nat

VARIABLES
    disk,      \* the receiving directory: stamp and content of every name
    marker,    \* whether the day's marker is there
    rows,      \* mpp_daily_file
    files,     \* sum of raw_files over all runs
    days,      \* sum of raw_days over all runs
    pc,        \* where the run is
    listing,   \* the day's names in the run's last scan of the directory
    facts,     \* the run's `known`: day_files, and what it has proven since
    prove,     \* the argument of _unchanged
    todo,      \* the names the current loop has not done yet
    seen,      \* the file being read, as it was opened
    alarm,     \* the run has reported the day as changed after its import
    unlinked,  \* how many files of the batch the runs have unlinked
    raced,     \* an edit came between the last look and the system call it guards
    calm,      \* nobody has edited the directory since the run began
    edits, stops

directory == <<disk, marker>>
database  == <<rows, files, days>>
process   == <<pc, listing, facts, prove, todo, seen, alarm>>
history   == <<unlinked, raced, calm>>
bounds    == <<edits, stops>>
vars == <<disk, marker, rows, files, days, pc, listing, facts, prove, todo, seen,
          alarm, unlinked, raced, calm, edits, stops>>

Name   == File \cup Stray
Stamps == 0 .. MaxEdits + 1
Absent == [stamp |-> 0, good |-> FALSE]
NoRow  == [stamp |-> 0, removing |-> FALSE, removed |-> FALSE, cleared |-> FALSE,
           exists |-> FALSE]

Looks == [stamp : Stamps, good : BOOLEAN]
Rows  == [stamp : Stamps, removing : BOOLEAN, removed : BOOLEAN, cleared : BOOLEAN,
          exists : BOOLEAN]
Facts == [stamp : Stamps, removing : BOOLEAN, removed : BOOLEAN]

Places == {"idle", "listed", "comparing", "reading", "looked", "scanned", "proven",
           "deciding", "deleting", "unlinking", "recording", "unmarking", "gone"}

\* The CHECKs of mpp_daily_file, which no order of decisions, deletions, restored
\* files and ends of runs may break: nothing is removed or closed undecided.
RowsAreLegal ==
    \A n \in File : rows[n].removed \/ rows[n].cleared => rows[n].removing

\* Every variable keeps its type, and the rows their CHECKs.
TypeOK ==
    /\ disk \in [Name -> Looks]
    /\ marker \in BOOLEAN
    /\ rows \in [File -> Rows] /\ RowsAreLegal
    /\ files \in Nat /\ days \in Nat /\ unlinked \in Nat
    /\ pc \in Places
    /\ listing \subseteq Name
    /\ facts \in [File -> Facts]
    /\ prove \in BOOLEAN
    /\ todo \subseteq File
    /\ seen \in Looks
    /\ alarm \in BOOLEAN /\ raced \in BOOLEAN /\ calm \in BOOLEAN
    /\ edits \in 0 .. MaxEdits /\ stops \in 0 .. MaxStops

Fact(row) == [stamp |-> row.stamp, removing |-> row.removing /\ ~row.cleared,
              removed |-> row.removed]

\* The batch has just been committed; the run that imported it was killed
\* before it could prove a file, or will do it in its next step.
Init ==
    /\ disk = [n \in Name |-> IF n \in File THEN [stamp |-> 1, good |-> TRUE] ELSE Absent]
    /\ marker = TRUE
    /\ rows = [n \in File |-> NoRow]
    /\ files = 0 /\ days = 0 /\ unlinked = 0
    /\ pc = "idle"
    /\ listing = {} /\ todo = {}
    /\ facts = [n \in File |-> Fact(NoRow)]
    /\ prove = FALSE
    /\ seen = Absent
    /\ alarm = FALSE /\ raced = FALSE /\ calm = TRUE
    /\ edits = 0 /\ stops = 0

Present == {n \in Name : disk[n] # Absent}

-----------------------------------------------------------------------------
(* Helpers.                                                                *)

\* inbox.scan, for this day.
Scan == listing' = Present

\* DailyStore.file_doubted: no proof stands.  A name without a row has none.
Doubt(names) ==
    rows' = [n \in File |-> IF n \in names THEN [rows[n] EXCEPT !.stamp = 0] ELSE rows[n]]

\* DailyStore.file_verified: a file put back after its deletion lives again; a
\* deletion that had only been decided goes on.
Verified(row, stamp) ==
    [stamp |-> stamp, removing |-> row.removing /\ ~row.removed /\ ~row.cleared,
     removed |-> FALSE, cleared |-> FALSE, exists |-> TRUE]

\* The day is reported as changed; the run has nothing more to do with it, or
\* goes on from the import step to the next one.
Report ==
    /\ alarm' = TRUE
    /\ pc' = IF prove THEN "idle" ELSE "looked"

Begun == \E n \in File : Fact(rows[n]).removing

-----------------------------------------------------------------------------
(* The import step: is the day still what was imported?                    *)

\* An unmarked day is not looked at.
Begin ==
    /\ pc = "idle"
    /\ pc' = IF marker THEN "listed" ELSE "looked"
    /\ Scan
    /\ prove' = FALSE
    /\ alarm' = FALSE
    /\ calm' = TRUE
    /\ UNCHANGED <<directory, database, facts, todo, seen, unlinked, raced, bounds>>

\* Mutant of Mismatch: a deletion of ours that was cut short is not considered.
MismatchAnyMissing(known) ==
    \/ listing \cap Stray # {}
    \/ listing # {} /\ \E n \in File \ listing : ~known[n].removed

\* The batch's rows against the listing: a name it never had, or files missing
\* from among others without any deletion of ours.
Mismatch(known) ==
    \/ listing \cap Stray # {}
    \/ /\ listing # {}
       /\ \E n \in File \ listing : ~known[n].removed
       /\ \A n \in File : ~known[n].removing

Compare ==
    /\ pc = "listed"
    /\ facts' = [n \in File |-> Fact(rows[n])]
    /\ IF Mismatch(facts')
       THEN Report /\ UNCHANGED todo
       ELSE pc' = "comparing" /\ todo' = listing \cap File /\ UNCHANGED alarm
    /\ UNCHANGED <<directory, database, listing, prove, seen, history, bounds>>

\* Mutant of Untouched: a row is enough.
UntouchedByRow(n) == ~prove /\ rows[n].exists

\* A file that still has the stamp of its proof is taken as untouched.
Untouched(n) == ~prove /\ ~facts[n].removed /\ facts[n].stamp = disk[n].stamp

\* The loops take the names in their order; which comes first is not told apart.
At == CHOOSE n \in todo : TRUE

Skip ==
    /\ pc = "comparing" /\ todo # {}
    /\ disk[At] # Absent /\ Untouched(At)
    /\ todo' = todo \ {At}
    /\ UNCHANGED <<directory, database, pc, listing, facts, prove, seen, alarm, history, bounds>>

Open ==
    /\ pc = "comparing" /\ todo # {}
    /\ disk[At] # Absent /\ ~Untouched(At)
    /\ pc' = "reading"
    /\ seen' = disk[At]
    /\ UNCHANGED <<directory, database, listing, facts, prove, todo, alarm, history, bounds>>

\* The file is gone before it can be opened.
Vanished ==
    /\ pc = "comparing" /\ todo # {}
    /\ disk[At] = Absent
    /\ Report
    /\ UNCHANGED <<directory, database, listing, facts, prove, todo, seen, history, bounds>>

\* What was read is the imported content, and the name still leads to it.
Verify ==
    /\ pc = "reading"
    /\ seen.good /\ disk[At] = seen
    /\ rows' = [rows EXCEPT ![At] = Verified(@, seen.stamp)]
    /\ facts' = [facts EXCEPT ![At].stamp = seen.stamp, ![At].removed = FALSE]
    /\ todo' = todo \ {At}
    /\ pc' = "comparing"
    /\ UNCHANGED <<directory, files, days, listing, prove, seen, alarm, history, bounds>>

\* Another content, or written to or replaced meanwhile.  A file that goes away
\* after its last fstat is an error of lstat, and leaves its proof alone.
Refute ==
    /\ pc = "reading"
    /\ ~seen.good \/ disk[At] # seen
    /\ \/ Doubt({At})
       \/ seen.good /\ disk[At] = Absent /\ UNCHANGED rows
    /\ Report
    /\ UNCHANGED <<directory, files, days, listing, facts, prove, todo, seen, history, bounds>>

Compared ==
    /\ pc = "comparing" /\ todo = {}
    /\ pc' = IF prove THEN "proven" ELSE "looked"
    /\ UNCHANGED <<directory, database, listing, facts, prove, todo, seen, alarm, history, bounds>>

-----------------------------------------------------------------------------
(* The deletion step.                                                      *)

\* Mutant of RawScan: only marked days are looked at.
RawScanMarked ==
    /\ pc = "looked"
    /\ pc' = IF marker THEN "scanned" ELSE "idle"
    /\ Scan
    /\ UNCHANGED <<directory, database, facts, prove, todo, seen, alarm, history, bounds>>

\* The cluster is held again, the directory scanned again.  Where the marker and
\* the files of a begun deletion are gone, only its last step was lost.
RawScan ==
    /\ pc = "looked"
    /\ pc' = IF marker THEN "scanned" ELSE IF Present = {} /\ Begun THEN "gone" ELSE "idle"
    /\ Scan
    /\ UNCHANGED <<directory, database, facts, prove, todo, seen, alarm, history, bounds>>

\* The day is old enough, or its deletion has begun: every file is read again.
Prove ==
    /\ pc = "scanned"
    /\ pc' = "listed"
    /\ prove' = TRUE
    /\ UNCHANGED <<directory, database, listing, facts, todo, seen, alarm, history, bounds>>

NotDue ==
    /\ pc = "scanned" /\ ~Begun
    /\ pc' = "idle"
    /\ UNCHANGED <<directory, database, listing, facts, prove, todo, seen, alarm, history, bounds>>

\* Before the decision every file must still be the one that was read.  The looks
\* are one step here: an edit between two of them is one before or after them all.
Recheck ==
    /\ pc = "proven"
    /\ LET moved == {n \in listing \cap File : disk[n].stamp # facts[n].stamp} IN
        /\ Doubt(moved)
        /\ IF moved # {} THEN Report ELSE pc' = "deciding" /\ UNCHANGED alarm
    /\ UNCHANGED <<directory, files, days, listing, facts, prove, todo, seen, history, bounds>>

\* DailyStore.removal_decided, and what the loop will have to do.
Decide ==
    /\ pc = "deciding"
    /\ rows' = [n \in File |->
          [rows[n] EXCEPT !.removing = @ \/ (rows[n].exists /\ ~rows[n].removed)]]
    /\ todo' = {n \in File : ~facts[n].removed /\ (n \in listing \/ facts[n].removing)}
    /\ pc' = "deleting"
    /\ UNCHANGED <<directory, files, days, listing, facts, prove, seen, alarm, history, bounds>>

\* Gone already, after a decision: by a run that was cut short.
AlreadyGone ==
    /\ pc = "deleting" /\ todo # {} /\ At \notin listing
    /\ pc' = "recording"
    /\ UNCHANGED <<directory, database, listing, facts, prove, todo, seen, alarm, history, bounds>>

\* Mutant of LookAgain: the deletion trusts the recheck.
LookAgainTrusting ==
    /\ pc = "deleting" /\ todo # {} /\ At \in listing
    /\ pc' = "unlinking"
    /\ raced' = FALSE
    /\ UNCHANGED <<directory, database, listing, facts, prove, todo, seen, alarm,
                   unlinked, calm, bounds>>

\* The look immediately before the deletion.
LookAgain ==
    /\ pc = "deleting" /\ todo # {} /\ At \in listing
    /\ disk[At].stamp = facts[At].stamp
    /\ pc' = "unlinking"
    /\ raced' = FALSE
    /\ UNCHANGED <<directory, database, listing, facts, prove, todo, seen, alarm,
                   unlinked, calm, bounds>>

Differs ==
    /\ pc = "deleting" /\ todo # {} /\ At \in listing
    /\ disk[At] # Absent /\ disk[At].stamp # facts[At].stamp
    /\ Doubt({At})
    /\ Report
    /\ UNCHANGED <<directory, files, days, listing, facts, prove, todo, seen, history, bounds>>

Unlink ==
    /\ pc = "unlinking" /\ disk[At] # Absent
    /\ disk' = [disk EXCEPT ![At] = Absent]
    /\ unlinked' = unlinked + 1
    /\ pc' = "recording"
    /\ UNCHANGED <<marker, database, listing, facts, prove, todo, seen, alarm,
                   raced, calm, bounds>>

\* The file or the marker is not there: raw_delete_failed, the step ends.
DeleteFails ==
    /\ \/ pc = "deleting" /\ todo # {} /\ At \in listing /\ disk[At] = Absent
       \/ pc = "unlinking" /\ disk[At] = Absent
       \/ pc = "unmarking" /\ ~marker
    /\ pc' = "idle"
    /\ UNCHANGED <<directory, database, listing, facts, prove, todo, seen, alarm, history, bounds>>

\* DailyStore.file_removed: the row and the run's counts in one transaction.
Record ==
    /\ pc = "recording"
    /\ rows' = [rows EXCEPT ![At].removed = TRUE]
    /\ files' = IF rows[At].removed THEN files ELSE files + 1
    /\ todo' = todo \ {At}
    /\ pc' = "deleting"
    /\ UNCHANGED <<directory, days, listing, facts, prove, seen, alarm, history, bounds>>

\* Mutant of ScanAgain: the marker goes with the last file of the batch.
ScanNoMore ==
    /\ pc = "deleting" /\ todo = {}
    /\ pc' = "unmarking"
    /\ raced' = FALSE
    /\ UNCHANGED <<directory, database, listing, facts, prove, todo, seen, alarm,
                   unlinked, calm, bounds>>

\* A file of the day that appeared meanwhile keeps the marker.
ScanAgain ==
    /\ pc = "deleting" /\ todo = {}
    /\ IF Present # {} THEN Report ELSE pc' = "unmarking" /\ UNCHANGED alarm
    /\ raced' = FALSE
    /\ UNCHANGED <<directory, database, listing, facts, prove, todo, seen,
                   unlinked, calm, bounds>>

Unmark ==
    /\ pc = "unmarking" /\ marker
    /\ marker' = FALSE
    /\ pc' = "gone"
    /\ UNCHANGED <<disk, database, listing, facts, prove, todo, seen, alarm, history, bounds>>

\* DailyStore.day_removed: the rows are closed and the day is counted, once.
DayGone ==
    /\ pc = "gone"
    /\ LET done == {n \in File : rows[n].removing /\ ~rows[n].cleared} IN
        /\ rows' = [n \in File |->
              IF n \in done THEN [rows[n] EXCEPT !.cleared = TRUE] ELSE rows[n]]
        /\ days' = IF done # {} THEN days + 1 ELSE days
    /\ pc' = "idle"
    /\ UNCHANGED <<directory, files, listing, facts, prove, todo, seen, alarm, history, bounds>>

Run ==
    \/ Compare \/ Skip \/ Open \/ Vanished \/ Verify \/ Refute \/ Compared
    \/ RawScan \/ Prove \/ NotDue \/ Recheck \/ Decide \/ AlreadyGone \/ LookAgain
    \/ Differs \/ Unlink \/ DeleteFails \/ Record \/ ScanAgain \/ Unmark \/ DayGone

-----------------------------------------------------------------------------
(* What interferes.                                                        *)

\* The run ends here: killed, interrupted, out of its turn, or in an error.
Stop ==
    /\ pc # "idle" /\ stops < MaxStops
    /\ stops' = stops + 1
    /\ pc' = "idle"
    /\ UNCHANGED <<directory, database, listing, facts, prove, todo, seen, alarm, history, edits>>

Edited ==
    /\ edits < MaxEdits
    /\ edits' = edits + 1
    /\ raced' = TRUE
    /\ calm' = FALSE
    /\ UNCHANGED <<database, process, unlinked, stops>>

\* People write, replace, put back or take away a file of the day, or its marker.
Put(n, good) ==
    /\ Edited
    /\ disk' = [disk EXCEPT ![n] = [stamp |-> edits + 2, good |-> good]]
    /\ UNCHANGED marker

Take(n) ==
    /\ Edited
    /\ disk[n] # Absent
    /\ disk' = [disk EXCEPT ![n] = Absent]
    /\ UNCHANGED marker

Mark ==
    /\ Edited
    /\ marker' = ~marker
    /\ UNCHANGED disk

People ==
    \/ \E n \in Name :
        \/ \E good \in IF n \in File THEN BOOLEAN ELSE {FALSE} : Put(n, good)
        \/ Take(n)
    \/ Mark

Next == Begin \/ Run \/ Stop \/ People

Spec == Init /\ [][Next]_vars

\* Runs are started every day and go on while nothing stops them.
FairSpec == Spec /\ WF_vars(Begin) /\ WF_vars(Run)

-----------------------------------------------------------------------------
(* Safety.                                                                 *)

\* A run unlinks a file only if its content is the imported one, but for an
\* edit between the last look and the unlink itself (DailyRun._unlink).
OnlyImportedGoes ==
    [][\A n \in File : Unlink /\ n = At => disk[n].good \/ raced]_vars

\* The marker is deleted only when no file of the day is left, but for one that
\* comes between the last scan and the unlink, and only after every file that
\* the run found or an earlier one had begun to delete is recorded as removed
\* (DailyRun._remove_day).
MarkerGoesLast ==
    [][Unmark =>
        /\ Present = {} \/ raced
        /\ \A n \in File : n \in listing \/ facts[n].removing => rows[n].removed]_vars

\* A run that nobody disturbs and nothing stops reports a marked day that holds
\* a changed file or one the batch never had (DailyRun._unchanged).
ChangesAreReported ==
    [][pc # "idle" /\ pc' = "idle" /\ stops' = stops /\ calm /\ marker
        /\ (\E n \in Present : n \in Stray \/ ~disk[n].good)
        => alarm']_vars

\* However often the runs are cut short, while nobody edits the day: a deletion of
\* ours is never taken for a change of the input, the records of all runs add up to
\* what they deleted, and the day is counted once, when the last of its files and
\* the marker are gone (schema.sql: mpp_daily_file).
QuietDayIsExact ==
    edits = 0 =>
        /\ ~alarm
        /\ (\A n \in File : rows[n].cleared) => files = unlinked
        /\ days <= 1
        /\ days = 1 => Present = {} /\ ~marker /\ files = Cardinality(File)

\* The rows keep the CHECKs of their table also where files are put back after they
\* were decided, recorded or closed, and those of a quiet day add up (schema.sql:
\* mpp_daily_file).
RowsAreExact == RowsAreLegal /\ QuietDayIsExact

-----------------------------------------------------------------------------
(* Liveness.                                                               *)

\* A deletion that was decided is finished, however often runs are cut short,
\* unless people edit the day.
DeletionFinishes == Begun ~> (\A n \in File : rows[n].cleared) \/ edits > 0
=============================================================================
