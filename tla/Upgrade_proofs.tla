--------------------------- MODULE Upgrade_proofs ---------------------------
(***************************************************************************)
(* The safety of Upgrade, for any installed units and any number of        *)
(* attempts, daily runs, faults and restarts of the machine.               *)
(*                                                                         *)
(* The inductive invariant says how far the trees can be exchanged at each *)
(* place of the tool and in each phase of the journal, and who can be      *)
(* running meanwhile.  A place is forgotten when the tool is cut off; what *)
(* TreeInv and PhaseInv say of the directories and of the journal is all   *)
(* that resume has to go on from.                                          *)
(***************************************************************************)
EXTENDS Upgrade, FiniteSetTheorems, TLAPS

(* A tree before, between and after the two renames of its exchange. *)
Untouched(tree) == tree.here = "old" /\ tree.previous = "none"
Away(tree)      == tree.here = "none" /\ tree.previous = "old" /\ tree.next = "new"
Exchanged(tree) == tree.here = "new" /\ tree.previous = "old" /\ tree.next = "none"

(* Program before verification before dashboards, and none of them before  *)
(* the database; from then on what is to be installed is there whole.      *)
TreeInv ==
    /\ Untouched(app) \/ Away(app) \/ Exchanged(app)
    /\ Untouched(ver) \/ (Exchanged(app) /\ (Away(ver) \/ Exchanged(ver)))
    /\ Untouched(app) => venv = "old"
    /\ Exchanged(app) => venv = "new"
    /\ db = "old" => Untouched(app) /\ Untouched(ver) /\ boards = "old"
    /\ db = "new" => /\ Untouched(app) => app.next = "new"
                     /\ Untouched(ver) => ver.next = "new"

Copying  == {"copyApp", "copyVer"}
Stopping == {"stopTimer", "quiet", "stopWeb", "stopped"}
Changing == {"migrating", "migrate"}
Moving   == {"commit", "activate", "saveApp", "moveVenv", "installApp", "saveVer",
             "installVer", "boards", "activated"}
Closing  == {"checks", "startWeb", "startTimer", "restored"}

(* What the tool relies on where it is. *)
PlaceInv ==
    /\ pc \in Copying \cup Changing => cmd = "apply"
    /\ pc \in Copying \cup Changing \/ (pc \in Stopping /\ cmd = "apply") =>
          db = "old" /\ ~job /\ phase = IF pc = "migrate" THEN "migrating" ELSE "prepared"
    /\ pc = "copyVer" => app.next = "new"
    /\ pc \in Changing \cup {"migrated"} \/ (pc \in Stopping /\ cmd = "apply") =>
          /\ Untouched(app) /\ app.next = "new"
          /\ Untouched(ver) /\ ver.next = "new"
    /\ pc \in Stopping /\ cmd # "apply" => db = "new" /\ ~job
    /\ pc \in {"migrated", "receipt"} => phase \in Unfinished
    /\ pc = "migrated" => phase = "migrating"
    /\ pc = "receipt" => ~job
    /\ pc \in {"handle", "recover", "receipt"} => cmd # "apply"
    /\ pc \in Moving => db = "new" /\ ~job
    /\ pc \in Moving \ {"commit"} => phase = "committed"
    /\ pc = "moveVenv" => ~Untouched(app)
    /\ pc = "installApp" => ~Untouched(app) /\ venv = "new"
    /\ pc \in {"saveVer", "installVer"} => Exchanged(app)
    /\ pc = "installVer" => ~Untouched(ver)
    /\ pc \in {"boards", "activated"} => Exchanged(app) /\ Exchanged(ver)
    /\ pc = "activated" => boards = "new"
    /\ pc \in Closing => ~job /\ (db = "new" => phase = "activated")

(* What the journal says of the database and of the trees. *)
PhaseInv ==
    /\ phase \in {"none", "prepared", "rolled-back"} => db = "old" /\ ~job
    /\ phase \in {"committed", "activated", "complete"} => db = "new" /\ ~job
    /\ job => db = "old" /\ Untouched(app) /\ app.next = "new"
                         /\ Untouched(ver) /\ ver.next = "new"
    /\ phase \in {"activated", "complete"} =>
          Exchanged(app) /\ Exchanged(ver) /\ boards = "new"
    /\ pc # "off" => phase \in Unfinished
    /\ IF phase \in Unfinished THEN wanted = Unit ELSE active = Unit

(* No daily run goes on, and none has left a row that invites another one. *)
NoRun == run = "off" /\ rows = {}

(* Nobody is up from the stop of the units to the exchange of the program, *)
(* not even while the tool is not there; but a restart starts them.        *)
QuietInv ==
    /\ pc \in {"quiet", "stopWeb", "stopped"} => "timer" \notin active
    /\ pc = "stopWeb" => NoRun
    /\ pc \in {"stopped", "migrated"} \cup Changing \cup Moving => active = {} /\ NoRun
    /\ boots = 0 /\ (job \/ (db = "new" /\ app.here # "new")) => active = {} /\ NoRun
    /\ boots \in Nat

IInv == TypeOK /\ TreeInv /\ PhaseInv /\ PlaceInv /\ QuietInv

-----------------------------------------------------------------------------
(* IInv holds initially, and every step keeps each of its parts.            *)

USE UpgradeAssumption

(* An installation of the old version, and no record yet. *)
LEMMA InvInit == Init => IInv
<1>. USE DEF Init, Installed, Untouched, Unfinished
<1>1. Init => TypeOK
  <2>1. Installed \in Tree
    BY DEF Tree, Version
  <2>. QED BY <2>1 DEF TypeOK, Version
<1>2. Init => TreeInv
  BY DEF TreeInv, Away, Exchanged
<1>3. Init => PhaseInv
  BY DEF PhaseInv
<1>4. Init => PlaceInv
  BY DEF PlaceInv, Copying, Stopping, Changing, Moving, Closing
<1>5. Init => QuietInv
  BY DEF QuietInv, NoRun, Changing, Moving
<1>. QED BY <1>1, <1>2, <1>3, <1>4, <1>5 DEF IInv

(* A look of the tool changes only where the tool is. *)
LEMMA LookType ==
    ASSUME TypeOK, NEW p \in BOOLEAN, NEW from, NEW to, Require(p, from, to)
    PROVE  TypeOK'
<1>1. UNCHANGED <<db, job, files, active, daily, journal>>
    BY DEF Require, Refuse
<1>2. cmd' \in {"none", "apply", "handling", "resume"}
    BY DEF Require, Step, Refuse, Raised, TypeOK
<1>. QED BY <1>1, <1>2 DEF TypeOK, files, journal, daily

(* A tree is renamed only with a whole one to take its place, so that no
   half-copied one is ever the installed one: types need the places. *)
LEMMA TypeStep == ASSUME TypeOK, TreeInv, PlaceInv, [Next]_vars PROVE TypeOK'
<1>. USE DEF TypeOK, TreeInv, PlaceInv, Tree, Version, Untouched, Away,
         Exchanged, Copying, Stopping, Changing, Moving, Closing, Unfinished,
         files, journal, daily, bounds
<1>0. CASE UNCHANGED vars BY <1>0 DEF vars
<1>1. CASE Apply BY <1>1 DEF Apply
<1>2. CASE Resume BY <1>2 DEF Resume
<1>3. CASE CopyApp BY <1>3 DEF CopyApp, Step, Grown
<1>4. CASE CopyVer BY <1>4 DEF CopyVer, Step, Grown
<1>5. CASE StopTimer BY <1>5 DEF StopTimer, Step
<1>6. CASE Quiet
    <2>1. (Inactive /\ idle) \in BOOLEAN
        BY DEF idle, Inactive
    <2>. QED BY <1>6, <2>1, LookType DEF Quiet
<1>7. CASE StopWeb BY <1>7 DEF StopWeb, Step
<1>8. CASE Stopped
    <2>1. (idle) \in BOOLEAN
        BY DEF idle
    <2>. QED BY <1>8, <2>1, LookType DEF Stopped
<1>9. CASE Migrating BY <1>9 DEF Migrating, Step
<1>10. CASE Migrate BY <1>10 DEF Migrate, Step
<1>11. CASE Migrated BY <1>11 DEF Migrated, Step, Refuse, Raised
<1>12. CASE Committed BY <1>12 DEF Committed, Step
<1>13. CASE Activate
    <2>1. (Whole(app) /\ Whole(ver)) \in BOOLEAN
        BY DEF Whole
    <2>. QED BY <1>13, <2>1, LookType DEF Activate
<1>14. CASE SaveApp BY <1>14 DEF SaveApp, Step, Saved
<1>15. CASE MoveVenv BY <1>15 DEF MoveVenv, Step
<1>16. CASE InstallApp BY <1>16 DEF InstallApp, Step, Moved
<1>17. CASE SaveVer BY <1>17 DEF SaveVer, Step, Saved
<1>18. CASE InstallVer BY <1>18 DEF InstallVer, Step, Moved
<1>19. CASE Boards BY <1>19 DEF Boards, Step
<1>20. CASE Activated BY <1>20 DEF Activated, Step
<1>21. CASE Checks
    <2>1. (Fits /\ venv = app.here) \in BOOLEAN
        BY DEF Fits
    <2>. QED BY <1>21, <2>1, LookType DEF Checks
<1>22. CASE StartWeb BY <1>22 DEF StartWeb, Step
<1>23. CASE StartTimer BY <1>23 DEF StartTimer, Step
<1>24. CASE Restored BY <1>24 DEF Restored, Refuse, Raised, Inactive
<1>25. CASE Handle
    <2>1. (db = "old") \in BOOLEAN
        OBVIOUS
    <2>. QED BY <1>25, <2>1, LookType DEF Handle
<1>26. CASE Recover
    <2>1. (idle) \in BOOLEAN
        BY DEF idle
    <2>. QED BY <1>26, <2>1, LookType DEF Recover
<1>27. CASE Receipt
    <2>1. (app.previous = "none") \in BOOLEAN /\ TRUE \in BOOLEAN
        OBVIOUS
    <2>. QED BY <1>27, <2>1, LookType DEF Receipt
<1>28. CASE Interrupt BY <1>28 DEF Interrupt, Raised
<1>29. CASE Kill BY <1>29 DEF Kill
<1>30. CASE RunStarts BY <1>30 DEF RunStarts
<1>31. CASE RunBegins \/ RunEnds \/ RunDies
    <2>. HIDE DEF TreeInv, PlaceInv, Tree, Version
    <2>. QED BY <1>31 DEF RunBegins, RunEnds, RunDies, RowsLeft
<1>32. CASE MigrationEnds
    <2>1. db' \in Version /\ job' \in BOOLEAN
        BY <1>32 DEF MigrationEnds
    <2>. HIDE DEF TreeInv, PlaceInv, Tree, Version
    <2>. QED BY <1>32, <2>1 DEF MigrationEnds
<1>33. CASE Reboot BY <1>33 DEF Reboot, RowsLeft
<1>. QED
    BY <1>0, <1>1, <1>2, <1>3, <1>4, <1>5, <1>6, <1>7, <1>8, <1>9, <1>10,
     <1>11, <1>12, <1>13, <1>14, <1>15, <1>16, <1>17, <1>18, <1>19, <1>20,
     <1>21, <1>22, <1>23, <1>24, <1>25, <1>26, <1>27, <1>28, <1>29, <1>30,
     <1>31, <1>32, <1>33 DEF Next, Tool

(* The trees are exchanged in order, and after the database. *)
LEMMA TreeStep == ASSUME TypeOK, TreeInv, PhaseInv, PlaceInv, [Next]_vars PROVE TreeInv'
<1>. USE DEF TypeOK, TreeInv, PhaseInv, PlaceInv, Tree, Version, Untouched,
         Away, Exchanged, Copying, Stopping, Changing, Moving, Closing,
         Unfinished, files, journal, daily, bounds
<1>0. CASE UNCHANGED vars BY <1>0 DEF vars
<1>1. CASE Apply BY <1>1 DEF Apply
<1>2. CASE Resume BY <1>2 DEF Resume
<1>3. CASE CopyApp BY <1>3 DEF CopyApp, Step, Grown
<1>4. CASE CopyVer BY <1>4 DEF CopyVer, Step, Grown
<1>5. CASE StopTimer BY <1>5 DEF StopTimer, Step
<1>6. CASE Quiet BY <1>6 DEF Quiet, Require, Step, Refuse, Raised, idle, Inactive
<1>7. CASE StopWeb BY <1>7 DEF StopWeb, Step
<1>8. CASE Stopped BY <1>8 DEF Stopped, Require, Step, Refuse, Raised, idle
<1>9. CASE Migrating BY <1>9 DEF Migrating, Step
<1>10. CASE Migrate BY <1>10 DEF Migrate, Step
<1>11. CASE Migrated BY <1>11 DEF Migrated, Step, Refuse, Raised
<1>12. CASE Committed BY <1>12 DEF Committed, Step
<1>13. CASE Activate BY <1>13 DEF Activate, Require, Step, Refuse, Raised, Whole
<1>14. CASE SaveApp BY <1>14 DEF SaveApp, Step, Saved
<1>15. CASE MoveVenv BY <1>15 DEF MoveVenv, Step
<1>16. CASE InstallApp BY <1>16 DEF InstallApp, Step, Moved
<1>17. CASE SaveVer BY <1>17 DEF SaveVer, Step, Saved
<1>18. CASE InstallVer BY <1>18 DEF InstallVer, Step, Moved
<1>19. CASE Boards BY <1>19 DEF Boards, Step
<1>20. CASE Activated BY <1>20 DEF Activated, Step
<1>21. CASE Checks BY <1>21 DEF Checks, Require, Step, Refuse, Raised, Fits
<1>22. CASE StartWeb BY <1>22 DEF StartWeb, Step
<1>23. CASE StartTimer BY <1>23 DEF StartTimer, Step
<1>24. CASE Restored BY <1>24 DEF Restored, Refuse, Raised, Inactive
<1>25. CASE Handle BY <1>25 DEF Handle, Require, Step, Refuse, Raised
<1>26. CASE Recover BY <1>26 DEF Recover, Require, Step, Refuse, Raised, idle
<1>27. CASE Receipt BY <1>27 DEF Receipt, Require, Step, Refuse, Raised
<1>28. CASE Interrupt BY <1>28 DEF Interrupt, Raised
<1>29. CASE Kill BY <1>29 DEF Kill
<1>30. CASE RunStarts BY <1>30 DEF RunStarts
<1>31. CASE RunBegins \/ RunEnds \/ RunDies
    BY <1>31 DEF RunBegins, RunEnds, RunDies, RowsLeft, Fits
<1>32. CASE MigrationEnds BY <1>32 DEF MigrationEnds
<1>33. CASE Reboot BY <1>33 DEF Reboot, RowsLeft
<1>. QED
    BY <1>0, <1>1, <1>2, <1>3, <1>4, <1>5, <1>6, <1>7, <1>8, <1>9, <1>10,
     <1>11, <1>12, <1>13, <1>14, <1>15, <1>16, <1>17, <1>18, <1>19, <1>20,
     <1>21, <1>22, <1>23, <1>24, <1>25, <1>26, <1>27, <1>28, <1>29, <1>30,
     <1>31, <1>32, <1>33 DEF Next, Tool

(* Each place of the tool hands on what the next one relies on. *)
LEMMA PlaceStep == ASSUME TypeOK, TreeInv, PhaseInv, PlaceInv, QuietInv, [Next]_vars PROVE PlaceInv'
<1>. USE DEF TypeOK, TreeInv, PhaseInv, PlaceInv, QuietInv, NoRun, Tree, Version,
         Untouched, Away, Exchanged, Copying, Stopping, Changing, Moving,
         Closing, Unfinished, files, journal, daily, bounds
<1>0. CASE UNCHANGED vars BY <1>0 DEF vars
<1>1. CASE Apply BY <1>1 DEF Apply
<1>2. CASE Resume BY <1>2 DEF Resume
<1>3. CASE CopyApp BY <1>3 DEF CopyApp, Step, Grown
<1>4. CASE CopyVer BY <1>4 DEF CopyVer, Step, Grown
<1>5. CASE StopTimer BY <1>5 DEF StopTimer, Step
<1>6. CASE Quiet BY <1>6 DEF Quiet, Require, Step, Refuse, Raised, idle, Inactive
<1>7. CASE StopWeb BY <1>7 DEF StopWeb, Step
<1>8. CASE Stopped BY <1>8 DEF Stopped, Require, Step, Refuse, Raised, idle
<1>9. CASE Migrating BY <1>9 DEF Migrating, Step
<1>10. CASE Migrate BY <1>10 DEF Migrate, Step
<1>11. CASE Migrated BY <1>11 DEF Migrated, Step, Refuse, Raised
<1>12. CASE Committed BY <1>12 DEF Committed, Step
<1>13. CASE Activate BY <1>13 DEF Activate, Require, Step, Refuse, Raised, Whole
<1>14. CASE SaveApp BY <1>14 DEF SaveApp, Step, Saved
<1>15. CASE MoveVenv BY <1>15 DEF MoveVenv, Step
<1>16. CASE InstallApp BY <1>16 DEF InstallApp, Step, Moved
<1>17. CASE SaveVer BY <1>17 DEF SaveVer, Step, Saved
<1>18. CASE InstallVer BY <1>18 DEF InstallVer, Step, Moved
<1>19. CASE Boards BY <1>19 DEF Boards, Step
<1>20. CASE Activated BY <1>20 DEF Activated, Step
<1>21. CASE Checks BY <1>21 DEF Checks, Require, Step, Refuse, Raised, Fits
<1>22. CASE StartWeb BY <1>22 DEF StartWeb, Step
<1>23. CASE StartTimer BY <1>23 DEF StartTimer, Step
<1>24. CASE Restored BY <1>24 DEF Restored, Refuse, Raised, Inactive
<1>25. CASE Handle BY <1>25 DEF Handle, Require, Step, Refuse, Raised
<1>26. CASE Recover BY <1>26 DEF Recover, Require, Step, Refuse, Raised, idle
<1>27. CASE Receipt BY <1>27 DEF Receipt, Require, Step, Refuse, Raised
<1>28. CASE Interrupt BY <1>28 DEF Interrupt, Raised
<1>29. CASE Kill BY <1>29 DEF Kill
<1>30. CASE RunStarts BY <1>30 DEF RunStarts
<1>31. CASE RunBegins \/ RunEnds \/ RunDies
    BY <1>31 DEF RunBegins, RunEnds, RunDies, RowsLeft, Fits
<1>32. CASE MigrationEnds BY <1>32 DEF MigrationEnds
<1>33. CASE Reboot BY <1>33 DEF Reboot, RowsLeft
<1>. QED
    BY <1>0, <1>1, <1>2, <1>3, <1>4, <1>5, <1>6, <1>7, <1>8, <1>9, <1>10,
     <1>11, <1>12, <1>13, <1>14, <1>15, <1>16, <1>17, <1>18, <1>19, <1>20,
     <1>21, <1>22, <1>23, <1>24, <1>25, <1>26, <1>27, <1>28, <1>29, <1>30,
     <1>31, <1>32, <1>33 DEF Next, Tool

(* The journal is written after what it says is true, and the migration
   is the only step that goes on without the tool. *)
LEMMA PhaseStep == ASSUME TypeOK, TreeInv, PhaseInv, PlaceInv, QuietInv, [Next]_vars PROVE PhaseInv'
<1>. USE DEF TypeOK, TreeInv, PhaseInv, PlaceInv, QuietInv, NoRun, Tree, Version,
         Untouched, Away, Exchanged, Copying, Stopping, Changing, Moving,
         Closing, Unfinished, files, journal, daily, bounds
<1>0. CASE UNCHANGED vars BY <1>0 DEF vars
<1>1. CASE Apply BY <1>1 DEF Apply
<1>2. CASE Resume BY <1>2 DEF Resume
<1>3. CASE CopyApp BY <1>3 DEF CopyApp, Step, Grown
<1>4. CASE CopyVer BY <1>4 DEF CopyVer, Step, Grown
<1>5. CASE StopTimer BY <1>5 DEF StopTimer, Step
<1>6. CASE Quiet BY <1>6 DEF Quiet, Require, Step, Refuse, Raised, idle, Inactive
<1>7. CASE StopWeb BY <1>7 DEF StopWeb, Step
<1>8. CASE Stopped BY <1>8 DEF Stopped, Require, Step, Refuse, Raised, idle
<1>9. CASE Migrating BY <1>9 DEF Migrating, Step
<1>10. CASE Migrate BY <1>10 DEF Migrate, Step
<1>11. CASE Migrated BY <1>11 DEF Migrated, Step, Refuse, Raised
<1>12. CASE Committed BY <1>12 DEF Committed, Step
<1>13. CASE Activate BY <1>13 DEF Activate, Require, Step, Refuse, Raised, Whole
<1>14. CASE SaveApp BY <1>14 DEF SaveApp, Step, Saved
<1>15. CASE MoveVenv BY <1>15 DEF MoveVenv, Step
<1>16. CASE InstallApp BY <1>16 DEF InstallApp, Step, Moved
<1>17. CASE SaveVer BY <1>17 DEF SaveVer, Step, Saved
<1>18. CASE InstallVer BY <1>18 DEF InstallVer, Step, Moved
<1>19. CASE Boards BY <1>19 DEF Boards, Step
<1>20. CASE Activated BY <1>20 DEF Activated, Step
<1>21. CASE Checks BY <1>21 DEF Checks, Require, Step, Refuse, Raised, Fits
<1>22. CASE StartWeb BY <1>22 DEF StartWeb, Step
<1>23. CASE StartTimer BY <1>23 DEF StartTimer, Step
<1>24. CASE Restored BY <1>24 DEF Restored, Refuse, Raised, Inactive
<1>25. CASE Handle BY <1>25 DEF Handle, Require, Step, Refuse, Raised
<1>26. CASE Recover BY <1>26 DEF Recover, Require, Step, Refuse, Raised, idle
<1>27. CASE Receipt BY <1>27 DEF Receipt, Require, Step, Refuse, Raised
<1>28. CASE Interrupt BY <1>28 DEF Interrupt, Raised
<1>29. CASE Kill BY <1>29 DEF Kill
<1>30. CASE RunStarts BY <1>30 DEF RunStarts
<1>31. CASE RunBegins \/ RunEnds \/ RunDies
    BY <1>31 DEF RunBegins, RunEnds, RunDies, RowsLeft, Fits
<1>32. CASE MigrationEnds BY <1>32 DEF MigrationEnds
<1>33. CASE Reboot BY <1>33 DEF Reboot, RowsLeft
<1>. QED
    BY <1>0, <1>1, <1>2, <1>3, <1>4, <1>5, <1>6, <1>7, <1>8, <1>9, <1>10,
     <1>11, <1>12, <1>13, <1>14, <1>15, <1>16, <1>17, <1>18, <1>19, <1>20,
     <1>21, <1>22, <1>23, <1>24, <1>25, <1>26, <1>27, <1>28, <1>29, <1>30,
     <1>31, <1>32, <1>33 DEF Next, Tool

(* The timer goes before the look for a run, so none starts after it. *)
LEMMA QuietStep == ASSUME TypeOK, TreeInv, PhaseInv, PlaceInv, QuietInv, [Next]_vars PROVE QuietInv'
<1>. USE DEF TypeOK, TreeInv, PhaseInv, PlaceInv, QuietInv, NoRun, Tree, Version,
         Untouched, Away, Exchanged, Copying, Stopping, Changing, Moving,
         Closing, Unfinished, files, journal, daily, bounds
<1>0. CASE UNCHANGED vars BY <1>0 DEF vars
<1>1. CASE Apply BY <1>1 DEF Apply
<1>2. CASE Resume BY <1>2 DEF Resume
<1>3. CASE CopyApp BY <1>3 DEF CopyApp, Step, Grown
<1>4. CASE CopyVer BY <1>4 DEF CopyVer, Step, Grown
<1>5. CASE StopTimer BY <1>5 DEF StopTimer, Step
<1>6. CASE Quiet BY <1>6 DEF Quiet, Require, Step, Refuse, Raised, idle, Inactive
<1>7. CASE StopWeb BY <1>7 DEF StopWeb, Step
<1>8. CASE Stopped BY <1>8 DEF Stopped, Require, Step, Refuse, Raised, idle
<1>9. CASE Migrating BY <1>9 DEF Migrating, Step
<1>10. CASE Migrate BY <1>10 DEF Migrate, Step
<1>11. CASE Migrated
  <2>1. active = {} /\ NoRun
    BY <1>11 DEF Migrated, Step, Refuse
  <2>2. UNCHANGED <<active, run, rows, boots>>
    BY <1>11 DEF Migrated, Step, Refuse
  <2>3. pc' \notin {"quiet", "stopWeb"}
    BY <1>11 DEF Migrated, Step, Refuse, Raised
  <2>. QED BY <2>1, <2>2, <2>3
<1>12. CASE Committed BY <1>12 DEF Committed, Step
<1>13. CASE Activate BY <1>13 DEF Activate, Require, Step, Refuse, Raised, Whole
<1>14. CASE SaveApp BY <1>14 DEF SaveApp, Step, Saved
<1>15. CASE MoveVenv BY <1>15 DEF MoveVenv, Step
<1>16. CASE InstallApp BY <1>16 DEF InstallApp, Step, Moved
<1>17. CASE SaveVer BY <1>17 DEF SaveVer, Step, Saved
<1>18. CASE InstallVer BY <1>18 DEF InstallVer, Step, Moved
<1>19. CASE Boards BY <1>19 DEF Boards, Step
<1>20. CASE Activated BY <1>20 DEF Activated, Step
<1>21. CASE Checks BY <1>21 DEF Checks, Require, Step, Refuse, Raised, Fits
<1>22. CASE StartWeb BY <1>22 DEF StartWeb, Step
<1>23. CASE StartTimer BY <1>23 DEF StartTimer, Step
<1>24. CASE Restored BY <1>24 DEF Restored, Refuse, Raised, Inactive
<1>25. CASE Handle BY <1>25 DEF Handle, Require, Step, Refuse, Raised
<1>26. CASE Recover BY <1>26 DEF Recover, Require, Step, Refuse, Raised, idle
<1>27. CASE Receipt BY <1>27 DEF Receipt, Require, Step, Refuse, Raised
<1>28. CASE Interrupt BY <1>28 DEF Interrupt, Raised
<1>29. CASE Kill BY <1>29 DEF Kill
<1>30. CASE RunStarts BY <1>30 DEF RunStarts
<1>31. CASE RunBegins \/ RunEnds \/ RunDies
    BY <1>31 DEF RunBegins, RunEnds, RunDies, RowsLeft, Fits
<1>32. CASE MigrationEnds BY <1>32 DEF MigrationEnds
<1>33. CASE Reboot BY <1>33 DEF Reboot, RowsLeft
<1>. QED
    BY <1>0, <1>1, <1>2, <1>3, <1>4, <1>5, <1>6, <1>7, <1>8, <1>9, <1>10,
     <1>11, <1>12, <1>13, <1>14, <1>15, <1>16, <1>17, <1>18, <1>19, <1>20,
     <1>21, <1>22, <1>23, <1>24, <1>25, <1>26, <1>27, <1>28, <1>29, <1>30,
     <1>31, <1>32, <1>33 DEF Next, Tool

-----------------------------------------------------------------------------
(* The theorems.                                                           *)

(* The invariant holds in every state of every run. *)
THEOREM Invariance == Spec => []IInv
<1>1. IInv /\ [Next]_vars => IInv'
  BY TypeStep, TreeStep, PlaceStep, PhaseStep, QuietStep DEF IInv
<1>. QED BY InvInit, <1>1, PTL DEF Spec

(* A version that is in exactly one place of a tree is counted once. *)
LEMMA OnePlace ==
  ASSUME NEW tree \in Tree, NEW v, NEW p \in {"here", "previous", "next"},
         tree[p] = v, \A q \in {"here", "previous", "next"} : tree[q] = v => q = p
  PROVE  Count(tree, v) = 1
<1>1. DOMAIN tree = {"here", "previous", "next"}
  BY DEF Tree
<1>2. {q \in DOMAIN tree : tree[q] = v} = {p}
  BY <1>1
<1>. QED BY <1>2, FS_Singleton DEF Count

(* Count sees the old tree once in each of the three states of an exchange, *)
(* and the new tree once if it was copied before. *)
LEMMA OldOnce ==
  ASSUME NEW tree \in Tree, Untouched(tree) \/ Away(tree) \/ Exchanged(tree)
  PROVE  Count(tree, "old") = 1
<1>. USE DEF Untouched, Away, Exchanged, Tree
<1>1. CASE Untouched(tree) BY <1>1, OnePlace
<1>2. CASE Away(tree) \/ Exchanged(tree) BY <1>2, OnePlace
<1>. QED BY <1>1, <1>2

(* So is the new tree, once it has been copied. *)
LEMMA NewOnce ==
  ASSUME NEW tree \in Tree,
         \/ Untouched(tree) /\ tree.next = "new"
         \/ Away(tree) \/ Exchanged(tree)
  PROVE  Count(tree, "new") = 1
<1>. USE DEF Untouched, Away, Exchanged, Tree
<1>1. CASE tree.next = "new" /\ tree.here # "new" BY <1>1, OnePlace
<1>2. CASE Exchanged(tree) BY <1>2, OnePlace
<1>. QED BY <1>1, <1>2

(* NothingLost: whatever cuts an upgrade short, and however often, the old *)
(* program and verification exist, installed as long as the database is    *)
(* old, and the new ones exist whole once it is new. *)
THEOREM NothingIsLost == Spec => []NothingLost
<1>1. IInv => NothingLost
  <2>. SUFFICES ASSUME IInv PROVE NothingLost
    OBVIOUS
  <2>1. app \in Tree /\ ver \in Tree /\ TreeInv
    BY DEF IInv, TypeOK
  <2>2. /\ Untouched(app) \/ Away(app) \/ Exchanged(app)
        /\ Untouched(ver) \/ Away(ver) \/ Exchanged(ver)
    BY <2>1 DEF TreeInv
  <2>3. Count(app, "old") = 1 /\ Count(ver, "old") = 1
    BY <2>1, <2>2, OldOnce
  <2>4. db = "old" => app.here = "old" /\ ver.here = "old" /\ venv = "old"
    BY <2>1 DEF TreeInv, Untouched
  <2>5. db = "new" => Count(app, "new") = 1 /\ Count(ver, "new") = 1
    BY <2>1, <2>2, NewOnce DEF TreeInv
  <2>. QED BY <2>3, <2>4, <2>5 DEF NothingLost
<1>. QED BY Invariance, <1>1, PTL

(* OnlyFitting: as long as the machine is not restarted, no unit is up and *)
(* no daily run goes on beside a database that its program does not know.  *)
THEOREM OnlyFittingRuns == Spec => []OnlyFitting
<1>1. IInv => OnlyFitting
  <2>. SUFFICES ASSUME IInv, boots = 0, run # "off" \/ active # {} PROVE app.here = db
    BY DEF OnlyFitting, Fits
  <2>1. db \in {"old", "new"} /\ TreeInv /\ QuietInv
    BY DEF IInv, TypeOK, Version
  <2>2. CASE db = "old" BY <2>1, <2>2 DEF TreeInv, Untouched
  <2>3. CASE db = "new" BY <2>1, <2>3 DEF QuietInv, NoRun
  <2>. QED BY <2>1, <2>2, <2>3
<1>. QED BY Invariance, <1>1, PTL

(* ClosedIsTrue: a record says complete only over an installation that is  *)
(* all new, and rolled-back only over one that is all old, with every unit *)
(* up that was up before. *)
THEOREM ClosedRecordsAreTrue == Spec => []ClosedIsTrue
<1>1. IInv => ClosedIsTrue
  BY DEF IInv, TreeInv, PhaseInv, ClosedIsTrue, Unfinished, Untouched, Exchanged
<1>. QED BY Invariance, <1>1, PTL

(* An action property: a record that is complete stays so.  apply finds    *)
(* the new receipt and refuses, and resume finds nothing unfinished.       *)
THEOREM CompleteIsFinal == Spec => [][phase = "complete" => phase' = "complete"]_vars
<1>1. IInv /\ [Next]_vars /\ phase = "complete" => phase' = "complete"
  <2>. SUFFICES ASSUME IInv, [Next]_vars, phase = "complete"
                PROVE  phase' = "complete"
    OBVIOUS
  <2>1. pc = "off" /\ db = "new"
    BY DEF IInv, PhaseInv, Unfinished
  <2>2. ~Apply /\ ~Resume
    BY <2>1 DEF Apply, Resume, Unfinished
  <2>3. ~Tool
    BY <2>1 DEF Tool, CopyApp, CopyVer, StopTimer, Quiet, StopWeb, Stopped, Migrating,
       Migrate, Migrated, Committed, Activate, SaveApp, MoveVenv, InstallApp, SaveVer,
       InstallVer, Boards, Activated, Checks, StartWeb, StartTimer, Restored, Handle,
       Recover, Receipt, Require, Refuse, Step
  <2>4. CASE UNCHANGED vars BY <2>4 DEF vars
  <2>5. CASE Interrupt \/ Kill BY <2>1, <2>5 DEF Interrupt, Kill
  <2>6. CASE RunStarts \/ RunBegins \/ RunEnds \/ RunDies \/ MigrationEnds \/ Reboot
    BY <2>6 DEF RunStarts, RunBegins, RunEnds, RunDies, MigrationEnds, Reboot, journal
  <2>. QED BY <2>2, <2>3, <2>4, <2>5, <2>6 DEF Next
<1>. QED BY Invariance, <1>1, PTL DEF Spec

=============================================================================
