------------------------------- MODULE Upgrade -------------------------------
(***************************************************************************)
(* The upgrade of an installation in place (scripts/deployment/upgrade.py, *)
(* sql_apm/storage/migrate.sql): the database is migrated in one           *)
(* transaction, then the program and its verification are exchanged by     *)
(* renames, with the product's units stopped meanwhile.  A journal names   *)
(* the phase; resume looks at the database and at the directories.         *)
(*                                                                         *)
(* The tool is killed or interrupted between any two steps, the migration  *)
(* outlives it, the machine restarts, and the timer starts daily runs.     *)
(* "old" is v1.2.0 and schema 1.13.0, "new" v1.3.0 and 1.14.0.             *)
(***************************************************************************)
EXTENDS Naturals, FiniteSets

CONSTANTS
    Unit,        \* installed units that are active: subset of timer and web
    MaxApplies,  \* bound: times that apply is started
    MaxRuns,     \* bound: daily runs that are started meanwhile
    MaxFaults,   \* bound: errors, signals and kills of the tool and of runs
    MaxBoots     \* bound: restarts of the machine

ASSUME UpgradeAssumption ==
    /\ Unit \subseteq {"timer", "web"}
    /\ {MaxApplies, MaxRuns, MaxFaults, MaxBoots} \subseteq Nat

VARIABLES
    db,        \* the newest receipt in schema_version
    job,       \* the migration's session has its transaction open
    app, ver,  \* program and verification: the installed tree, the one that
               \* was there before and the one to be installed, in ROOT and in
               \* the record's directory
    venv,      \* the program tree that has the virtual environment in it
    boards,    \* dashboards handed to Grafana: "old", "mixed" or "new"
    active,    \* units that are active
    run,       \* the daily service: "off", "started", or "begun" and recorded
    rows,      \* what says running in the database: the record of a daily
               \* run, or the task of one that died
    phase,     \* the journal's phase
    wanted,    \* the units that preflight found active, in the journal
    pc, cmd,   \* the tool: where it is, and in which command
    applies, runs, faults, boots

files   == <<app, ver, venv, boards>>
journal == <<phase, wanted>>
daily   == <<run, rows>>
bounds  == <<applies, runs, faults, boots>>
vars    == <<db, job, app, ver, venv, boards, active, run, rows, phase, wanted,
             pc, cmd, applies, runs, faults, boots>>

Version    == {"old", "new"}
Tree       == [here : Version \cup {"none"}, previous : {"none", "old"},
               next : {"none", "part", "new"}]
Installed  == [here |-> "old", previous |-> "none", next |-> "none"]
Unfinished == {"prepared", "migrating", "committed", "activated"}

Init ==
    /\ db = "old" /\ job = FALSE
    /\ app = Installed /\ ver = Installed /\ venv = "old" /\ boards = "old"
    /\ active = Unit /\ run = "off" /\ rows = {}
    /\ phase = "none" /\ wanted = {}
    /\ pc = "off" /\ cmd = "none"
    /\ applies = 0 /\ runs = 0 /\ faults = 0 /\ boots = 0

-----------------------------------------------------------------------------
(* Units, the migration's session, and restarts of the machine.            *)

(* A unit whose program is not there fails at once and is reset by people. *)
(* Where rows of a run that died are left, people may start the service.   *)
RunStarts ==
    /\ "timer" \in active \/ rows # {}
    /\ run = "off" /\ app.here # "none" /\ runs < MaxRuns
    /\ run' = "started" /\ runs' = runs + 1
    /\ UNCHANGED <<db, job, files, active, rows, journal, pc, cmd, applies, faults, boots>>

Fits == app.here = db

(* A program that does not know the schema leaves no row.  begin ends the  *)
(* records of earlier runs and writes one of its own.                      *)
RunBegins ==
    /\ run = "started" /\ Fits
    /\ run' = "begun"
    /\ rows' = rows \cup {"run"}
    /\ UNCHANGED <<db, job, files, active, journal, pc, cmd, bounds>>

(* The task of an earlier run stays, unless this one was admitted to its   *)
(* cluster.                                                                *)
RunEnds ==
    /\ run # "off" /\ run' = "off"
    /\ rows' \in IF run = "begun" THEN {{}, rows \ {"run"}} ELSE {rows}
    /\ UNCHANGED <<db, job, files, active, journal, pc, cmd, bounds>>

(* What a run that dies leaves: its record, and maybe the task it was at. *)
RowsLeft == rows' \in IF run = "begun" THEN {rows, rows \cup {"task"}} ELSE {rows}

RunDies ==
    /\ run # "off" /\ run' = "off" /\ RowsLeft
    /\ faults < MaxFaults /\ faults' = faults + 1
    /\ UNCHANGED <<db, job, files, active, journal, pc, cmd, applies, runs, boots>>

(* migrate.sql is one transaction: all of its steps and receipts, or none. *)
MigrationEnds ==
    /\ job /\ job' = FALSE
    /\ db' \in {db, "new"}
    /\ UNCHANGED <<files, active, daily, journal, pc, cmd, bounds>>

(* Enabled units come back by themselves; rows stay as they are. *)
Reboot ==
    /\ boots < MaxBoots
    /\ boots' = boots + 1
    /\ job' = FALSE /\ run' = "off" /\ RowsLeft /\ active' = Unit
    /\ pc' = "off" /\ cmd' = "none"
    /\ UNCHANGED <<db, files, journal, applies, runs, faults>>

-----------------------------------------------------------------------------
(* Steps of the tool, and what an exception does in each of its commands.  *)

Step(from, to) == pc = from /\ pc' = to /\ UNCHANGED <<cmd, bounds>>

Raised ==
    IF cmd = "apply" THEN pc' = "handle" /\ cmd' = "handling"
                     ELSE pc' = "off" /\ cmd' = "none"

Refuse == Raised /\ UNCHANGED <<db, job, files, active, daily, journal, bounds>>

(* A look that changes nothing, and goes on only if it finds p. *)
Require(p, from, to) ==
    /\ pc = from
    /\ IF p THEN Step(from, to) /\ UNCHANGED <<db, job, files, active, daily, journal>>
            ELSE Refuse

(* Mutant: sessions are not looked at. *)
IdleWithoutSessions == rows = {}

(* No task and no daily run that says running, no busy session.  A service *)
(* that has been started and has written nothing is not seen here.         *)
idle == rows = {} /\ ~job

(* services: the daily service is not active. *)
Inactive == run = "off"

(* Mutant: an earlier record that is not finished does not matter. *)
ApplyAnyway ==
    /\ pc = "off" /\ applies < MaxApplies
    /\ db = "old" /\ app.here = "old" /\ idle /\ Inactive
    /\ phase' = "prepared" /\ wanted' = active
    /\ app' = [app EXCEPT !.next = "none"] /\ ver' = [ver EXCEPT !.next = "none"]
    /\ pc' = "copyApp" /\ cmd' = "apply" /\ applies' = applies + 1
    /\ UNCHANGED <<db, job, venv, boards, active, daily, runs, faults, boots>>

(* preflight reads only; the record is a directory of its own. *)
Apply ==
    /\ pc = "off" /\ applies < MaxApplies
    /\ db = "old" /\ app.here = "old" /\ idle /\ Inactive
    /\ phase \notin Unfinished
    /\ phase' = "prepared" /\ wanted' = active
    /\ app' = [app EXCEPT !.next = "none"] /\ ver' = [ver EXCEPT !.next = "none"]
    /\ pc' = "copyApp" /\ cmd' = "apply" /\ applies' = applies + 1
    /\ UNCHANGED <<db, job, venv, boards, active, daily, runs, faults, boots>>

(* Copied one after the other, and then verified. *)
Grown(tree) == [tree EXCEPT !.next = IF @ = "none" THEN "part" ELSE "new"]

CopyApp ==
    /\ Step("copyApp", IF app.next = "part" THEN "copyVer" ELSE "copyApp")
    /\ app' = Grown(app)
    /\ UNCHANGED <<db, job, ver, venv, boards, active, daily, journal>>

CopyVer ==
    /\ Step("copyVer", IF ver.next = "part" THEN "stopTimer" ELSE "copyVer")
    /\ ver' = Grown(ver)
    /\ UNCHANGED <<db, job, app, venv, boards, active, daily, journal>>

-----------------------------------------------------------------------------
(* stop: the timer first, so that no run starts after the look for one.    *)

StopTimer ==
    /\ Step("stopTimer", "quiet")
    /\ active' = active \ {"timer"}
    /\ UNCHANGED <<db, job, files, daily, journal>>

Quiet == Require(Inactive /\ idle, "quiet", "stopWeb")

StopWeb ==
    /\ Step("stopWeb", "stopped")
    /\ active' = active \ {"web"}
    /\ UNCHANGED <<db, job, files, daily, journal>>

(* Once more; apply migrates then, recover goes on with what is committed. *)
Stopped ==
    Require(idle, "stopped", IF cmd = "apply" THEN "migrating" ELSE "commit")

-----------------------------------------------------------------------------
(* apply: the migration, by a child process.                               *)

Migrating ==
    /\ Step("migrating", "migrate")
    /\ phase' = "migrating"
    /\ UNCHANGED <<db, job, files, active, daily, wanted>>

Migrate ==
    /\ Step("migrate", "migrated")
    /\ job' = TRUE
    /\ UNCHANGED <<db, files, active, daily, journal>>

Migrated ==
    /\ ~job
    /\ \/ /\ db = "new" /\ Step("migrated", "commit")
          /\ UNCHANGED <<db, job, files, active, daily, journal>>
       \/ pc = "migrated" /\ db = "old" /\ Refuse

Committed ==
    /\ Step("commit", "activate")
    /\ phase' = "committed"
    /\ UNCHANGED <<db, job, files, active, daily, wanted>>

-----------------------------------------------------------------------------
(* activate: every rename only if its result is not there yet.             *)

Whole(tree) == tree.next # "part"

Activate == Require(Whole(app) /\ Whole(ver), "activate", "saveApp")

Saved(tree) == [tree EXCEPT !.previous = tree.here, !.here = "none"]

(* Mutant: the installed program is moved away whatever an earlier attempt *)
(* did; a rename onto a directory with files fails.                        *)
SaveAppAgain ==
    \/ /\ app.previous = "none"
       /\ Step("saveApp", "moveVenv")
       /\ app' = Saved(app)
       /\ UNCHANGED <<db, job, ver, venv, boards, active, daily, journal>>
    \/ pc = "saveApp" /\ app.previous # "none" /\ Refuse

SaveApp ==
    /\ Step("saveApp", "moveVenv")
    /\ app' = IF app.previous = "none" THEN Saved(app) ELSE app
    /\ UNCHANGED <<db, job, ver, venv, boards, active, daily, journal>>

MoveVenv ==
    /\ Step("moveVenv", "installApp")
    /\ venv' = IF app.here = "none" THEN "new" ELSE venv
    /\ UNCHANGED <<db, job, app, ver, boards, active, daily, journal>>

Moved(tree) == [tree EXCEPT !.here = tree.next, !.next = "none"]

(* The program that is activated is verified. *)
InstallApp ==
    /\ Step("installApp", "saveVer")
    /\ app' = IF app.here = "none" THEN Moved(app) ELSE app
    /\ UNCHANGED <<db, job, ver, venv, boards, active, daily, journal>>

SaveVer ==
    /\ Step("saveVer", "installVer")
    /\ ver' = IF ver.previous = "none" THEN Saved(ver) ELSE ver
    /\ UNCHANGED <<db, job, app, venv, boards, active, daily, journal>>

InstallVer ==
    /\ Step("installVer", "boards")
    /\ ver' = IF ver.here = "none" THEN Moved(ver) ELSE ver
    /\ UNCHANGED <<db, job, app, venv, boards, active, daily, journal>>

(* One file after the other, all of them in every attempt. *)
Boards ==
    /\ Step("boards", IF boards = "mixed" THEN "activated" ELSE "boards")
    /\ boards' = IF boards = "mixed" THEN "new" ELSE "mixed"
    /\ UNCHANGED <<db, job, app, ver, venv, active, daily, journal>>

Activated ==
    /\ Step("activated", "checks")
    /\ phase' = "activated"
    /\ UNCHANGED <<db, job, files, active, daily, wanted>>

-----------------------------------------------------------------------------
(* The end of activate, and of recover when nothing was migrated.          *)

(* The installed program finds its schema and its interpreter. *)
Checks == Require(Fits /\ venv = app.here, "checks", "startWeb")

StartWeb ==
    /\ Step("startWeb", "startTimer")
    /\ active' = active \cup (wanted \cap {"web"})
    /\ UNCHANGED <<db, job, files, daily, journal>>

StartTimer ==
    /\ Step("startTimer", "restored")
    /\ active' = active \cup (wanted \cap {"timer"})
    /\ UNCHANGED <<db, job, files, daily, journal>>

(* services refuses while the daily service is active. *)
Restored ==
    /\ pc = "restored"
    /\ \/ /\ Inactive /\ active = wanted
          /\ phase' = IF phase = "activated" THEN "complete" ELSE "rolled-back"
          /\ pc' = "off" /\ cmd' = "none"
          /\ UNCHANGED <<db, job, files, active, daily, wanted, bounds>>
       \/ ~(Inactive /\ active = wanted) /\ Refuse

-----------------------------------------------------------------------------
(* recover: by apply after an exception, or by the operator's resume.      *)

Handle == Require(db = "old", "handle", "recover")

Resume ==
    /\ pc = "off" /\ phase \in Unfinished
    /\ pc' = "recover" /\ cmd' = "resume"
    /\ UNCHANGED <<db, job, files, active, daily, journal, bounds>>

Recover == Require(idle, "recover", "receipt")

(* Mutant: the journal is believed instead of the database. *)
ReceiptFromJournal ==
    IF phase = "prepared" THEN Require(TRUE, "receipt", "checks")
                          ELSE Require(TRUE, "receipt", "stopTimer")

(* Without the new receipt, only while nothing was exchanged. *)
Receipt ==
    IF db = "old" THEN Require(app.previous = "none", "receipt", "checks")
                  ELSE Require(TRUE, "receipt", "stopTimer")

-----------------------------------------------------------------------------
(* A command fails, a signal arrives or a file cannot be written. *)
Interrupt ==
    /\ pc # "off" /\ faults < MaxFaults
    /\ Raised
    /\ faults' = faults + 1
    /\ UNCHANGED <<db, job, files, active, daily, journal, applies, runs, boots>>

Kill ==
    /\ pc # "off" /\ faults < MaxFaults
    /\ pc' = "off" /\ cmd' = "none"
    /\ faults' = faults + 1
    /\ UNCHANGED <<db, job, files, active, daily, journal, applies, runs, boots>>

Tool ==
    \/ CopyApp \/ CopyVer \/ StopTimer \/ Quiet \/ StopWeb \/ Stopped
    \/ Migrating \/ Migrate \/ Migrated \/ Committed
    \/ Activate \/ SaveApp \/ MoveVenv \/ InstallApp \/ SaveVer \/ InstallVer
    \/ Boards \/ Activated \/ Checks \/ StartWeb \/ StartTimer \/ Restored
    \/ Handle \/ Recover \/ Receipt

Next ==
    \/ Apply \/ Resume \/ Tool \/ Interrupt \/ Kill
    \/ RunStarts \/ RunBegins \/ RunEnds \/ RunDies
    \/ MigrationEnds \/ Reboot

Spec == Init /\ [][Next]_vars

(* Transactions and daily runs end, the tool goes on, and people resume a  *)
(* record that is not finished.                                            *)
FairSpec ==
    /\ Spec
    /\ WF_vars(Tool) /\ WF_vars(Resume)
    /\ WF_vars(MigrationEnds) /\ WF_vars(RunEnds)

-----------------------------------------------------------------------------
(* Properties.                                                             *)

Count(tree, v) == Cardinality({p \in DOMAIN tree : tree[p] = v})

(* The types. *)
TypeOK ==
    /\ db \in Version /\ job \in BOOLEAN
    /\ app \in Tree /\ ver \in Tree /\ venv \in Version
    /\ boards \in {"old", "mixed", "new"}
    /\ active \subseteq Unit
    /\ run \in {"off", "started", "begun"} /\ rows \subseteq {"run", "task"}
    /\ phase \in Unfinished \cup {"none", "complete", "rolled-back"}
    /\ wanted \subseteq Unit
    /\ cmd \in {"none", "apply", "handling", "resume"}

(* Whatever cuts the upgrade short: nothing is lost that the way on needs. *)
(* The old trees are somewhere, once; as long as the database is old they  *)
(* are the installed ones, environment included; as soon as it is new, the *)
(* new trees are somewhere whole.                                          *)
NothingLost ==
    /\ Count(app, "old") = 1 /\ Count(ver, "old") = 1
    /\ db = "old" => app.here = "old" /\ ver.here = "old" /\ venv = "old"
    /\ db = "new" => Count(app, "new") = 1 /\ Count(ver, "new") = 1

(* No unit is up and no daily run goes on beside a database that its       *)
(* program does not know, unless the machine was restarted.                *)
OnlyFitting == boots = 0 /\ (run # "off" \/ active # {}) => Fits

(* A record is closed only over an installation that is all new or all     *)
(* old, with the units as they were before the first attempt.              *)
ClosedIsTrue ==
    /\ phase = "complete" =>
          /\ db = "new" /\ app.here = "new" /\ ver.here = "new"
          /\ venv = "new" /\ boards = "new" /\ active = Unit
    /\ phase = "rolled-back" =>
          /\ db = "old" /\ app.here = "old" /\ ver.here = "old"
          /\ venv = "old" /\ boards = "old" /\ active = Unit

(* Every upgrade that was begun is completed or rolled back, if what says  *)
(* running of daily runs that died is put right by later runs: until then  *)
(* idle refuses, and with it every resume.                                 *)
UpgradeSettles ==
    []<>(rows = {}) => (phase \in Unfinished ~> phase \in {"complete", "rolled-back"})
=============================================================================
