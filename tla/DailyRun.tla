----------------------------- MODULE DailyRun -----------------------------
(***************************************************************************)
(* The records of the daily run and the list of open problems that is      *)
(* computed from them (sql_apm/daily/run.py: execute to _raw_files;        *)
(* sql_apm/storage/daily.py: the writes; sql_apm/storage/schema.sql:       *)
(* mpp_daily_runs, mpp_daily_problems).                                    *)
(*                                                                         *)
(* Runs follow each other, since each holds the session lock of the daily  *)
(* run.  A run takes the clusters in their order and each cluster through  *)
(* its steps: import, build, cleanup, raw files.  It keeps a record of the *)
(* cluster in memory and writes parts of it as it goes; at any point it    *)
(* may be killed, stopped by a signal, find the cluster taken, or meet an  *)
(* error.  Every cluster has one log source here.                          *)
(*                                                                         *)
(* What the directory holds is chosen anew at every look, since people     *)
(* change it as they like; how the imported files are compared and deleted *)
(* is in RawRemoval, the import in Importer, build and cleanup in          *)
(* ClusterTask and ResultCleanup.                                          *)
(***************************************************************************)
EXTENDS Naturals, Sequences, FiniteSetsExt

CONSTANTS
    Clusters,  \* how many clusters are configured
    Day,       \* the days of the directories, as numbers in their order
    Views,     \* how the directory may show each of them
    Off,       \* steps that are switched off in the configuration
    MaxRuns,   \* how many runs are started
    MaxStops   \* how many of them are killed, stopped or disturbed

ASSUME DayAssumption == Day \subseteq Nat /\ IsFiniteSet(Day)

ASSUME ViewAssumption ==
    Views \in [Day -> SUBSET {"gone", "unmarked", "empty", "early", "marked"}]

ASSUME OffAssumption == Off \subseteq {"build", "cleanup", "raw"}

ASSUME BoundAssumption == Clusters \in Nat /\ MaxRuns \in Nat /\ MaxStops \in Nat

VARIABLES
    runs,      \* mpp_daily_run with mpp_daily_cluster and mpp_daily_problem, oldest first
    complete,  \* the days of each cluster whose batch is complete
    pc, at,    \* where the process is, and the cluster whose turn it is
    record,    \* the run's `record` of that cluster, in memory
    left,      \* the problems the current step leaves, in memory
    failed,    \* whether any cluster so far failed
    todo,      \* days the current loop has not looked at yet
    plan,      \* days that are to be imported
    last,      \* history: what the newest run that looked at a day said of it
    result,    \* history: what the newest run that went through a step left there
    lost,      \* history: steps recorded as done without what they concluded
    stops

process == <<pc, at, record, left, failed, todo, plan>>
history == <<last, result, lost>>
vars == <<runs, complete, pc, at, record, left, failed, todo, plan, last, result, lost, stops>>

Cluster == 1 .. Clusters
Steps == {"build", "cleanup"}
Kinds == {"day_failed", "files_without_marker", "marker_without_files",
          "marker_not_before_today"}

StepKinds == {"build_not_succeeded", "cleanup_pending"}
Places == {"idle", "turn", "started", "scan", "days", "day", "imported", "build", "built",
           "cleanup", "cleaned", "raw", "remove", "ending", "aborting", "aborted"}

Records == [state : {"done", "skipped", "aborted"}, failed : BOOLEAN,
            import : {"not_reached", "incomplete", "done"},
            build : {"not_reached", "settled", "failed"},
            cleanup : {"not_reached", "settled", "pending", "failed"}]

TurnRows == [state : {"pending", "running", "done", "skipped", "aborted"},
             import : {"not_reached", "incomplete", "done"},
             build : {"not_reached", "settled", "failed"},
             cleanup : {"not_reached", "settled", "pending", "failed"},
             examined : SUBSET Day, found : SUBSET (Day \X Kinds), left : SUBSET StepKinds]

RunRows == [state : {"running", "unfinished", "aborted", "finished"},
            failed : BOOLEAN, turns : [Cluster -> TurnRows]]

Blank == [state |-> "done", failed |-> FALSE, import |-> "not_reached",
          build |-> "not_reached", cleanup |-> "not_reached"]

Pending == [state |-> "pending", import |-> "not_reached",
            build |-> "not_reached", cleanup |-> "not_reached",
            examined |-> {}, found |-> {}, left |-> {}]

Init ==
    /\ runs = << >>
    /\ complete = [c \in Cluster |-> {}]
    /\ pc = "idle" /\ at = 1
    /\ record = Blank /\ left = {} /\ failed = FALSE
    /\ todo = {} /\ plan = {}
    /\ last = [c \in Cluster |-> [d \in Day |-> [run |-> 0, said |-> {}]]]
    /\ result = [c \in Cluster |-> [s \in Steps |-> {}]]
    /\ lost = {}
    /\ stops = 0

-----------------------------------------------------------------------------
(* The writes of DailyStore.  Each is one transaction.                     *)

This == Len(runs)
Mine == runs[This].turns[at]

\* Nothing of the process is left.
Gone ==
    /\ pc' = "idle" /\ at' = 1
    /\ record' = Blank /\ left' = {} /\ failed' = FALSE
    /\ todo' = {} /\ plan' = {}

Write(turn) == runs' = [runs EXCEPT ![This].turns[at] = turn]

\* What the current run says about a day, beside what it said already.
Says(day, said) ==
    [last EXCEPT ![at][day] =
        [run |-> This, said |-> IF @.run = This THEN @.said \cup said ELSE said]]

Found(day, kinds) == {<<day, kind>> : kind \in kinds}

\* Mutant of Examined: the problem is written, that the day was looked at is not.
ExaminedIfFound(day, kinds) ==
    /\ Write([Mine EXCEPT !.examined = IF kinds = {} THEN @ ELSE @ \cup {day},
                          !.found = @ \cup Found(day, kinds)])
    /\ last' = Says(day, kinds)

\* That a day was looked at and what is wrong with it, together.
Examined(day, kinds) ==
    /\ Write([Mine EXCEPT !.examined = @ \cup {day}, !.found = @ \cup Found(day, kinds)])
    /\ last' = Says(day, kinds)

\* A run that has imported everything has looked at every day: at those that it
\* did not list there is nothing any more.
Whole ==
    last' = [last EXCEPT ![at] =
        [d \in Day |-> IF d \in Mine.examined THEN @[d] ELSE [run |-> This, said |-> {}]]]

\* The result of a step and its problems.
StepDone(step) ==
    /\ Write([Mine EXCEPT ![step] = record[step], !.left = @ \cup left])
    /\ result' = [result EXCEPT ![at][step] = left]
    /\ lost' = lost \ {<<at, step>>}

\* The whole record, whatever of it had been written before.
FinishedTurn(turn) ==
    [turn EXCEPT !.state = record.state, !.import = record.import,
                 !.build = record.build, !.cleanup = record.cleanup]

\* DailyStore.cluster_finished.
ClusterFinished ==
    /\ Write(FinishedTurn(Mine))
    /\ IF record.import = "done" /\ Mine.import # "done" THEN Whole ELSE UNCHANGED last
    /\ UNCHANGED result
    /\ lost' = lost \cup {<<at, s>> : s \in {s \in Steps : record[s] # Mine[s]}}

-----------------------------------------------------------------------------
(* A run.                                                                  *)

\* The lock is held, so a row that is still running has lost its owner.
Begin ==
    /\ pc = "idle" /\ This < MaxRuns
    /\ runs' = Append(
          [n \in 1 .. This |-> IF runs[n].state = "running"
                               THEN [runs[n] EXCEPT !.state = "unfinished"] ELSE runs[n]],
          [state |-> "running", failed |-> FALSE, turns |-> [c \in Cluster |-> Pending]])
    /\ pc' = "turn"
    /\ UNCHANGED <<complete, at, record, left, failed, todo, plan, history, stops>>

Start ==
    /\ pc = "turn" /\ at <= Clusters
    /\ Write([Mine EXCEPT !.state = "running"])
    /\ pc' = "started"
    /\ UNCHANGED <<complete, at, record, left, failed, todo, plan, history, stops>>

Incomplete ==
    /\ pc = "started"
    /\ record' = [record EXCEPT !.import = "incomplete"]
    /\ Write([Mine EXCEPT !.import = "incomplete"])
    /\ pc' = "scan"
    /\ UNCHANGED <<complete, at, left, failed, todo, plan, history, stops>>

\* inbox.classify, for the days that are a problem as they lie there.
SeenKind(view) ==
    CASE view = "early" -> "marker_not_before_today"
      [] view = "unmarked" -> "files_without_marker"
      [] view = "empty" -> "marker_without_files"

\* The directory is scanned.  What is wrong with days that need no closer look is
\* written at once; imported days are to be compared, the others imported.
Scan ==
    /\ pc = "scan"
    /\ \E view \in {v \in [Day -> UNION {Views[d] : d \in Day}] : \A d \in Day : v[d] \in Views[d]} :
        LET imported == {d \in complete[at] : view[d] \in {"marked", "empty"}}
            pending  == {d \in Day \ complete[at] : view[d] = "marked"}
            seen     == {d \in Day : view[d] # "gone"} \ (imported \cup pending)
        IN  /\ Write([Mine EXCEPT !.examined = @ \cup seen,
                                  !.found = @ \cup {<<d, SeenKind(view[d])>> : d \in seen}])
            /\ last' = [last EXCEPT ![at] = [d \in Day |->
                  IF d \in seen THEN [run |-> This, said |-> {SeenKind(view[d])}] ELSE @[d]]]
            /\ todo' = imported /\ plan' = pending
    /\ pc' = "days"
    /\ UNCHANGED <<complete, at, record, left, failed, result, lost, stops>>

\* Is an imported day still what was imported?
Compare ==
    /\ pc = "days" /\ todo # {}
    /\ \E changed \in BOOLEAN :
        /\ Examined(Min(todo), IF changed THEN {"day_failed"} ELSE {})
        /\ record' = [record EXCEPT !.failed = @ \/ changed]
    /\ todo' = todo \ {Min(todo)}
    /\ UNCHANGED <<complete, pc, at, left, failed, plan, result, lost, stops>>

\* The importer commits or refuses the batch of the next day.
Import ==
    /\ pc = "days" /\ todo = {} /\ plan # {}
    /\ \E whole \in BOOLEAN :
        complete' = IF whole THEN [complete EXCEPT ![at] = @ \cup {Min(plan)}] ELSE complete
    /\ pc' = "day"
    /\ UNCHANGED <<runs, at, record, left, failed, todo, plan, history, stops>>

\* The day is recorded: imported and read again as it was imported, or not.
DayDone ==
    /\ pc = "day"
    /\ \E fine \in BOOLEAN :
        /\ fine => Min(plan) \in complete[at]
        /\ Examined(Min(plan), IF fine THEN {} ELSE {"day_failed"})
        /\ record' = [record EXCEPT !.failed = @ \/ ~fine]
    /\ plan' = plan \ {Min(plan)}
    /\ pc' = "days"
    /\ UNCHANGED <<complete, at, left, failed, todo, result, lost, stops>>

Imported ==
    /\ pc = "days" /\ todo = {} /\ plan = {}
    /\ record' = [record EXCEPT !.import = "done"]
    /\ pc' = "imported"
    /\ UNCHANGED <<runs, complete, at, left, failed, todo, plan, history, stops>>

ImportDone ==
    /\ pc = "imported"
    /\ Write([Mine EXCEPT !.import = "done"])
    /\ Whole
    /\ pc' = "build"
    /\ UNCHANGED <<complete, at, record, left, failed, todo, plan, result, lost, stops>>

\* Not due, or built and published, or not.
Build ==
    /\ pc = "build"
    /\ \E state \in IF "build" \in Off THEN {"settled"} ELSE {"settled", "failed"} :
        /\ record' = [record EXCEPT !.build = state, !.failed = @ \/ state = "failed"]
        /\ left' = IF state = "failed" THEN {"build_not_succeeded"} ELSE {}
    /\ pc' = "built"
    /\ UNCHANGED <<runs, complete, at, failed, todo, plan, history, stops>>

BuildDone ==
    /\ pc = "built"
    /\ StepDone("build")
    /\ left' = {}
    /\ pc' = "cleanup"
    /\ UNCHANGED <<complete, at, record, failed, todo, plan, last, stops>>

\* Months may wait for their locks or be broken; or the step fails before it
\* comes to any month.
Cleanup ==
    /\ pc = "cleanup"
    /\ \E state \in IF "cleanup" \in Off THEN {"settled"} ELSE {"settled", "pending", "failed"} :
        /\ record' = [record EXCEPT !.cleanup = state, !.failed = @ \/ state = "failed"]
        /\ \/ state # "settled" /\ left' = {"cleanup_pending"}
           \/ state # "pending" /\ left' = {}
    /\ pc' = "cleaned"
    /\ UNCHANGED <<runs, complete, at, failed, todo, plan, history, stops>>

CleanupDone ==
    /\ pc = "cleaned"
    /\ StepDone("cleanup")
    /\ left' = {}
    /\ pc' = "raw"
    /\ UNCHANGED <<complete, at, record, failed, todo, plan, last, stops>>

\* The imported days that are marked, and old enough or begun.
RawScan ==
    /\ pc = "raw"
    /\ todo' \in IF "raw" \in Off THEN {{}} ELSE SUBSET complete[at]
    /\ pc' = "remove"
    /\ UNCHANGED <<runs, complete, at, record, left, failed, plan, history, stops>>

\* A day that is not what was imported stays, and is a problem unless the run
\* has said so already.
Remove ==
    /\ pc = "remove" /\ todo # {}
    /\ \/ UNCHANGED <<runs, record, last>>
       \/ /\ record' = [record EXCEPT !.failed = TRUE]
          /\ IF <<Min(todo), "day_failed">> \in Mine.found
             THEN UNCHANGED <<runs, last>> ELSE Examined(Min(todo), {"day_failed"})
    /\ todo' = todo \ {Min(todo)}
    /\ UNCHANGED <<complete, pc, at, left, failed, plan, result, lost, stops>>

Removed ==
    /\ pc = "remove" /\ todo = {}
    /\ pc' = "ending"
    /\ UNCHANGED <<runs, complete, at, record, left, failed, todo, plan, history, stops>>

\* The turn is over.
Turn ==
    /\ pc = "ending"
    /\ ClusterFinished
    /\ failed' = (failed \/ record.failed)
    /\ at' = at + 1
    /\ record' = Blank /\ left' = {} /\ todo' = {} /\ plan' = {}
    /\ pc' = "turn"
    /\ UNCHANGED <<complete, stops>>

Finish ==
    /\ pc = "turn" /\ at > Clusters
    /\ runs' = [runs EXCEPT ![This].state = "finished", ![This].failed = failed]
    /\ Gone
    /\ UNCHANGED <<complete, history, stops>>

Run ==
    \/ Start \/ Incomplete \/ Scan \/ Compare \/ Import \/ DayDone \/ Imported \/ ImportDone
    \/ Build \/ BuildDone \/ Cleanup \/ CleanupDone \/ RawScan \/ Remove \/ Removed
    \/ Turn \/ Finish

-----------------------------------------------------------------------------
(* What interferes.                                                        *)

Stops == stops < MaxStops /\ stops' = stops + 1

InTurn == pc \notin {"idle", "turn", "ending", "aborting", "aborted"}

\* Mutant of Busy: a skipped cluster is not a failure.
BusyQuietly ==
    /\ Stops
    /\ pc \in {"started", "build", "cleanup", "raw"} \/ (pc = "days" /\ todo = {} /\ plan # {})
    /\ record' = [record EXCEPT !.state = "skipped"]
    /\ pc' = "ending"
    /\ UNCHANGED <<runs, complete, at, left, failed, todo, plan, history>>

\* Someone else has the cluster: before the turn, or where a step wants it.
Busy ==
    /\ Stops
    /\ pc \in {"started", "build", "cleanup", "raw"} \/ (pc = "days" /\ todo = {} /\ plan # {})
    /\ record' = [record EXCEPT !.state = "skipped", !.failed = TRUE]
    /\ pc' = "ending"
    /\ UNCHANGED <<runs, complete, at, left, failed, todo, plan, history>>

\* Any other exception costs the cluster the rest of its turn.
Surprise ==
    /\ Stops
    /\ InTurn
    /\ record' = [record EXCEPT !.failed = TRUE]
    /\ pc' = "ending"
    /\ UNCHANGED <<runs, complete, at, left, failed, todo, plan, history>>

\* A stop signal: within the turn the record is written as aborted; between the
\* turns, or while one is being closed, only the run is.
Signal ==
    /\ Stops
    /\ pc \notin {"idle", "aborting", "aborted"}
    /\ pc = "turn" => at <= Clusters
    /\ IF InTurn
       THEN record' = [record EXCEPT !.state = "aborted"] /\ pc' = "aborting"
       ELSE UNCHANGED record /\ pc' = "aborted"
    /\ UNCHANGED <<runs, complete, at, left, failed, todo, plan, history>>

TurnAborted ==
    /\ pc = "aborting"
    /\ ClusterFinished
    /\ pc' = "aborted"
    /\ UNCHANGED <<complete, at, record, left, failed, todo, plan, stops>>

RunAborted ==
    /\ pc = "aborted"
    /\ runs' = [runs EXCEPT ![This].state = "aborted"]
    /\ Gone
    /\ UNCHANGED <<complete, history, stops>>

\* The process is killed; its rows stay as they are.
Kill ==
    /\ Stops
    /\ pc # "idle"
    /\ Gone
    /\ UNCHANGED <<runs, complete, history>>

Next == Begin \/ Run \/ Busy \/ Surprise \/ Signal \/ TurnAborted \/ RunAborted \/ Kill

Spec == Init /\ [][Next]_vars

-----------------------------------------------------------------------------
(* mpp_daily_problems: the open problems, computed from the records.       *)

Turns(c) == [n \in 1 .. This |-> runs[n].turns[c]]

\* The newest of some runs, 0 when there is none.
Newest(ns) == IF ns = {} THEN 0 ELSE Max(ns)

\* The newest run that finished its import step, and the runs after it.
Since(c) ==
    {n \in 1 .. This : n >= Newest({w \in 1 .. This : Turns(c)[w].import = "done"})}

KindsFound(c, n, d) == {k \in Kinds : <<d, k>> \in Turns(c)[n].found}

DayVerdict(c, d) ==
    Newest({n \in Since(c) : \/ Turns(c)[n].import = "done"
                             \/ d \in Turns(c)[n].examined
                             \/ KindsFound(c, n, d) # {}})

OpenDay(c, d) ==
    IF \E n \in Since(c) : KindsFound(c, n, d) # {}
    THEN KindsFound(c, DayVerdict(c, d), d) ELSE {}

StepVerdict(c, s) == Newest({n \in 1 .. This : Turns(c)[n][s] # "not_reached"})

StepKind(s) == IF s = "build" THEN "build_not_succeeded" ELSE "cleanup_pending"

OpenStep(c, s) ==
    IF StepVerdict(c, s) = 0 THEN {} ELSE Turns(c)[StepVerdict(c, s)].left \cap {StepKind(s)}

-----------------------------------------------------------------------------
(* Properties.                                                             *)

\* Every variable keeps its type; only the newest run can still be running,
\* and only while its process is there or until the next one begins.
TypeOK ==
    /\ runs \in Seq(RunRows) /\ This <= MaxRuns
    /\ \A n \in 1 .. This : runs[n].state = "running" => n = This
    /\ complete \in [Cluster -> SUBSET Day]
    /\ pc \in Places
    /\ pc # "idle" => This > 0 /\ runs[This].state = "running"
    /\ at \in 1 .. Clusters + 1
    /\ record \in Records
    /\ left \in SUBSET StepKinds /\ failed \in BOOLEAN
    /\ todo \subseteq Day /\ plan \subseteq Day
    /\ last \in [Cluster -> [Day -> [run : 0 .. MaxRuns, said : SUBSET Kinds]]]
    /\ result \in [Cluster -> [Steps -> SUBSET StepKinds]]
    /\ lost \subseteq Cluster \X Steps
    /\ stops \in 0 .. MaxStops

\* The open problems are always what the newest look at each day concluded, and
\* what the newest run that went through a step concluded there, however many
\* runs were killed, stopped, skipped or disturbed before and after; but for a
\* step whose record was cut off from its problems.
OpenIsLastConclusion ==
    \A c \in Cluster :
        /\ \A d \in Day : OpenDay(c, d) = last[c][d].said
        /\ \A s \in Steps : <<c, s>> \in lost \/ OpenStep(c, s) = result[c][s]

\* A run that finished without a failure has had its turn with every cluster,
\* imported every day it found whole, and neither failed to build nor to clean.
SuccessIsWhole ==
    \A n \in 1 .. This :
        runs[n].state = "finished" /\ ~runs[n].failed =>
            \A c \in Cluster :
                LET turn == runs[n].turns[c] IN
                /\ turn.state = "done" /\ turn.import = "done"
                /\ turn.build = "settled" /\ turn.cleanup \in {"settled", "pending"}
                /\ \A d \in Day : <<d, "day_failed">> \notin turn.found

\* What the design says: a problem goes only when a later run has dealt with it,
\* not when one failed to.
ProblemsStay ==
    [][\A c \in Cluster :
        "cleanup_pending" \in OpenStep(c, "cleanup") /\ OpenStep(c, "cleanup")' = {}
            => record.cleanup = "settled"]_vars
=============================================================================
