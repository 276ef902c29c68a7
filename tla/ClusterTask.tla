---------------------------- MODULE ClusterTask ----------------------------
(***************************************************************************)
(* The cluster lease and what runs under it (sql_apm/storage/tasks.py,     *)
(* sql_apm/baseline/workflow.py, sql_apm/baseline/watchdog.py,             *)
(* sql_apm/storage/statistics.py, sql_apm/storage/publication.py).         *)
(*                                                                         *)
(* One cluster (scope).  Clusters share no row and no advisory lock of     *)
(* this protocol, so one is enough.  Every command is one process with one *)
(* PostgreSQL session; the session holds the cluster's advisory lock and   *)
(* carries all of the command's mutable writes.  A command may be killed,  *)
(* interrupted or lose its session between any two steps; a killed         *)
(* command's session lives on until the server notices, and a COMMIT that  *)
(* was already sent may still take effect in that time.  Each build has a  *)
(* watchdog process of its own, woken when the command's pipe closes.      *)
(*                                                                         *)
(* A command makes at most one task row, one build, one publication and    *)
(* one row of unfinished work (an import attempt of a full run, or a month *)
(* of a cleanup), so all of them are named by the command.                 *)
(***************************************************************************)
EXTENDS Naturals, FiniteSets

CONSTANTS
    Command,   \* command invocations; each runs at most once
    Mode,      \* what each command does
    Mortal,    \* the commands that may be killed or lose their session
    Tries,     \* how often the watchdog tries to reach the database
    None       \* no command

Modes == {"full", "import_only", "rebuild", "snapshot", "statistics", "cleanup"}

ASSUME CommandAssumption ==
    /\ None \notin Command
    /\ Mode \in [Command -> Modes]
    /\ Mortal \subseteq Command

ASSUME TriesAssumption == Tries \in Nat \ {0}

VARIABLES
    pc,        \* where each command's process is
    verdict,   \* how Task.__exit__ would finish the task row
    session,   \* the command's database session, as the server sees it
    lease,     \* the session that holds the cluster's advisory lock
    task,      \* task.state
    busyTask,  \* task.busy_task_id
    work,      \* the command's import_attempt or mpp_cleanup_month row
    build,     \* build.state of the build the command created
    saved,     \* build.results_saved
    problems,  \* rows of problem with level 'build' and block_publication
    checks,    \* the six build_check rows, as one
    draft,     \* the session's open transaction on a build, not committed yet
    result,    \* publication.result
    previous,  \* publication.previous_build_id
    current,   \* current_version.build_id
    watch,     \* the watchdog process of the command's build
    tries      \* failed attempts of that watchdog

process  == <<pc, verdict>>
server   == <<session, lease>>
taskRows == <<task, busyTask>>
buildRows == <<build, saved, problems, checks>>
pubRows  == <<result, previous, current>>
guards   == <<watch, tries>>
vars == <<pc, verdict, session, lease, task, busyTask, work, build, saved,
          problems, checks, draft, result, previous, current, watch, tries>>

-----------------------------------------------------------------------------
TaskStates  == {"none", "running", "succeeded", "failed", "interrupted", "busy_rejected"}
BuildStates == {"none", "running", "calculated", "failed", "interrupted"}
Results     == {"none", "published", "no_samples", "check_failed", "publish_failed"}
Verdicts    == {"succeeded", "failed", "interrupted"}

\* Inside the `with Task(...)` block and its __exit__.
Held == {"admitted", "working", "ready", "created", "calculating", "saving",
         "saved", "built", "checked", "publishing", "published", "leaving", "unlocking"}

PcStates == {"start", "registering", "broken", "dead", "gone"} \cup Held

\* Inside the try of StatisticsStore._calculate.
Calculating == {"created", "calculating", "saving", "saved"}

NoDraft == [kind |-> "none", result |-> "none", previous |-> None]
Drafts  == [kind : {"none", "save", "publish"}, result : Results,
            previous : Command \cup {None}]

TypeOK ==
    /\ pc \in [Command -> PcStates]
    /\ verdict \in [Command -> Verdicts]
    /\ session \in [Command -> {"none", "open", "orphan", "closed"}]
    /\ lease \in Command \cup {None}
    /\ task \in [Command -> TaskStates]
    /\ busyTask \in [Command -> Command \cup {None}]
    /\ work \in [Command -> {"none", "open", "succeeded", "failed", "interrupted"}]
    /\ build \in [Command -> BuildStates]
    /\ saved \in [Command -> BOOLEAN]
    /\ problems \in [Command -> Nat]
    /\ checks \in [Command -> {"none", "not_run", "passed", "failed"}]
    /\ draft \in [Command -> Drafts]
    /\ result \in [Command -> Results]
    /\ previous \in [Command -> Command \cup {None}]
    /\ current \in Command \cup {None}
    /\ watch \in [Command -> {"none", "watching", "awake", "done"}]
    /\ tries \in [Command -> 0 .. Tries]

Init ==
    /\ pc = [c \in Command |-> "start"]
    /\ verdict = [c \in Command |-> "succeeded"]
    /\ session = [c \in Command |-> "none"]
    /\ lease = None
    /\ task = [c \in Command |-> "none"]
    /\ busyTask = [c \in Command |-> None]
    /\ work = [c \in Command |-> "none"]
    /\ build = [c \in Command |-> "none"]
    /\ saved = [c \in Command |-> FALSE]
    /\ problems = [c \in Command |-> 0]
    /\ checks = [c \in Command |-> "none"]
    /\ draft = [c \in Command |-> NoDraft]
    /\ result = [c \in Command |-> "none"]
    /\ previous = [c \in Command |-> None]
    /\ current = None
    /\ watch = [c \in Command |-> "none"]
    /\ tries = [c \in Command |-> 0]

-----------------------------------------------------------------------------
(* Helpers.                                                                *)

Goto(c, place) == pc' = [pc EXCEPT ![c] = place]

\* The process is gone, and its own memory with it.
End(c, place) ==
    /\ Goto(c, place)
    /\ verdict' = [verdict EXCEPT ![c] = "succeeded"]

\* The lock goes with its session.
Release(c) == lease' = IF lease = c THEN None ELSE lease

\* Task.finish: only a row that still says running takes the outcome.
Finished(c, state) == IF task[c] = "running" THEN state ELSE task[c]

\* Mutant of PipeClosed: another process still holds the pipe's write end.
PipeHeldOpen(c) == UNCHANGED watch

\* The parent's end of the watchdog's pipe is closed: by the command, or by
\* the kernel when the command's process ends.
PipeClosed(c) ==
    watch' = IF watch[c] = "watching" THEN [watch EXCEPT ![c] = "awake"] ELSE watch

\* Mutant of FailBuild: no guard on the state.
FailBuildAnyway(c, state) ==
    /\ build' = [build EXCEPT ![c] = state]
    /\ saved' = [saved EXCEPT ![c] = FALSE]
    /\ problems' = [problems EXCEPT ![c] = @ + 1]

\* StatisticsStore._failure: only a build that is still running is ended, and
\* only then is the problem that blocks its publication recorded.
FailBuild(c, state) ==
    IF build[c] = "running"
    THEN /\ build' = [build EXCEPT ![c] = state]
         /\ saved' = [saved EXCEPT ![c] = FALSE]
         /\ problems' = [problems EXCEPT ![c] = @ + 1]
    ELSE UNCHANGED <<build, saved, problems>>

Running == {c \in Command : task[c] = "running"}

\* Mutant of Orphaned: every calculated build is taken for an orphan.
OrphanedOnceCalculated(c) == build[c] \in {"running", "calculated"}

\* The builds Task.recover ends: running ones, and calculated ones whose task
\* still says running and that no publication row names.
Orphaned(c) ==
    \/ build[c] = "running"
    \/ build[c] = "calculated" /\ task[c] = "running" /\ result[c] = "none"

\* Mutant of Abandoned: attempts are treated as cleanup months are.
AbandonedByRunningTask(c) == work[c] = "open" /\ task[c] = "running"

\* The unfinished rows Task.recover ends: every running import attempt, but
\* only those cleanup months whose task still says running.
Abandoned(c) ==
    work[c] = "open" /\ (Mode[c] = "cleanup" => task[c] = "running")

-----------------------------------------------------------------------------
(* Admission: Task.__enter__.                                              *)

\* The session takes the lock; the lock is visible before the transaction
\* that registers the task commits.
TryLock(c) ==
    /\ pc[c] = "start"
    /\ lease = None
    /\ Goto(c, "registering")
    /\ session' = [session EXCEPT ![c] = "open"]
    /\ lease' = c
    /\ UNCHANGED <<verdict, taskRows, work, buildRows, draft, pubRows, guards>>

\* The lock is taken: the refusal is recorded with the newest running task
\* if the lock's holder has registered, and the command ends.
Reject(c) ==
    /\ pc[c] = "start"
    /\ lease # None
    /\ End(c, "gone")
    /\ session' = [session EXCEPT ![c] = "closed"]
    /\ task' = [task EXCEPT ![c] = "busy_rejected"]
    /\ \/ \E owner \in Running : busyTask' = [busyTask EXCEPT ![c] = owner]
       \/ Running = {} /\ UNCHANGED busyTask
    /\ UNCHANGED <<lease, work, buildRows, draft, pubRows, guards>>

\* Task.recover and the new task's row, in one transaction.
Register(c) ==
    /\ pc[c] = "registering"
    /\ Goto(c, "admitted")
    /\ work' = [d \in Command |-> IF Abandoned(d) THEN "interrupted" ELSE work[d]]
    /\ build' = [d \in Command |-> IF Orphaned(d) THEN "interrupted" ELSE build[d]]
    /\ problems' = [d \in Command |-> IF Orphaned(d) THEN problems[d] + 1 ELSE problems[d]]
    /\ task' = [d \in Command |-> IF d = c THEN "running" ELSE Finished(d, "interrupted")]
    /\ UNCHANGED <<verdict, server, busyTask, saved, checks, draft, pubRows, guards>>

-----------------------------------------------------------------------------
(* Unfinished work: one import attempt, or one month of a cleanup.  What a *)
(* training snapshot writes is no part of this module.                     *)

\* Task.set_stage refuses to go on unless the task row still says running.
Stage(c) == task[c] = "running"

OpenWork(c) ==
    /\ pc[c] = "admitted"
    /\ Mode[c] \in {"full", "import_only", "cleanup"}
    /\ Stage(c)
    /\ Goto(c, "working")
    /\ work' = [work EXCEPT ![c] = "open"]
    /\ UNCHANGED <<verdict, server, taskRows, buildRows, draft, pubRows, guards>>

\* The attempt or month ends and says how.  A full run goes on only after a
\* complete import; an import alone and a cleanup go on to their end.
CloseWork(c) ==
    /\ pc[c] = "working"
    /\ \E state \in {"succeeded", "failed"} :
        /\ work' = [work EXCEPT ![c] = state]
        /\ verdict' = [verdict EXCEPT ![c] = state]
        /\ Goto(c, IF Mode[c] = "full" /\ state = "succeeded" THEN "ready" ELSE "leaving")
    /\ UNCHANGED <<server, taskRows, buildRows, draft, pubRows, guards>>

\* An interrupt is recorded on the row before it is passed on.
InterruptWork(c) ==
    /\ pc[c] = "working"
    /\ Goto(c, "leaving")
    /\ work' = [work EXCEPT ![c] = "interrupted"]
    /\ verdict' = [verdict EXCEPT ![c] = "interrupted"]
    /\ UNCHANGED <<server, taskRows, buildRows, draft, pubRows, guards>>

NothingToImport(c) ==
    /\ pc[c] = "admitted"
    /\ Mode[c] \in {"rebuild", "snapshot", "statistics"}
    /\ Goto(c, IF Mode[c] = "snapshot" THEN "leaving" ELSE "ready")
    /\ UNCHANGED <<verdict, server, taskRows, work, buildRows, draft, pubRows, guards>>

-----------------------------------------------------------------------------
(* The build: StatisticsStore._create and _calculate.                      *)

Create(c) ==
    /\ pc[c] = "ready"
    /\ Stage(c)
    /\ Goto(c, "created")
    /\ build' = [build EXCEPT ![c] = "running"]
    /\ checks' = [checks EXCEPT ![c] = "not_run"]
    /\ UNCHANGED <<verdict, server, taskRows, work, saved, problems, draft, pubRows, guards>>

SpawnWatchdog(c) ==
    /\ pc[c] = "created"
    /\ Goto(c, "calculating")
    /\ watch' = [watch EXCEPT ![c] = "watching"]
    /\ UNCHANGED <<verdict, server, taskRows, work, buildRows, draft, pubRows, tries>>

\* The last statement of the calculation has run; its transaction holds the
\* build's row lock and is not committed.
Save(c) ==
    /\ pc[c] = "calculating"
    /\ Goto(c, "saving")
    /\ draft' = [draft EXCEPT ![c] =
                     [kind |-> "save", result |-> "none", previous |-> None]]
    /\ UNCHANGED <<verdict, server, taskRows, work, buildRows, pubRows, guards>>

\* An error or an interrupt anywhere in the try; after the commit only an
\* interrupt is left.  The transaction is rolled back and _failure records the
\* end, unless recording fails too, which is swallowed.  The finally then
\* closes the watchdog's pipe.
FailCalculation(c) ==
    /\ pc[c] \in Calculating
    /\ \E state \in {"failed", "interrupted"} :
        /\ pc[c] = "saved" => state = "interrupted"
        /\ \/ FailBuild(c, state)
           \/ UNCHANGED <<build, saved, problems>>
        /\ verdict' = [verdict EXCEPT ![c] = state]
    /\ Goto(c, "leaving")
    /\ draft' = [draft EXCEPT ![c] = NoDraft]
    /\ PipeClosed(c)
    /\ UNCHANGED <<server, taskRows, work, checks, pubRows, tries>>

EndCalculation(c) ==
    /\ pc[c] = "saved"
    /\ Goto(c, IF Mode[c] = "statistics" THEN "leaving" ELSE "built")
    /\ PipeClosed(c)
    /\ UNCHANGED <<verdict, server, taskRows, work, buildRows, draft, pubRows, tries>>

-----------------------------------------------------------------------------
(* Checks and publication: PublicationStore.                               *)

Check(c) ==
    /\ pc[c] = "built"
    /\ Stage(c)
    /\ Goto(c, "checked")
    /\ \E outcome \in {"passed", "failed"} :
        checks' = [checks EXCEPT ![c] =
                      IF build[c] = "calculated" THEN outcome ELSE "not_run"]
    /\ UNCHANGED <<verdict, server, taskRows, work, build, saved, problems,
                   draft, pubRows, guards>>

\* Mutant of Publishable: the checks' outcome is not looked at.
PublishableUnchecked(c) == build[c] = "calculated" /\ saved[c]

Publishable(c) == build[c] = "calculated" /\ saved[c] /\ checks[c] = "passed"

\* The publishing transaction has read the build under its row lock and the
\* current version, and has written; it is not committed.
Publish(c) ==
    /\ pc[c] = "checked"
    /\ Stage(c)
    /\ Goto(c, "publishing")
    /\ \E r \in IF Publishable(c) THEN {"published", "no_samples"} ELSE {"check_failed"} :
        draft' = [draft EXCEPT ![c] =
                     [kind |-> "publish", result |-> r, previous |-> current]]
    /\ UNCHANGED <<verdict, server, taskRows, work, buildRows, pubRows, guards>>

\* Mutant of FailPublication: errors after the commit are caught too.
FailPublicationLate(c) ==
    /\ pc[c] \in {"publishing", "published"}
    /\ Goto(c, "published")
    /\ draft' = [draft EXCEPT ![c] = NoDraft]
    /\ result' = [result EXCEPT ![c] = "publish_failed"]
    /\ previous' = [previous EXCEPT ![c] = current]
    /\ task' = [task EXCEPT ![c] = Finished(c, "failed")]
    /\ verdict' = [verdict EXCEPT ![c] = "failed"]
    /\ UNCHANGED <<server, busyTask, work, buildRows, current, guards>>

\* Any error in the publishing transaction: roll back, then record
\* publish_failed together with the failed task.
FailPublication(c) ==
    /\ pc[c] = "publishing"
    /\ Goto(c, "published")
    /\ draft' = [draft EXCEPT ![c] = NoDraft]
    /\ result' = [result EXCEPT ![c] = "publish_failed"]
    /\ previous' = [previous EXCEPT ![c] = current]
    /\ task' = [task EXCEPT ![c] = Finished(c, "failed")]
    /\ verdict' = [verdict EXCEPT ![c] = "failed"]
    /\ UNCHANGED <<server, busyTask, work, buildRows, current, guards>>

-----------------------------------------------------------------------------
(* Commits of the two transactions above, by the server.                   *)

CommitSave(c) ==
    /\ draft[c].kind = "save"
    /\ build' = [build EXCEPT ![c] = "calculated"]
    /\ saved' = [saved EXCEPT ![c] = TRUE]
    /\ UNCHANGED <<task, pubRows>>

\* Mutant of CommitPublication: the task is left for __exit__ to finish.
CommitPublicationAlone(c) ==
    /\ draft[c].kind = "publish"
    /\ result' = [result EXCEPT ![c] = draft[c].result]
    /\ previous' = [previous EXCEPT ![c] = draft[c].previous]
    /\ current' = IF draft[c].result = "published" THEN c ELSE current
    /\ UNCHANGED <<build, saved, task>>

\* The publication, the pointer and the task's end are one transaction.
CommitPublication(c) ==
    /\ draft[c].kind = "publish"
    /\ result' = [result EXCEPT ![c] = draft[c].result]
    /\ previous' = [previous EXCEPT ![c] = draft[c].previous]
    /\ current' = IF draft[c].result = "published" THEN c ELSE current
    /\ task' = [task EXCEPT ![c] =
          Finished(c, IF draft[c].result = "check_failed" THEN "failed" ELSE "succeeded")]
    /\ UNCHANGED <<build, saved>>

CommitDraft(c) ==
    /\ CommitSave(c) \/ CommitPublication(c)
    /\ draft' = [draft EXCEPT ![c] = NoDraft]
    /\ UNCHANGED <<lease, busyTask, work, problems, checks, guards>>

\* The command sends COMMIT and lives to see the answer.
Commit(c) ==
    /\ pc[c] \in {"saving", "publishing"}
    /\ CommitDraft(c)
    /\ Goto(c, IF pc[c] = "saving" THEN "saved" ELSE "published")
    /\ verdict' = [verdict EXCEPT ![c] =
                      IF draft[c].result = "check_failed" THEN "failed" ELSE @]
    /\ UNCHANGED session

\* COMMIT was on its way when the command was killed.
OrphanCommit(c) ==
    /\ session[c] = "orphan"
    /\ CommitDraft(c)
    /\ UNCHANGED <<process, session>>

-----------------------------------------------------------------------------
(* The end of a command: Task.__exit__, errors, kills, lost sessions.      *)

\* Mutant of Raise: the open transaction is not rolled back.
RaiseKeepsDraft(c) ==
    /\ pc[c] \in {"admitted", "working", "ready", "built", "checked", "publishing", "published"}
    /\ \E state \in {"failed", "interrupted"} : verdict' = [verdict EXCEPT ![c] = state]
    /\ Goto(c, "leaving")
    /\ UNCHANGED <<server, taskRows, work, buildRows, draft, pubRows, guards>>

\* Outside the calculation and the work, an error or an interrupt rolls back
\* and goes straight to __exit__.
Raise(c) ==
    /\ pc[c] \in {"admitted", "working", "ready", "built", "checked", "publishing", "published"}
    /\ \E state \in {"failed", "interrupted"} : verdict' = [verdict EXCEPT ![c] = state]
    /\ Goto(c, "leaving")
    /\ draft' = [draft EXCEPT ![c] = NoDraft]
    /\ UNCHANGED <<server, taskRows, work, buildRows, pubRows, guards>>

Return(c) ==
    /\ pc[c] = "published"
    /\ Goto(c, "leaving")
    /\ UNCHANGED <<verdict, server, taskRows, work, buildRows, draft, pubRows, guards>>

\* The task row is finished, unless that fails: the lock is given back anyway.
FinishTask(c) ==
    /\ pc[c] = "leaving"
    /\ Goto(c, "unlocking")
    /\ \/ task' = [task EXCEPT ![c] = Finished(c, verdict[c])]
       \/ UNCHANGED task
    /\ UNCHANGED <<verdict, server, busyTask, work, buildRows, draft, pubRows, guards>>

\* Unlock, or close the connection when that fails; the command closes it next.
Unlock(c) ==
    /\ pc[c] = "unlocking"
    /\ End(c, "gone")
    /\ session' = [session EXCEPT ![c] = "closed"]
    /\ Release(c)
    /\ UNCHANGED <<taskRows, work, buildRows, draft, pubRows, guards>>

\* Registration fails: there is no __exit__, the connection is closed.
AbandonRegistration(c) ==
    /\ pc[c] = "registering"
    /\ End(c, "gone")
    /\ session' = [session EXCEPT ![c] = "closed"]
    /\ Release(c)
    /\ UNCHANGED <<taskRows, work, buildRows, draft, pubRows, guards>>

\* SIGKILL, or the host's end of the connection disappears with the process.
Kill(c) ==
    /\ c \in Mortal
    /\ pc[c] \in Held \cup {"registering"}
    /\ End(c, "dead")
    /\ session' = [session EXCEPT ![c] = "orphan"]
    /\ PipeClosed(c)
    /\ UNCHANGED <<lease, taskRows, work, buildRows, draft, pubRows, tries>>

\* Mutant of EndSession: the lock survives its session.
EndSessionKeepsLock(c) ==
    /\ session[c] = "orphan"
    /\ session' = [session EXCEPT ![c] = "closed"]
    /\ draft' = [draft EXCEPT ![c] = NoDraft]
    /\ UNCHANGED <<process, lease, taskRows, work, buildRows, pubRows, guards>>

\* The server notices that the client has gone (client_connection_check_interval):
\* what was not committed is rolled back, the lock is free.
EndSession(c) ==
    /\ session[c] = "orphan"
    /\ session' = [session EXCEPT ![c] = "closed"]
    /\ Release(c)
    /\ draft' = [draft EXCEPT ![c] = NoDraft]
    /\ UNCHANGED <<process, taskRows, work, buildRows, pubRows, guards>>

\* The session is lost under a living command.
Disconnect(c) ==
    /\ c \in Mortal
    /\ session[c] = "open"
    /\ Goto(c, "broken")
    /\ session' = [session EXCEPT ![c] = "closed"]
    /\ Release(c)
    /\ draft' = [draft EXCEPT ![c] = NoDraft]
    /\ UNCHANGED <<verdict, taskRows, work, buildRows, pubRows, guards>>

\* Whatever such a command tries to write fails; it never reconnects.
BrokenExit(c) ==
    /\ pc[c] = "broken"
    /\ End(c, "gone")
    /\ PipeClosed(c)
    /\ UNCHANGED <<server, taskRows, work, buildRows, draft, pubRows, tries>>

-----------------------------------------------------------------------------
(* The watchdog: a process and a connection of its own.                    *)

\* Its guarded update waits for the row lock of an open transaction.
WatchdogRecords(c) ==
    /\ watch[c] = "awake"
    /\ draft[c] = NoDraft
    /\ FailBuild(c, "interrupted")
    /\ watch' = [watch EXCEPT ![c] = "done"]
    /\ UNCHANGED <<process, server, taskRows, work, checks, draft, pubRows, tries>>

WatchdogFails(c) ==
    /\ watch[c] = "awake"
    /\ tries[c] < Tries
    /\ tries' = [tries EXCEPT ![c] = @ + 1]
    /\ watch' = [watch EXCEPT ![c] = IF tries[c] + 1 = Tries THEN "done" ELSE @]
    /\ UNCHANGED <<process, server, taskRows, work, buildRows, draft, pubRows>>

-----------------------------------------------------------------------------
\* What the command's own process does next when nothing goes wrong outside.
Step(c) ==
    \/ TryLock(c) \/ Reject(c) \/ Register(c) \/ AbandonRegistration(c)
    \/ OpenWork(c) \/ CloseWork(c) \/ InterruptWork(c) \/ NothingToImport(c)
    \/ Create(c) \/ SpawnWatchdog(c) \/ Save(c) \/ FailCalculation(c) \/ EndCalculation(c)
    \/ Check(c) \/ Publish(c) \/ FailPublication(c)
    \/ Commit(c) \/ Raise(c) \/ Return(c)
    \/ FinishTask(c) \/ Unlock(c) \/ BrokenExit(c)

Watchdog(c) == WatchdogRecords(c) \/ WatchdogFails(c)

Fault(c) == Kill(c) \/ Disconnect(c) \/ OrphanCommit(c)

Next == \E c \in Command : Step(c) \/ Watchdog(c) \/ Fault(c) \/ EndSession(c)

Spec == Init /\ [][Next]_vars

\* A started process keeps running, the server notices a dead client, and the
\* watchdog keeps trying.  Nothing makes anyone start a command.
Fairness ==
    \A c \in Command :
        /\ WF_vars(pc[c] # "start" /\ Step(c))
        /\ WF_vars(EndSession(c))
        /\ WF_vars(Watchdog(c))

FairSpec == Spec /\ Fairness

-----------------------------------------------------------------------------
(* Safety.                                                                 *)

\* A calculation or a publication is committed only while its own session
\* holds the cluster's lock: no transaction outlives the lease, whichever way
\* the command that began it ends (tasks.py: the lease and all mutable writes
\* share one session).
WritesUnderLease == \A c \in Command : draft[c] # NoDraft => lease = c

\* Once a command is registered and in control, nothing of another command is
\* still open: no running task, no running build, no running import attempt
\* and no transaction that could still commit (Task.recover).
AdmissionSettles ==
    \A c, d \in Command :
        lease = c /\ task[c] = "running" /\ d # c =>
            /\ task[d] # "running"
            /\ build[d] # "running"
            /\ work[d] = "open" => Mode[d] = "cleanup"
            /\ draft[d] = NoDraft

\* The current version is a build whose results are saved and whose checks
\* passed, published by a task that says it succeeded; no crash, interrupt or
\* recovery leaves the pointer on anything else (PublicationStore.publish).
CurrentVersionSound ==
    current # None =>
        /\ build[current] = "calculated"
        /\ saved[current]
        /\ checks[current] = "passed"
        /\ result[current] = "published"
        /\ task[current] = "succeeded"

\* The module's publications are those of the abstract version line.
Line == INSTANCE VersionLine WITH Build <- Command

\* The published versions form one line that ends at the current one, with no
\* version replaced twice and none lost.
LinearHistory == Line!LinearHistory

\* Every publication answers its build once, against the version that is
\* current when the answer is committed, not when it was read, and nothing
\* else ever moves the current version.
ImplementsVersionLine == Line!Spec

\* A build that ended without results has exactly one problem that blocks its
\* publication, whichever of the command, its watchdog and the next command's
\* recovery got to record it, and no other build has one.
OneBlockPerFailure ==
    \A c \in Command :
        problems[c] = IF build[c] \in {"failed", "interrupted"} THEN 1 ELSE 0

\* A full or rebuild task says it succeeded exactly when its publication was
\* committed as published or without samples: a kill after that commit does
\* not take it back, and nothing else makes a task succeed.
SuccessMeansPublished ==
    \A c \in Command :
        Mode[c] \in {"full", "rebuild"} =>
            (task[c] = "succeeded" <=> result[c] \in {"published", "no_samples"})

\* A build's end is final, with one exception: a calculated build is taken
\* back as interrupted, without having been published, after its session has
\* ended.  Results once saved stay saved (StatisticsStore._failure's guard and
\* Task.recover's conditions).
BuildEndsOnce ==
    [][\A c \in Command :
        /\ build'[c] # build[c] =>
              \/ build[c] \in {"none", "running"}
              \/ /\ build[c] = "calculated" /\ build'[c] = "interrupted"
                 /\ result[c] = "none" /\ session[c] = "closed"
        /\ saved[c] => saved'[c]]_vars

-----------------------------------------------------------------------------
(* What keeps the safety properties: the inductive invariant.              *)

\* Processes that run under the lease.
InControl == Held \cup {"registering"}

\* A process in control holds the lease through an open session, and so does
\* the session of a killed one; a transaction is open only in such a session.
LeaseInv ==
    \A c \in Command :
        /\ pc[c] \in InControl => session[c] = "open" /\ lease = c
        /\ session[c] = "orphan" => lease = c /\ pc[c] = "dead"
        /\ session[c] = "open" => lease = c
        /\ session[c] = "none" => pc[c] = "start"
        /\ draft[c] # NoDraft => pc[c] \in {"saving", "publishing"} \/ session[c] = "orphan"
        /\ pc[c] \in {"start", "registering"} => task[c] = "none"

\* The build is where the process in control left it.  The watchdog is asleep
\* while the command calculates, and shut out by the row lock of a draft.
BuildInv ==
    \A c \in Command :
        /\ pc[c] \in {"start", "registering", "admitted", "working", "ready"} =>
              build[c] = "none" /\ watch[c] = "none"
        /\ pc[c] \in {"created", "calculating"} => build[c] = "running"
        /\ pc[c] \in Calculating => watch[c] \in {"none", "watching"}
        /\ pc[c] = "saving" => draft[c].kind = "save"
        /\ pc[c] = "saved" => build[c] = "calculated"
        /\ draft[c].kind = "save" => build[c] = "running"
        /\ build[c] \in {"none", "running"} => ~saved[c]

\* An open publication is still the first answer to its build, against the
\* version that is still current, by a task that still runs.
DraftInv ==
    \A c \in Command :
        /\ pc[c] \in {"start", "registering", "admitted", "working", "ready", "created",
                      "calculating", "saving", "saved", "built", "checked"} => result[c] = "none"
        /\ pc[c] = "publishing" => draft[c].kind = "publish"
        /\ draft[c].kind = "none" => draft[c] = NoDraft
        /\ draft[c].kind = "publish" =>
              /\ draft[c].result \in {"published", "no_samples", "check_failed"}
              /\ draft[c].result # "check_failed" => Publishable(c)
              /\ draft[c].previous = current
              /\ result[c] = "none"
              /\ task[c] = "running"

\* Every published build is sound, not only the current one.
PublishedInv ==
    /\ current # None => result[current] = "published"
    /\ \A c \in Command : result[c] = "published" => Publishable(c)

\* A command that leaves with success on its lips has had its task finished
\* by its publication.
VerdictInv ==
    \A c \in Command :
        /\ result[c] \in {"published", "no_samples"} => task[c] = "succeeded"
        /\ Mode[c] \in {"full", "rebuild"} =>
              /\ task[c] = "succeeded" => result[c] \in {"published", "no_samples"}
              /\ pc[c] = "working" => Mode[c] = "full"
              /\ pc[c] = "published" => task[c] # "running"
              /\ pc[c] = "leaving" /\ verdict[c] = "succeeded" => task[c] # "running"

IInv ==
    /\ TypeOK /\ LeaseInv /\ BuildInv /\ DraftInv
    /\ OneBlockPerFailure /\ PublishedInv /\ VerdictInv /\ AdmissionSettles

-----------------------------------------------------------------------------
(* Liveness, under FairSpec.                                               *)

\* No command keeps the cluster for ever, killed, interrupted or cut off.
LeaseComesFree == \A c \in Command : lease = c ~> lease # c

\* A build that has a watchdog leaves "running" without waiting for another
\* command, unless every one of the watchdog's attempts fails.
WatchedBuildSettles ==
    \A c \in Command :
        build[c] = "running" /\ watch[c] # "none"
            ~> build[c] # "running" \/ tries[c] = Tries
=============================================================================
