# TLA+ project for sql-apm

sql-apm turns the CSV logs of an MPP database into an offline SQL baseline. Logs are
pushed, fetched and taken in by shell and Python tools, imported into PostgreSQL,
frozen into training snapshots, calculated into builds of statistics, checked, and
published; expired results and raw files are cleaned up; a daily run does all of this
unattended, and an installation is upgraded in place. This directory holds TLA+ modules
of the parts where order, crashes and concurrent actors decide whether the system is
correct, the TLC runs that check them on small instances, and proofs that TLAPS checks
for every instance.

    tlasany M.tla                              parse a module
    tlc -config X.cfg MC_M.tla                 check a run (the runs are listed below)
    tlapm M_proofs.tla                         check the proofs of a module

## 1. Inventory

| Component | State it keeps | Operations | Interacts through |
| --- | --- | --- | --- |
| Cluster lease and tasks (`storage/tasks.py`, `storage/ingestion.py: connect`) | session advisory lock per cluster; `task` | `Task.__enter__`, `recover`, `set_stage`, `finish`, `__exit__` | every command that writes a cluster runs inside it |
| Build and watchdog (`storage/statistics.py`, `baseline/watchdog.py`) | `build`, `problem`, partitioned result tables; a process with a pipe | `_create`, `_calculate`, `_failure`, watchdog `main` | the lease's session; the watchdog has a connection of its own |
| Checks and publication (`storage/publication.py`) | `build_check`, `publication`, `current_version` | `check`, `publish` | finishes the task in its own transaction |
| Workflow (`baseline/workflow.py`) | none | `run`: import, snapshot, build, check, publish | calls the above in order |
| Importer (`ingestion/importer.py`, `ingestion/mpp/persistence.py`) | `import_batch`, `batch_entry`, `import_attempt`, `source_file`, record tables | `register`, `observe`, `file`, `fail_file`, `_run` | the lease; the normalization pool; the file system |
| Log reader (`ingestion/mpp/reader.py`) | open starts per session, edges and digest of a file | `Interpreter.interpret`, `Records.__iter__` | called by the importer for each line |
| Normalization pool (`ingestion/normalizing.py`) | parser processes, pending inputs | `map`, `_send`, `close` | pipes, timeouts |
| Texts, fingerprints and query projections (`storage/ingestion.py: SqlWriter`, triggers of `schema.sql`) | `mpp_sql_text`, `mpp_fingerprint`, five derived tables | `resolve`, `write_records`, `mpp_query_refresh` at every COMMIT | an advisory lock that importers, training commands and people share |
| Training snapshot (`storage/training.py`, `training/config.py`) | `input_snapshot`, `config_snapshot`, the shared training cache | `snapshot`, `_prepare` | the lease, a lock per rule |
| Statistics and observations (`baseline/statistics.py`, `storage/observations.py`) | results of one build | pure calculations | called by the build |
| Result cleanup (`storage/cleanup.py`, `baseline/retention.py`) | `mpp_result_partition`, `mpp_cleanup_month`, group rows | `preview`, `execute`, `_remove_partitions`, `_remove_groups` | the lease; table locks against readers and other clusters' builds |
| Daily run (`daily/run.py`, `storage/daily.py`, `daily/inbox.py`, `daily/interrupt.py`) | `mpp_daily_run`, `mpp_daily_cluster`, `mpp_daily_problem`, `mpp_daily_file`; the receiving directory | `execute`, `_import`, `_build`, `_cleanup`, `_raw_files` | a session lock of its own, the lease, people who edit the directory, stop signals |
| Push, fetch, intake (`daily/*.sh`, `daily/intake_logs.py`) | files, `.part` files, push markers, day markers | scripts | files only |
| Upgrade (`scripts/deployment/upgrade.py`, `storage/migrate.sql`) | a journal, trees of programs, the schema's receipts, systemd units | `apply`, `resume`, `recover`, `activate`, `restore` | the migration's session, the timer, the services |
| Search and display (`service/`, `cli/`, Grafana) | none | queries | read the published version |
| SQL parsing and normalization (`sql/`) | none | pure functions over SQL text | called by the pool's processes |

What is hard in each of them is listed, with the line where it bites, under `hazards`
in PROJECT.json. In one sentence per component, correctness means:

- lease and tasks: one writer per cluster, whatever ends the writers; nothing of an
  ended command stays open once the next one is admitted; the cluster comes free;
- build and watchdog: every build ends, once, with its blocking problem exactly when
  it has no results;
- publication: the current version is always sound, and versions form one line;
- importer: a batch is complete exactly when every file of its frozen manifest is in;
- log reader: a duration is associated with the start of its own call or with none;
- normalization pool: every input gets its own answer, after at most one retry;
- projections: the derived tables are at every commit what the rows say;
- snapshot: what is frozen is what was there when it was frozen;
- result cleanup: never the current version's month; resumable; bounded waiting once
  it has looked at the months;
- daily run: what is open is what was last concluded; raw files go only when proven,
  are counted, and changes are reported;
- push, fetch, intake: a day's marker stands only beside the whole day;
- upgrade: always one way on, no program beside a schema it does not know.

## 2. Plan

Modelled, checked and, where a proof module is named, proved:

1. `VersionLine`, `ClusterTask`: `ClusterTask_proofs`;
2. `RawRemoval`: `RawRemoval_proofs`;
3. `Retention`, `ResultCleanup`: `ResultCleanup_proofs`;
4. `NormalizingPool`: `SqlWriter_proofs`;
5. `Importer`, `Association`: `Importer_proofs`;
6. `SealedDays`, `LogTransfer`: `LogTransfer_proofs`;
7. `DailyRun`: `DailyRun_proofs`;
8. `Upgrade`: `Upgrade_proofs`;
9. `QueryProjection`: `SqlWriter_proofs`.

`VersionLine`, `Retention` and `SealedDays` are the abstract specifications;
`ClusterTask`, `ResultCleanup` and `LogTransfer` are proved to implement them. None of
the modules declares a RECURSIVE operator, so all of them can be proved about.

Left, in the order of what it would add:

1. the thread of `daily/interrupt.py`, which repeats the cancel of the statement of a
   stopped run until the connection is idle;
2. the training snapshot, which selects twice and compares, and the shared cache with
   its lock per rule;
3. the decision rules and `classify` as operators against reference definitions.

## 3. Modules

Every module has its component's state as variables and one action per handler, step or
transaction; PROJECT.json's `map` names the lines of each definition. An operator with
`Mutant:` in its comment is a plausible mistake in the definition after it; no
specification uses it. It says what the property named for it in PROJECT.json protects
against. `SqlWriter_proofs` is about two components and `Importer_proofs` about an importer
and its reader, so the modules of the second ones have names of their own for what every
module has: `PoolInit`, `PoolNext`, `poolVars`, `stage` (for `pc`), `ReaderInit`, and so on.

### VersionLine: what publication promises

Abstract specification: builds are answered (`published`, `no_samples`,
`check_failed`, `publish_failed`) at most once; an answer names the version that was
current, and only `published` moves it. `LinearHistory` says what a reader of
`publication.previous_build_id` relies on: one chain, no version replaced twice, none
lost. `Answer` is `PublicationStore._record` with the update of `current_version`.

### ClusterTask: the lease and what runs under it

One cluster; each element of `Command` is one invocation of a command, with its
process, its PostgreSQL session, and the rows it may make. A command makes at most one
task, build, publication and unfinished row (an import attempt or a cleanup month), so
they share its name.

| Variables | Code |
| --- | --- |
| `pc`, `verdict` | the process: where it is in `Task`, `workflow.run`, `_calculate`, `publish`; what `__exit__` would write |
| `session`, `lease` | the session as the server sees it; who holds `pg_try_advisory_lock` |
| `task`, `busyTask` | `task.state`, `task.busy_task_id` |
| `work` | the row of an import attempt (full) or of a cleanup month (cleanup) |
| `build`, `saved`, `problems`, `checks` | `build.state`, `results_saved`, blocking `problem` rows, `build_check` |
| `draft` | an open transaction with a calculation or a publication, not committed |
| `result`, `previous`, `current` | `publication`, `current_version` |
| `watch`, `tries` | the watchdog process |

Every transaction is one action, except the two whose COMMIT may be in flight when the
process dies: `Save`/`Commit` and `Publish`/`Commit`, with `OrphanCommit` for the COMMIT
that takes effect after the kill. `Kill` leaves the session to the server until
`EndSession`; `Disconnect` takes the session from a living process; `Raise`,
`FailCalculation`, `FailPublication` and `InterruptWork` are the errors and interrupts
of the code. The watchdog waits for the row lock of an open transaction, as its
guarded UPDATE does. Statements inside a calculation, the six checks and the contents
of batches and snapshots are abstracted to their outcomes.

### RawRemoval: the raw files of one imported day

Runs follow one another (the daily session lock) and hold the cluster while they
delete, so one process writes `mpp_daily_file`. What interferes is the file system and
the end of a run between any two steps. `disk` and `marker` are the receiving
directory; `rows` are `mpp_daily_file` (stamp, removing, removed, cleared); `files` and
`days` are the sums of `raw_files` and `raw_days` over all runs; the rest is the
process: `listing` is its scan, `facts` its `known`, `todo` the rest of the loop it is
in, `seen` the opened file. A stamp stands for `_stamp()` and is new after every edit,
which is what the code relies on. `prove` is the argument of `_unchanged`; the actions
from `Begin` to `Compared` are `_unchanged`, called by the import step and again before
a deletion; those from `RawScan` to `DayGone` are `_raw_files` and `_remove_day`. The
look and the unlink of a file are two steps (`LookAgain`, `Unlink`), as in the code.
`unlinked`, `raced` and `calm` are history variables for the properties.

### Retention and ResultCleanup: expired results

`Retention` is the promise: the results of a build month go as a whole, only when they
have expired and are not those of the current version, and never come back.

`ResultCleanup` is `CleanupStore` of one cluster. A month stands for its row of
`mpp_result_partition`: `made`, `saved`, `leaves` (its two leaf tables exist), `cleaned`
and `done` (`cleaned_at`, `groups_cleaned_at`), `groups` (rows of the two group tables).
`pc`, `report`, `todo`, `at`, `removed`, `budget`, `table`, `last` and `failure` are the
process: `preview`, the loop over the months, `_remove_partitions` with its two
transactions (`RemovePartitions`, `Measure`), `_remove_groups` batch by batch, and
`_LockBudget`, which both share (`Wait`). `row` is `mpp_cleanup_month`, `outcome` the
task's state. Around it: builds that open and publish months (`BuildBegins`,
`BuildEnds`), readers that call `mpp_require_results` and then read (`ReadBegins`,
`Require`, `Read`), the locks of others (`Foreign`: `"shared"` as another cluster's build
takes them, against DDL and writes; `"exclusive"` as another cluster's cleanup or
maintenance holds them or queues for them, against every lock), the clock, and the faults
`Cancelled`, `MonthFails`, `Interrupted`, `Stopped`. What tries (`Wait`,
`RemovePartitions`, `RemoveGroups`) is told apart from what queues for ACCESS SHARE
without NOWAIT and without `lock_timeout`: the look at the months (`Preview`) and a
reader (`Require`). That a build queues as well is left out. `Isolation`
says whether a reader sees what was committed before its statement or before its
transaction; the code has both.

### NormalizingPool: parser processes

`map` as `Begin`, `Fill`, `Wait`, `Check`, `Return`: what was found readable (`ready`)
may be stale when a worker's turn comes (`check`), since restarting another one takes
time, in which answers come and timeouts pass. Per worker: `process`, `inbox` and
`outbox` (the two ends of its pipe), `pending` (index and attempt), `late`
(`timeout_seconds` have passed since it was sent), `calls`. Processes answer, fail
(`Reply`), die (`Die`) or hang (do nothing); `Interrupt` is an exception in `map`.
An answer is known by the input that it answers; `0` is an input of an earlier call.
`stage` is where `map` is.

### Importer: batches, attempts and entries

A file id stands for a content (`File`), as in the code, where it is a digest: the
content at a path changes when people write (`Write`, `Edit`), and a file read while it
is written gives `Torn`. `frozen` and `batch` are `import_batch`, `entry` the final
attempt of a `batch_entry`, `imported`, `stored`, `keys` the records; the rest is one
import: `members` (`successful_members`), `seen` (the observations), `at`, `linked`,
`failure`, `results`. Actions: `Register` (with recovery of what a dead import left and
the rejection of another manifest), `Observe` per path, `Current` with `MembersGone`,
`Attempt`, `Duplicate`, `FileFails`, `Import` (the transaction of a file with its
overlap check), `Reconcile` (which entries are dropped, what the batch becomes),
`ReadFails`, `ProcessingFails`, `Interrupted`, `Stopped`.

### Association: which start a duration belongs to

Sessions of the MPP master run calls (`Begin`, `End`, `EndUnheard`, `Fail`, and lines
that end nothing: `Phase`, `Internal`); each leaves its lines at once, since the reader
sees them in the order of the file. `pending` is `Interpreter.pending`, a set of starts
whose order of insertion is that of their `ref`, `event` what
`interpret` returned. `call`, `unheard` and the fields `whole` and `later` of a call are
the truth that the reader cannot see. `NextReader` is the new `Interpreter` of the next
file.

### SealedDays and LogTransfer: pushes, intake, fetch

`SealedDays` is the promise to the daily run: a day is sealed once, as a whole, as one
look at the master found it, and never changes again.

`LogTransfer` has the master's directory (`source`), pushes (`push-logs.sh`: `Start`,
`Copy`, `Publish`), their landing directories with the push marker last, the intake
(`Find`, `Take`, `BeginDay`, `Move`, `MarkDay`, `EndDays`, `Clean`, `UnlinkLog`,
`UnlinkMarker`) and the fetch (`FetchDay`, `FetchFile`, `FetchAgain`), on the receiving
directory (`inbox`, `sealed`). `CutPush`, `CutIntake` and `CutFetch` end them anywhere;
`Change` is rotation on the master after the day is over; `Age` makes a push expire.
Files are names with sizes, which is all the programs compare. Assumed, from the
runbook and the units: a plan runs once at a time, each push has a directory of its
own, intake and fetch are two `ExecStartPre` steps of one service, and people do not
edit the receiving directory meanwhile. Simplified: `Start` lists the source and empties
the remote directory in one step, where the script lists first; the days of the model are
over on both machines, so `date_not_before_today` does not occur.

### DailyRun: runs, turns and open problems

`runs` is the table of runs with their clusters and problems, `record`, `left`,
`failed`, `todo` and `plan` the process. A run gives every cluster its turn: import
(`Start`, `Scan`, `Compare`, `Import`, `DayDone`, `Imported`, `ImportDone`), `Build`,
`Cleanup`, raw files, then `Turn` and `Finish`; each step first puts its result into
the record in memory and then writes it, in another action. `Busy`, `Surprise`,
`Signal`, `Kill` and what follows them (`TurnAborted`, `RunAborted`) end a turn or a
run anywhere. `mpp_daily_problems` is translated as it is (`Since`, `DayVerdict`,
`OpenDay`, `StepVerdict`, `OpenStep`); `last` and `result` are histories of the last
conclusion, against which it is checked. What the directory shows is chosen at every
look from `Views`.

### Upgrade: the program and its schema

`db` and `job` are the schema's newest receipt and the migration's session; `app`,
`ver`, `venv` and `boards` the trees at their places (`here`, `previous`, `next`);
`active` the units; `phase` and `wanted` the journal. `run` is the daily service, which is
`"started"` before it has `"begun"` and written its row; `rows` is what says running in
`mpp_daily_run` and, of runs that died, in `task`. `idle` looks at `rows` and at sessions,
`Inactive` (`services`) at the service, as in the code. `Apply`, the steps of
the tool in `Tool`, `Resume` (which decides by the database and the directories),
`Handle` (the tool's own handler of errors), `Interrupt`, `Kill`; around them
`RunStarts` (by the timer, or by people where rows are left), `RunBegins`, `RunEnds`,
`RunDies`, `MigrationEnds`, `Reboot`. A run that begins ends the records of earlier ones
(`DailyStore.begin`); the task of an earlier one ends when the run is admitted to its
cluster (`Task.recover`), which need not happen in the next run. Assumed: a migration that was
started
is connected to the database, renames are durable in order, people reset failed units
and start daily runs as the service, and run no other command meanwhile. A
`Require` is a look of the tool that raises if it finds otherwise; those after the stop,
before the exchange, at its end and on `previous` never do here, where nobody but the tool
touches the trees.

### QueryProjection: texts, fingerprints, events, derived tables

Commands have connections with transactions of their own: `tx` holds the rows a
transaction put in and took out and, after its refresh, the derived tables as it wrote
them; `db` and `view` are committed; `lock` is the advisory lock. An importer has the
connection of the file (events, until the whole file is read) and that of the texts
(committed page by page), with `StartFile`, `Resolve`, `Lock`, `Write`, `RefreshSql`,
`CommitSql`, `Copy`, `RefreshFile`, `CommitFile`; a training command has `Select` and the same
writes under another rule; people correct rows. `Refreshed` translates
`mpp_query_refresh`, incremental as it is, and `Derived` is the computation from
nothing that `ProjectionIsExact` compares it with. The id of an event names its file and
its line (`EventAssumption`); the last page of a file is what is left when it has been
read, which may be nothing, and is written all the same.

## 4. Runs

| Run | Instance | Shows |
| --- | --- | --- |
| `cluster` | a rebuild and a full run, which is mortal; 2 watchdog attempts | no transaction outlives its lease; admission finds everything settled; the current version is sound; one blocking problem per failed build; success exactly with a committed publication; builds end once; refinement of `VersionLine`; the cluster comes free; a watched build leaves `running` |
| `raw_removal` | 3 files and a stray name, 2 edits, 3 early ends | only proven content is unlinked; the marker goes last; changes are reported; rows keep their CHECKs, and a quiet day is counted once and never taken for changed; a deletion is finished |
| `cleanup` | 2 build months, a clock of 4, retention of 1 or 2, one reader, 2 faults, a budget of 2 waits, batches of 1 row | a month's wait for locks is bounded; marks and record tell the truth; readers get all or `results_cleaned`; refinement of `Retention`; a cleanup that has looked at the months ends; what was begun is finished |
| `cleanup_snapshot` | the same with a REPEATABLE READ reader | a counterexample, see Findings |
| `pool` | 2 processes, 3 inputs per call, replaced after 2 | own answers, after two processes at most; an answer in time counts; calls end |
| `importer` | 2 batches over 2 paths, 3 contents of which 2 overlap, a named path, 1 edit, 1 fault | members stay; imported contents are distinct; complete is whole; batches settle |
| `association` | 3 calls of 4 sessions (one nameless), 2 texts (one announced), 2 moments, room for 2 starts | associations are true, and made where nothing is missing |
| `transfer` | 2 overlapping pushes, 3 files of 2 days, 2 sizes, 1 change, 1 cut | refinement of `SealedDays`; nothing unreceived goes; what a whole push offers is received |
| `daily` | 2 runs over 2 days, 2 disturbances, build switched off | open problems are the last conclusions; success is whole |
| `daily_forgotten` | the same instance | a counterexample, see Findings |
| `upgrade` | 2 attempts, 2 units, 2 daily runs, 3 faults, 1 restart | nothing is lost; only fitting programs are up; closed records are true; upgrades settle once rows of dead runs are put right |
| `projection` | 2 importers that share a text, a training command, people; 2 identifiers; 1 failure | derived tables are exact; texts are unique; writers end |

Bounds. `cluster`: two commands are enough for every pair of actors on one build (its
command, its watchdog, the next admission), since an admission needs an earlier command
and the rows of a command are touched only by itself, its watchdog and the admitted one;
more commands, other modes and both mortal are covered by the proofs. `Tries` stands for
the six attempts and matters only for how long a watchdog lives. `raw_removal`: two
edits can replace a file and put it back or touch two of {file, stray, marker}; three
early ends cut one deletion at three places. `cleanup`: two months are enough for one to
be expired while the other is protected or unfinished; a batch of one row and one key
per table give every place between two transactions of a month. `pool`: with two
processes one answers or times out while the other is restarted; three inputs give each
process a second one, and `CALLS` 2 replaces it in between. `importer`: two paths make an
alias, an exchange and a rename; the second batch meets what the first imported.
`association`: a start that was left over needs two calls of a session, an eviction
needs a third of another; four calls of three named sessions were also checked
(851,905 states). `transfer`: the two pushes overlap in the first day, and a day of two
files can be received in half. `daily`: the second run can look, not look, fail and be
cut at every place where the first concluded something. `upgrade`: three faults can cut
the tool, its resume and the second resume, or kill a daily run. `projection`: one identity in
two files, one
text of two events, one unreliable fingerprint. The `Max...` constants bound nothing but
the number of disturbances.

The runs `cluster`, `association`, `daily`, `upgrade` and `projection` end when their
commands, calls or runs are used up, so deadlock is not checked there; in the others,
which never stop, it is. Symmetry is used only in `association`, where no temporal
property is checked.

Type invariants are stated in every module. They, or as much of them as the proofs need,
are parts of the inductive invariants of section 5. None is repeated in the runs.

Fairness, and why the code justifies it:

- `cluster`: a started process keeps going (`WF` on its own next step); the server
  notices a dead client (`client_connection_check_interval`, 10 s by default; the
  property does not hold where an operator sets it to 0 and a statement runs on); the
  watchdog keeps trying. No one has to start a command, and nothing forces a failure.
  `WatchedBuildSettles` excuses a build all of whose watchdog attempts failed: the code
  leaves it to the next admission, which `AdmissionSettles` covers.
- `raw_removal`: runs are started every day and go on (systemd timer, `raw_files` not
  disabled, the cluster not busy for ever).
- `cleanup`: a cleanup goes on (`WF`), builds give the cluster back (`WF`), and the
  daily run submits a cleanup again and again, so that one is admitted once the cluster
  is free often enough (`SF`). A lock queue is served in order, so a look at the months
  whose turn comes again and again gets it (`SF` on `Preview`). No reader and no foreign
  lock has to end: `CleanupEnds` needs that only of exclusive locks, and only before the
  look, since the code gives that wait no bound; `CleanedIsFinished` is about what
  happens once nobody else locks the tables.
- `pool`: the parent runs and time passes (`WF` on `Late`); no process has to answer.
- `importer`: an import goes on; batches are submitted again by each daily run until
  they are complete, at a time when the cluster is free (`SF` on `Register`).
- `transfer`: the service starts daily, so an intake begins again and again (`SF` on
  `Find`, which is disabled while a fetch runs) and both go on; no push has to run.
- `upgrade`: the tool goes on, people resume a record that is not finished, transactions
  and daily runs end. Nobody has to apply, and neither the timer nor people have to start
  a run. So the rows of a run that died may stay, and then `idle` refuses every resume;
  `UpgradeSettles` has it as its condition that they do not stay (`[]<>(rows = {})`).
  Without the condition TLC finds the upgrade that never ends. `MaxRuns` keeps runs
  from being in the way of every resume; in the code people resume between the runs.
- `projection`: as long as some connection can go on, one does.

## 5. Proofs

Every safety property of the passing runs is a theorem for every value of the constants;
so are the three refinements. Each component has an inductive invariant (`IInv`, in
`SqlWriter_proofs` `PoolInv` and `Inv`, of the reader `ReaderInv`), because the
properties are not inductive by themselves; TLC checked it on the run's instance before
it was proved. One lemma per part of it, or per group of actions, shows that a step
keeps it; `Invariance` puts them together, and the theorems on single properties follow.
Nothing is assumed but the named ASSUMEs of the modules, which TLC evaluates in every
run. They bound types and numbers; six say a little more: `NoBatchAssumption` and
`NoneAssumption` that a mark for nothing is none of the things it could be taken for,
`MonthAssumption` that there is at least one month, `TransferAssumption` that there are
pushes and sizes at all, `EventAssumption` that an event is on one page of one file, and
`CommandAssumption` of `QueryProjection` that nobody is two of its commands.

`ClusterTask_proofs` proves every safety property of the run `cluster` for any set of
commands, any modes, any mortal commands and any number of attempts; statistics and
cleanup commands, three and more commands and several kills are covered by the proofs
and not by the run. That a publication's `previous` is current at its commit needs that
its session still holds the lease, and that needs to know where its process is. `IInv`
therefore adds `LeaseInv` (process, session and lease agree; a draft lives only in a
session that holds the lease), `BuildInv` (the build is where the process left it, the
watchdog is asleep or shut out), `DraftInv` (an open publication is still the first
answer, against the current version), `PublishedInv` and `VerdictInv`. `ImplementsLine`
maps every step to an `Answer` or a stutter of `VersionLine`. `LineIsLinear` proves
`LinearHistory` of that specification from `LineInv` (who published replaced what was
current then, so the current version is the only published one that nobody has
replaced), and `HistoryIsLinear` carries it over to the commands.

`RawRemoval_proofs` says of the three things that a run knows for how long they are worth
something: a stamp always (`StampInv`: it was given to one content), the facts from the
rows and the decision while the run works on the day (`FactsInv`, `DeletionInv`), the
listing as long as nobody has edited the directory since the run began (`CalmInv`).
`QuietInv` holds while nobody ever has: what is missing was deleted by runs, and counts
and rows differ at most by the file whose unlink is not yet recorded. `RowsExact`,
`OnlyImported`, `MarkerLast` and `ChangesReported` follow, for any files, stray names,
edits and early ends.

`ResultCleanup_proofs` rests on `ReportInv`: a cleanup decides once and acts on it while
the clock goes on, which is sound because the lease keeps builds out and time only makes
months older. `PlaceInv` says how far the month at hand is removed, `MarksInv` and
`RecordInv` what its marks and its row say, `WaitInv` that waits and budget add up to the
budget, `ReadInv` that a reader with the partition's lock keeps its month.
`WaitsAreBounded`, `RecordsAreTrue` and `RemovedForGood` follow, `RetentionIsImplemented`
maps every step to one of `Retention` or a stutter. `ReadCommittedReadsAreWhole` has the
hypothesis `Isolation = "read committed"`; without it the theorem is false, as the run
`cleanup_snapshot` shows.

`SqlWriter_proofs` is about what `SqlWriter` stands between, the processes that it asks
and the rows that it writes. The pipes of the processes carry no call numbers. `PipeInv`
is what makes that enough: a worker's pipes hold at most the input that it is waited for
or its answer, and nothing once it is not waited for, also between two calls. With
`CallInv` (an input is handed out to one worker, or settled) `AnswersAreOwn` and
`AnswersInTimeCount` follow for any number of inputs and any life of a process.

Its second part first says what a refresh does, without time: `RefreshIsExact`, that
`mpp_query_refresh` makes of exact tables, and of what a transaction put in and took
out, the exact tables of the rows after it. That is a matter of what an incremental
least, greatest and count may be taken from (`LeastMoves`, `GreatestMoves`,
`CountMoves`): a group that lost the row with its least value must be looked at again,
one that lost another need not. Then `Inv`, of any interleaving: a connection that is
about to commit a change holds the lock and has tables exact for what its commit makes
of the rows (`SqlInv`, `FileInv`), so what it refreshed from is what is still there; and
texts are put in under the lock by who looked for them again under it (`CacheInv` says
that nothing that an importer remembers is ever gone). `ProjectionsAreExact` and
`TextsStayUnique` follow, for any importers that share texts, any rules, edits and
failures.

`Importer_proofs`: an import decides by what it saw of all paths, by `members` and by
the results of this run. `DiskInv`, `RunInv`, `EntryInv`, `AttemptInv` and `ResultsInv`
say what these are worth to the rows of the batch. `MembersAreKept`, `NothingTwice` and
`CompleteWhole` (an action property: the step to complete, and every later one) follow
for any batches, lists, contents and overlaps. `AssociationsAreExact` is about the
reader of one file: it cannot see whether a line is missing, so `StartInv` says what it
can rely on all the same (a start is that of the call that runs in its session, unless a
call ended without a line, which makes the next start ambiguous), and `WholeInv` that a
start is driven out only by as many other sessions as the reader remembers.

`LogTransfer_proofs` has two chains. A list is always, day by day, something that a look
at the source found, from the plan to the manifest to what an intake reads (`FoundInv`)
and in a fetch (`FetchInv`). And a push with a manifest is done for good (`DoneInv`), so
that nobody but the intake touches its logs from the check to the deletion (`IntakeInv`).
`SealedDaysAreImplemented` maps every step to one of `SealedDays` or a stutter,
`OnlyReceivedIsDeleted` says what a deletion may meet.

`DailyRun_proofs`: the open problems are computed from the rows of all runs, the history
remembers only the last conclusion. `DayInv` connects them: no run after the last one
that concluded about a day has a row that says anything of it, and that run's row says
exactly what it concluded; `StepInv` is the same for the steps, but for those that a stop
cut off. Since a step first changes the record and then the row, `FreshInv` and `TurnInv`
say how far the row is behind. `ProblemsAreConclusions` follows, for any number of
clusters, days, runs and stops. `SuccessMeansAll` follows from `OverInv` and `HereInv`:
the turns that are over, and the one at hand up to where it is, did everything or the run
knows of a failure. The run `daily` has one cluster, with build switched off, for
`SuccessIsWhole`; several clusters and all steps are covered by this theorem.

`Upgrade_proofs`: `TreeInv` and `PhaseInv` say how far the trees can be exchanged in each
phase of the journal; that is all that a resume has to go on from. `PlaceInv` adds where
the tool is, `QuietInv` who can be up meanwhile. `NothingIsLost`, `OnlyFittingRuns`,
`ClosedRecordsAreTrue` and `CompleteIsFinal` follow, for any number of attempts, faults
and restarts.

Only model-checked are the liveness properties (`LeaseComesFree`, `WatchedBuildSettles`,
`DeletionFinishes`, `CleanupEnds`, `CleanedIsFinished`, `MapEnds`, `BatchSettles`,
`PushIsReceived`, `UpgradeSettles`, `WritersEnd`), because liveness under fairness and
ENABLED are beyond TLAPS's backends.

`ProblemsStay` is not a theorem: the run `daily_forgotten` refutes it.

## 6. Findings and observations

`cleanup_snapshot`: `mpp_require_results` waits for the partition's lock and then reads
`cleaned_at`. Search, fingerprint and sqlfind call it inside a REPEATABLE READ
transaction; when its snapshot is older than the cleanup's commit, `cleaned_at` is still
null for it, the leaf tables are gone, and the results of an older version come back
empty, where `docs/design/postgresql-storage.md:351` promises all of them or
`results_cleaned`. At READ COMMITTED (run `cleanup`) the promise holds.

`daily_forgotten`: a cleanup step that fails before it comes to any month hides what an
earlier run left pending: `mpp_daily_problems` takes the newest run whose
`cleanup_state` is not `not_reached`, whereas `docs/design/daily-run.md:89` and the
comment at `schema.sql:3272` say that a problem goes only when a later run has dealt
with it.

Noted while modelling, not counted as findings:

- recovery ends cleanup months only of tasks that still say running; a month whose
  failure could not be recorded stays `pending` when its task ends normally;
- a calculated build whose task ends by an error or an interrupt during the checks stays
  `calculated`, without a publication;
- recovery of a calculated build leaves `results_saved` true;
- `busy_task_id` is empty or an older task when the refusal races the registration of
  the lock's holder, as a comment in the code says;
- a run killed between the unlink of a raw file and its record, and the same file put
  back before the next run, lead to two deletions and one count
  (`docs/runbooks/daily-run.md:414` says that counts add up); files that people take away
  after the decision count as deleted, as the design says. `QuietDayIsExact` therefore
  speaks of days that nobody edits;
- two paths of a batch that have no origin keys and hold the same content share an
  entry. When the second changes while it is looked at, its failed attempt replaces the
  final attempt of the content that the first imported (`importer.py:207`); the next run
  does not count it as a member any more and the batch can become complete without it
  (`docs/design/log-ingestion.md:52`, `:55` say that a successful member does not go).
  With a confirmed name on the path, as in the run `importer`, the origin key prevents it;
- a cancel between the commit of a month's removal and the record of its duration is
  taken for a lock timeout, `lock_timeout` for a month whose tables are gone
  (`cleanup.py:185`, `docs/runbooks/daily-run.md:438`); the next cleanup finishes it;
- a stop signal between the result of a step in memory and its write
  (`daily/run.py:311`-`317`, `359`-`368`) records the result without its problems: `lost`
  in `DailyRun` names such steps, and `OpenIsLastConclusion` excuses them;
- a half-received day whose files changed on the master meanwhile stays
  `local_day_conflict` until people clear it; repeating a failed push into the same
  directory while the intake removes it as expired can lose files of the repetition;
- `LOCK_BUDGET` bounds what a month waits for. `preview`, which `execute` calls under the
  lease before it, queues for ACCESS SHARE on both parent tables without NOWAIT and
  without `lock_timeout` (`cleanup.py:51`): whoever keeps them exclusively, as VACUUM FULL
  or DDL in an open session do, holds the cleanup up with the cluster taken, until a stop
  signal cancels the statement. `docs/design/postgresql-storage.md:346` limits the budget
  to the months, so no document promises more;
- `idle` of the upgrade refuses while rows of `task` or `mpp_daily_run` say running, also
  when their process is gone (`upgrade.py:151`-`153`). If a daily run dies after the tool
  has stopped the timer, no run comes by itself to put its rows right, and every resume
  refuses until somebody starts one. The record stays safe, and open, meanwhile
  (`UpgradeSettles`);
- the upgrade stops units and does not disable them, so a restart of the machine after
  the migration's commit starts the old program on the new schema (`OnlyFitting` is
  limited to `boots = 0`);
- a fingerprint that was stored as unreliable, for instance after a timeout, is not
  replaced by a later reliable one (`ON CONFLICT DO NOTHING`).

## 7. Not modelled

Most of the repository's lines are the SQL of earlier schema versions with their
migrations, and the verification, deployment and dashboard scripts, which are tests of a
kind themselves; most of the rest is the SQL parser, the command line, the statistics
and the formatting of answers. None of these has state of its own and an order of steps
to get wrong, so the share of lines that the map covers stays small although every
component that keeps state is there.

- The SQL parser and the normalization rules: pure functions over text, which tests on
  texts fit better than a model checker.
- Statistics, observations and decision rules: formulas in floating point over one
  build's data, without state.
- The training snapshot: its two selections are compared by the code; everything they
  read but the shared cache is fixed by the lease. Fingerprints that it adds are in
  `QueryProjection`.
- `Interrupter` of the daily run: `DailyRun` has the signal and its effect at every
  place, not the thread that cancels statements.
- Search, fingerprint service, sqlfind, Grafana: reads of committed tables; the
  transaction in which they ask for results is in `ResultCleanup`.
- Events whose text is not complete: `sql_id` is null, they have no row in `mpp_sql_text`
  and none in the derived tables; `QueryProjection` has complete texts only.
- Of modelled components: statements inside a calculation and the six checks (outcomes
  only); TRUNCATE and rebuild of the projections, deletion of texts, short keys, success
  counts and timing types, revision and summary counters, eviction from the text cache;
  values, precision and segment lines in the reader; the plan's fields, symbolic links
  and several plans at once in the transfer; package verification, space checks and
  the migrations of earlier versions in the upgrade; several log sources of one cluster
  in the daily run.
- More than one cluster: clusters share no row and no lock but those of the texts and
  fingerprints (in `QueryProjection`), the parent tables (`Foreign` in `ResultCleanup`)
  and the shared training cache.
