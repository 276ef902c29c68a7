--------------------------- MODULE ResultCleanup ---------------------------
(***************************************************************************)
(* The removal of expired results of one cluster                           *)
(* (sql_apm/storage/cleanup.py; mpp_result_partition, mpp_cleanup_month    *)
(* and mpp_require_results of sql_apm/storage/schema.sql).                 *)
(*                                                                         *)
(* One command at a time holds the cluster (module ClusterTask): a cleanup *)
(* or a build.  What holds no lease interferes: readers of results, builds *)
(* of other clusters and maintenance that lock the shared parent tables,   *)
(* the clock, and the end of the cleanup between any two steps.            *)
(*                                                                         *)
(* A month stands for its row of mpp_result_partition.  The group rows of  *)
(* a month are the keys 1 .. Keys in each of the two group tables.         *)
(***************************************************************************)
EXTENDS Integers, FiniteSets, FiniteSetsExt

CONSTANTS
    Months,    \* the months with builds, numbered one after the other
    LastMonth, \* bound of the clock
    Keeps,     \* the numbers of whole months a configuration may retain
    Keys,      \* group rows of a month in each group table
    CHUNK,     \* group rows removed by one transaction
    BUDGET,    \* LOCK_BUDGET, in attempts of the shortest duration
    Reader,    \* sessions that read results
    Isolation, \* of the readers: "read committed" or "repeatable read"
    MaxFaults  \* how often the cleanup is cancelled, fails or is stopped

ASSUME MonthAssumption ==
    /\ Months \subseteq Nat
    /\ \E latest \in Months : Months = 1 .. latest
    /\ LastMonth \in Nat \ {0} /\ Months \subseteq 1 .. LastMonth

ASSUME CleanupAssumption ==
    /\ Keeps \subseteq Nat \ {0}
    /\ Keys \in Nat
    /\ CHUNK \in Nat \ {0}
    /\ BUDGET \in Nat \ {0}
    /\ MaxFaults \in Nat
    /\ Isolation \in {"read committed", "repeatable read"}

VARIABLES
    clock,     \* the month of the database clock
    version,   \* build month of the current version, 0 without one
    made,      \* months with a row in mpp_result_partition
    saved,     \* months with a build that saved its results
    leaves,    \* months whose two leaf tables exist
    cleaned,   \* months with cleaned_at
    done,      \* months with groups_cleaned_at
    groups,    \* the group rows of a month, per table
    lease,     \* who holds the cluster: "free", "build" or "cleanup"
    building,  \* build month of the running build
    foreign,   \* how others lock the tables, or wait to: see Foreign
    row,       \* mpp_cleanup_month of the last cleanup
    outcome,   \* state of the last cleanup's task
    pc, report, todo, at, removed, budget, table, last, failure,
    waited,    \* lock waits of the month at hand, in units of BUDGET
    reading,   \* the readers
    faults

catalog == <<clock, version, made, saved, building>>
data    == <<leaves, cleaned, done, groups>>
locals  == <<report, todo, at, removed, budget, table, last, failure, waited>>
process == <<pc, locals>>
vars == <<clock, version, made, saved, leaves, cleaned, done, groups, lease,
          building, foreign, row, outcome, pc, report, todo, at, removed,
          budget, table, last, failure, waited, reading, faults>>

Tables == 1 .. 2
Whole  == [t \in Tables |-> 1 .. Keys]
None   == [t \in Tables |-> {}]

Views     == {"cleaned", "protected", "expired", "retained"}
RowStates == {"none", "pending", "removing_groups", "succeeded", "retained",
              "protected", "already_cleaned", "lock_timeout", "groups_pending",
              "month_failed", "interrupted"}
Idle      == [pc |-> "idle", month |-> 0, cleaned |-> {}, answer |-> "none"]

Init ==
    /\ clock = 1
    /\ version = 0 /\ building = 0
    /\ made = {} /\ saved = {} /\ leaves = {} /\ cleaned = {} /\ done = {}
    /\ groups = [m \in Months |-> None]
    /\ lease = "free"
    /\ foreign = "none"
    /\ row = [m \in Months |-> "none"]
    /\ outcome = "none"
    /\ pc = "idle"
    /\ report = [m \in Months |-> "retained"]
    /\ todo = {} /\ at = 0 /\ removed = FALSE /\ budget = BUDGET /\ table = 1
    /\ last = 0 /\ failure = FALSE /\ waited = 0
    /\ reading = [r \in Reader |-> Idle]
    /\ faults = 0

-----------------------------------------------------------------------------
(* Time, builds of this cluster, and other users of the shared tables.     *)

Tick ==
    /\ clock < LastMonth
    /\ clock' = clock + 1
    /\ UNCHANGED <<version, made, saved, building, data, lease, foreign, row, outcome,
                   process, reading, faults>>

(* mpp_ensure_result_partition for this month, which waits for locks, and  *)
(* for the next one, which does not wait.                                  *)
BuildBegins ==
    /\ lease = "free"
    /\ clock \in Months \ cleaned
    /\ foreign # "none" => clock \in leaves
    /\ LET opened == {clock} \cup (IF foreign # "none" THEN {} ELSE {clock + 1} \cap Months) IN
          /\ made' = made \cup opened
          /\ leaves' = leaves \cup opened
    /\ lease' = "build"
    /\ building' = clock
    /\ UNCHANGED <<clock, version, saved, cleaned, done, groups, foreign, row, outcome,
                   process, reading, faults>>

(* The build saves its results and is published, saves them only, or fails. *)
BuildEnds ==
    /\ lease = "build"
    /\ \/ /\ saved' = saved \cup {building}
          /\ groups' = [groups EXCEPT ![building] = Whole]
          /\ version' \in {version, building}
       \/ UNCHANGED <<saved, groups, version>>
    /\ lease' = "free"
    /\ building' = 0
    /\ UNCHANGED <<clock, made, leaves, cleaned, done, foreign, row, outcome, process,
                   reading, faults>>

(* Locks of others on the parents and on the group tables come and go: the *)
(* "shared" ones of another cluster's build, which keep off DDL and writes, *)
(* and the "exclusive" ones of another cluster's cleanup or of maintenance, *)
(* held or queued for, which keep off every read lock too.                 *)
Foreign ==
    /\ foreign' \in {"none", "shared", "exclusive"} \ {foreign}
    /\ UNCHANGED <<catalog, data, lease, row, outcome, process, reading, faults>>

-----------------------------------------------------------------------------
(* Readers: mpp_require_results, then the results.                         *)

(* The transaction begins; "repeatable read" fixes what it sees of marks. *)
ReadBegins(r) ==
    /\ reading[r].pc = "idle"
    /\ \E m \in saved :
          reading' = [reading EXCEPT ![r] =
              [pc |-> "begun", month |-> m, answer |-> "none",
               cleaned |-> IF Isolation = "repeatable read" THEN cleaned ELSE {}]]
    /\ UNCHANGED <<catalog, data, lease, foreign, row, outcome, process, faults>>

Marked(r) == IF Isolation = "repeatable read" THEN reading[r].cleaned ELSE cleaned

(* The read lock, which is held to the end of the transaction, and the     *)
(* question whether the month is cleaned.                                  *)
Require(r) ==
    /\ reading[r].pc = "begun" /\ foreign # "exclusive"
    /\ reading' = IF reading[r].month \in Marked(r)
                  THEN [reading EXCEPT ![r].pc = "over", ![r].answer = "results_cleaned"]
                  ELSE [reading EXCEPT ![r].pc = "locked"]
    /\ UNCHANGED <<catalog, data, lease, foreign, row, outcome, process, faults>>

Read(r) ==
    /\ reading[r].pc = "locked"
    /\ reading' = [reading EXCEPT
           ![r].pc = "over",
           ![r].answer = IF reading[r].month \in leaves THEN "whole" ELSE "empty"]
    /\ UNCHANGED <<catalog, data, lease, foreign, row, outcome, process, faults>>

ReadEnds(r) ==
    /\ reading[r].pc = "over"
    /\ reading' = [reading EXCEPT ![r] = Idle]
    /\ UNCHANGED <<catalog, data, lease, foreign, row, outcome, process, faults>>

(* Mutant: the question is asked without the lock. *)
LockedWhileReading == \E r \in Reader : reading[r].pc = "over"

(* The transactions that hold the parents in ACCESS SHARE mode. *)
Locked == \E r \in Reader :
    \/ reading[r].pc = "locked"
    \/ reading[r].pc = "over"

-----------------------------------------------------------------------------
(* The cleanup command.                                                    *)

(* The command ends: its variables are gone, the cluster is free. *)
Ends(state) ==
    /\ pc' = "idle"
    /\ lease' = "free"
    /\ outcome' = state
    /\ todo' = {} /\ at' = 0 /\ removed' = FALSE /\ budget' = BUDGET /\ table' = 1
    /\ last' = 0 /\ failure' = FALSE /\ waited' = 0

Admit ==
    /\ pc = "idle"
    /\ lease = "free"
    /\ lease' = "cleanup"
    /\ pc' = "preview"
    /\ row' = [m \in Months |-> "none"]
    /\ outcome' = "running"
    /\ UNCHANGED <<catalog, data, foreign, locals, reading, faults>>

expired(month, current, months) == month + months < current

(* Mutant: the month of the current version is not looked at. *)
ViewUnprotected(m, months) ==
    IF m \in cleaned THEN "cleaned"
    ELSE IF ~expired(m, clock, months) THEN "retained" ELSE "expired"

View(m, months) ==
    IF m \in cleaned THEN "cleaned"
    ELSE IF ~expired(m, clock, months) THEN "retained"
    ELSE IF m = version THEN "protected" ELSE "expired"

(* The read locks of preview have no NOWAIT and no lock_timeout: they wait *)
(* as long as somebody keeps the parents exclusively.                      *)
Preview ==
    /\ pc = "preview" /\ foreign # "exclusive"
    /\ \E months \in Keeps : report' = [m \in Months |-> View(m, months)]
    /\ todo' = made
    /\ pc' = "month"
    /\ UNCHANGED <<catalog, data, lease, foreign, row, outcome, at, removed, budget,
                   table, last, failure, waited, reading, faults>>

Pending(m) == m \in cleaned /\ m \notin done

(* Mutant: months without groups_cleaned_at are not taken up again. *)
EligibleExpired(m) == report[m] = "expired"

Eligible(m) == report[m] = "expired" \/ Pending(m)

(* The month's row; a month that is not eligible is finished with it. *)
Month ==
    /\ pc = "month" /\ todo # {}
    /\ LET m == Min(todo) IN
          /\ todo' = todo \ {m}
          /\ at' = m
          /\ row' = [row EXCEPT ![m] = IF Eligible(m) THEN "pending"
                                       ELSE IF report[m] = "cleaned" THEN "already_cleaned"
                                       ELSE report[m]]
          /\ removed' = (report[m] = "cleaned")
          /\ pc' = IF ~Eligible(m) THEN "month"
                   ELSE IF report[m] = "cleaned" THEN "groups" ELSE "partitions"
    /\ budget' = BUDGET /\ waited' = 0
    /\ table' = 1 /\ last' = 0
    /\ UNCHANGED <<catalog, data, lease, foreign, outcome, report, failure, reading, faults>>

Return ==
    /\ pc = "month" /\ todo = {}
    /\ Ends(IF failure THEN "failed" ELSE "succeeded")
    /\ UNCHANGED <<catalog, data, foreign, row, report, reading, faults>>

(* The outcome of the month at hand is written and the next one taken up. *)
Give(state) ==
    /\ row' = [row EXCEPT ![at] = state]
    /\ failure' = TRUE
    /\ pc' = "month"

TimedOut == IF removed THEN "groups_pending" ELSE "lock_timeout"

(* At most CHUNK keys after the last one whose removal was committed. *)
Batch ==
    LET rest == {k \in groups[at][table] : k > last} IN
    {k \in rest : Cardinality({j \in rest : j <= k}) <= CHUNK}

(* Mutants: attempts that cost nothing, and a key that a rolled-back batch *)
(* advances.                                                               *)
WaitForFree ==
    /\ \/ pc = "partitions" /\ (Locked \/ foreign # "none")
       \/ pc = "groups" /\ foreign # "none"
    /\ UNCHANGED vars

WaitAdvances ==
    /\ \/ pc = "partitions" /\ (Locked \/ foreign # "none")
       \/ pc = "groups" /\ foreign # "none"
    /\ \E spent \in 1 .. budget :
          /\ waited' = waited + spent
          /\ budget' = budget - spent
          /\ IF spent < budget THEN UNCHANGED <<row, failure, pc>> ELSE Give(TimedOut)
    /\ last' = IF pc = "groups" /\ Batch # {} THEN Max(Batch) ELSE last
    /\ UNCHANGED <<catalog, data, lease, foreign, outcome, report, todo, at, removed, table,
                   reading, faults>>

(* A failed attempt and the pause after it. *)
Wait ==
    /\ \/ pc = "partitions" /\ (Locked \/ foreign # "none")
       \/ pc = "groups" /\ foreign # "none"
    /\ \E spent \in 1 .. budget :
          /\ waited' = waited + spent
          /\ budget' = budget - spent
          /\ IF spent < budget THEN UNCHANGED <<row, failure, pc>> ELSE Give(TimedOut)
    /\ UNCHANGED <<catalog, data, lease, foreign, outcome, report, todo, at, removed, table,
                   last, reading, faults>>

(* All four locks at once: the leaves are dropped and the month is marked. *)
RemovePartitions ==
    /\ pc = "partitions" /\ ~Locked /\ foreign = "none"
    /\ leaves' = leaves \ {at}
    /\ cleaned' = cleaned \cup {at}
    /\ row' = [row EXCEPT ![at] = "removing_groups"]
    /\ pc' = "measure"
    /\ UNCHANGED <<catalog, done, groups, lease, foreign, outcome, report, todo, at, removed,
                   budget, table, last, failure, waited, reading, faults>>

(* Mutant: the group batches get a budget of their own. *)
MeasureAndRefill ==
    /\ pc = "measure"
    /\ removed' = TRUE
    /\ budget' = BUDGET
    /\ pc' = "groups"
    /\ UNCHANGED <<catalog, data, lease, foreign, row, outcome, report, todo, at,
                   table, last, failure, waited, reading, faults>>

(* exclusive_seconds, in a transaction of its own. *)
Measure ==
    /\ pc = "measure"
    /\ removed' = TRUE
    /\ pc' = "groups"
    /\ UNCHANGED <<catalog, data, lease, foreign, row, outcome, report, todo, at, budget,
                   table, last, failure, waited, reading, faults>>

RemoveGroups ==
    /\ pc = "groups" /\ foreign = "none"
    /\ groups' = [groups EXCEPT ![at][table] = @ \ Batch]
    /\ row' = [row EXCEPT ![at] = "removing_groups"]
    /\ IF Cardinality(Batch) = CHUNK
       THEN last' = Max(Batch) /\ UNCHANGED <<table, pc>>
       ELSE /\ last' = 0
            /\ IF table = 1 THEN table' = 2 /\ UNCHANGED pc
                            ELSE table' = 1 /\ pc' = "finish"
    /\ UNCHANGED <<catalog, leaves, cleaned, done, lease, foreign, outcome, report, todo, at,
                   removed, budget, failure, waited, reading, faults>>

FinishGroups ==
    /\ pc = "finish"
    /\ done' = done \cup {at}
    /\ row' = [row EXCEPT ![at] = "succeeded"]
    /\ pc' = "settled"
    /\ UNCHANGED <<catalog, leaves, cleaned, groups, lease, foreign, outcome, report, todo, at,
                   removed, budget, table, last, failure, waited, reading, faults>>

NextMonth ==
    /\ pc = "settled"
    /\ pc' = "month"
    /\ UNCHANGED <<catalog, data, lease, foreign, row, outcome, report, todo, at, removed,
                   budget, table, last, failure, waited, reading, faults>>

-----------------------------------------------------------------------------
(* What can go wrong in the middle.                                        *)

Statement == {"partitions", "measure", "groups", "finish"}
Trying    == Statement \cup {"settled"}

(* QueryCanceled is told apart from other errors, like a lock timeout. *)
Cancelled ==
    /\ faults < MaxFaults /\ faults' = faults + 1
    /\ pc \in Statement
    /\ Give(TimedOut)
    /\ UNCHANGED <<catalog, data, lease, foreign, outcome, report, todo, at, removed, budget,
                   table, last, waited, reading>>

MonthFails ==
    /\ faults < MaxFaults /\ faults' = faults + 1
    /\ pc \in Statement
    /\ Give("month_failed")
    /\ UNCHANGED <<catalog, data, lease, foreign, outcome, report, todo, at, removed, budget,
                   table, last, waited, reading>>

(* An interrupt is recorded for the month at hand and ends the command. *)
Interrupted ==
    /\ faults < MaxFaults /\ faults' = faults + 1
    /\ pc # "idle"
    /\ row' = IF pc \in Trying THEN [row EXCEPT ![at] = "interrupted"] ELSE row
    /\ Ends("interrupted")
    /\ UNCHANGED <<catalog, data, foreign, report, reading>>

(* An error outside the try, _failed itself failing, a lost session or a   *)
(* kill: the month's row stays as it is.                                   *)
Stopped ==
    /\ faults < MaxFaults /\ faults' = faults + 1
    /\ pc # "idle"
    /\ Ends("failed")
    /\ UNCHANGED <<catalog, data, foreign, row, report, reading>>

-----------------------------------------------------------------------------
Cleanup == \/ Preview \/ Month \/ Return \/ Wait \/ RemovePartitions \/ Measure
           \/ RemoveGroups \/ FinishGroups \/ NextMonth

Fault == Cancelled \/ MonthFails \/ Interrupted \/ Stopped

Reading(r) == ReadBegins(r) \/ Require(r) \/ Read(r) \/ ReadEnds(r)

Next ==
    \/ Tick \/ BuildBegins \/ BuildEnds \/ Foreign
    \/ \E r \in Reader : Reading(r)
    \/ Admit \/ Cleanup \/ Fault

Spec == Init /\ [][Next]_vars

(* A command that runs goes on; cleanups are started again and again, as a *)
(* step of the daily run, and builds give the cluster back.  Who waits for *)
(* a read lock stands in the queue of the table and gets its turn once     *)
(* those before it are done.                                               *)
FairSpec ==
    /\ Spec
    /\ WF_vars(Cleanup) /\ SF_vars(Preview)
    /\ SF_vars(Admit) /\ WF_vars(BuildEnds)

-----------------------------------------------------------------------------
(* Properties.                                                             *)

(* The types. *)
TypeOK ==
    /\ clock \in 1 .. LastMonth
    /\ version \in Months \cup {0} /\ building \in Months \cup {0}
    /\ made \subseteq Months /\ saved \subseteq made /\ leaves \subseteq made
    /\ done \subseteq cleaned /\ cleaned \subseteq made
    /\ groups \in [Months -> [Tables -> SUBSET (1 .. Keys)]]
    /\ lease \in {"free", "build", "cleanup"}
    /\ foreign \in {"none", "shared", "exclusive"}
    /\ row \in [Months -> RowStates]
    /\ outcome \in {"none", "running", "succeeded", "failed", "interrupted"}
    /\ pc \in {"idle", "preview", "month"} \cup Trying
    /\ report \in [Months -> Views]
    /\ todo \subseteq made
    /\ at \in Months \cup {0} /\ (pc \in Trying => at \in Months)
    /\ removed \in BOOLEAN /\ failure \in BOOLEAN
    /\ budget \in 0 .. BUDGET
    /\ table \in Tables /\ last \in 0 .. Keys
    /\ waited \in Nat
    /\ reading \in [Reader -> [pc : {"idle", "begun", "locked", "over"}, month : Months \cup {0},
                               cleaned : SUBSET Months,
                               answer : {"none", "whole", "results_cleaned", "empty"}]]
    /\ faults \in 0 .. MaxFaults

(* One month waits for locks no longer than LOCK_BUDGET, its tables and   *)
(* all its group batches together (_LockBudget: the daily run must come to *)
(* an end whoever holds the locks).                                        *)
WaitIsBounded == waited <= BUDGET

(* The two marks say what is there: without cleaned_at a month's tables    *)
(* exist and no group row of a saved build is missing; with                *)
(* groups_cleaned_at no group row is left.                                 *)
MarksTellTruth ==
    /\ leaves = made \ cleaned
    /\ \A m \in saved \ cleaned : groups[m] = Whole
    /\ \A m \in done : groups[m] = None

(* A month the record calls succeeded is gone with its groups, a month it  *)
(* kept is there, groups are pending only where results are gone; and a    *)
(* cleanup that succeeded left no month behind that it found expired or    *)
(* unfinished.                                                             *)
ReportTellsTruth ==
    /\ \A m \in Months :
          /\ row[m] \in {"succeeded", "already_cleaned"} => m \in done
          /\ row[m] \in {"removing_groups", "groups_pending"} => m \in cleaned
          /\ row[m] \in {"retained", "protected"} => m \notin cleaned
    /\ outcome = "succeeded" =>
          \A m \in made : report[m] \in {"expired", "cleaned"} /\ row[m] # "none" => m \in done

(* The marks of a month and the record of the last cleanup tell the truth, *)
(* whatever ended it.                                                      *)
RecordsTellTruth == MarksTellTruth /\ ReportTellsTruth

(* Who asks for the results of a saved build gets all of them or is told   *)
(* results_cleaned, and never takes a removed month for an empty one.      *)
ReadsAreWhole == \A r \in Reader : reading[r].answer # "empty"

(* Retention is kept: only whole expired months go, never that of the      *)
(* current version, although what to remove was decided before.            *)
Retained == INSTANCE Retention WITH kept <- leaves
ImplementsRetention == Retained!Spec

(* A cleanup that has looked at the months ends and gives the cluster back, *)
(* however long readers, builds and maintenance hold whatever locks from   *)
(* then on (_LockBudget).  The look itself waits without a bound, for      *)
(* exclusive locks alone: it is over once these are gone again and again.  *)
CleanupEnds ==
    /\ (pc \notin {"idle", "preview"}) ~> (pc = "idle")
    /\ []<>(foreign # "exclusive") => ((pc = "preview") ~> (pc # "preview"))

(* Once nobody else keeps the tables locked any more, a month that was    *)
(* cut short between its tables and its groups is finished by a later      *)
(* cleanup, even if the configuration retains more months by then.         *)
CleanedIsFinished ==
    <>[](foreign = "none") => \A m \in Months : (m \in cleaned) ~> (m \in done)
=============================================================================
