------------------------ MODULE ClusterTask_proofs ------------------------
(***************************************************************************)
(* The safety of ClusterTask for any commands, modes, faults and tries.    *)
(*                                                                         *)
(* Every lemma of the form XStep takes one conjunct X of the inductive     *)
(* invariant IInv and shows that a step keeps it, from X itself and the    *)
(* conjuncts before it.  LeaseInv carries the rest: because a process in   *)
(* control and the session of a killed one both hold the lease, no two     *)
(* commands ever change each other's rows.                                 *)
(***************************************************************************)
EXTENDS ClusterTask, TLAPS

-----------------------------------------------------------------------------
(* Types.                                                                  *)

\* FailBuild and CommitDraft keep the types of what they write.
LEMMA FailBuildType ==
    ASSUME TypeOK, NEW c \in Command, NEW state \in {"failed", "interrupted"},
           FailBuild(c, state) \/ UNCHANGED <<build, saved, problems>>
    PROVE  /\ build' \in [Command -> BuildStates]
           /\ saved' \in [Command -> BOOLEAN]
           /\ problems' \in [Command -> Nat]
<1>1. CASE UNCHANGED <<build, saved, problems>>
    BY <1>1 DEF TypeOK
<1>2. CASE FailBuild(c, state) /\ build[c] = "running"
    <2>1. /\ build' = [build EXCEPT ![c] = state]
          /\ saved' = [saved EXCEPT ![c] = FALSE]
          /\ problems' = [problems EXCEPT ![c] = @ + 1]
        BY <1>2 DEF FailBuild
    <2>2. problems[c] + 1 \in Nat
        BY DEF TypeOK
    <2>3. problems' \in [Command -> Nat]
        BY <2>1, <2>2 DEF TypeOK
    <2>4. build' \in [Command -> BuildStates]
        BY <2>1 DEF TypeOK, BuildStates
    <2>5. saved' \in [Command -> BOOLEAN]
        BY <2>1 DEF TypeOK
    <2>. QED
        BY <2>3, <2>4, <2>5
<1>3. CASE FailBuild(c, state) /\ build[c] # "running"
    BY <1>3 DEF FailBuild, TypeOK
<1>. QED
    BY <1>1, <1>2, <1>3

(* A commit of the open transaction keeps the types. *)
LEMMA CommitType ==
    ASSUME TypeOK, NEW c \in Command, CommitDraft(c)
    PROVE  /\ build' \in [Command -> BuildStates]
           /\ saved' \in [Command -> BOOLEAN]
           /\ task' \in [Command -> TaskStates]
           /\ draft' \in [Command -> Drafts]
           /\ result' \in [Command -> Results]
           /\ previous' \in [Command -> Command \cup {None}]
           /\ current' \in Command \cup {None}
<1>1. draft' \in [Command -> Drafts]
    BY DEF CommitDraft, TypeOK, Drafts, NoDraft, Results
<1>2. draft[c].result \in Results /\ draft[c].previous \in Command \cup {None}
    BY DEF TypeOK, Drafts
<1>3. CASE CommitSave(c)
    BY <1>1, <1>3 DEF CommitSave, TypeOK, BuildStates, pubRows
<1>4. CASE CommitPublication(c)
    BY <1>1, <1>2, <1>4 DEF CommitPublication, TypeOK, TaskStates, Finished
<1>. QED
    BY <1>3, <1>4 DEF CommitDraft

(* Every step keeps the types. *)
LEMMA TypeStep ==
    ASSUME TypeOK, [Next]_vars
    PROVE  TypeOK'
<1>. USE CommandAssumption, TriesAssumption DEF TypeOK, TaskStates,
         BuildStates, Results, Verdicts, PcStates, Held, Modes, Drafts,
         NoDraft, process, server, taskRows, buildRows, pubRows, guards
<1>0. CASE UNCHANGED vars
    BY <1>0 DEF vars
<1>1. ASSUME NEW c \in Command, TryLock(c) PROVE TypeOK'
    BY <1>1 DEF TryLock, Goto
<1>2. ASSUME NEW c \in Command, Reject(c) PROVE TypeOK'
    BY <1>2 DEF Reject, End, Goto, Running
<1>3. ASSUME NEW c \in Command, Register(c) PROVE TypeOK'
    BY <1>3 DEF Register, Goto, Orphaned, Abandoned, Finished
<1>4. ASSUME NEW c \in Command, AbandonRegistration(c) PROVE TypeOK'
    BY <1>4 DEF AbandonRegistration, End, Goto, Release
<1>5. ASSUME NEW c \in Command, OpenWork(c) PROVE TypeOK'
    BY <1>5 DEF OpenWork, Goto, Stage
<1>6. ASSUME NEW c \in Command, CloseWork(c) PROVE TypeOK'
    BY <1>6 DEF CloseWork, Goto
<1>7. ASSUME NEW c \in Command, InterruptWork(c) PROVE TypeOK'
    BY <1>7 DEF InterruptWork, Goto
<1>8. ASSUME NEW c \in Command, NothingToImport(c) PROVE TypeOK'
    BY <1>8 DEF NothingToImport, Goto
<1>9. ASSUME NEW c \in Command, Create(c) PROVE TypeOK'
    BY <1>9 DEF Create, Goto, Stage
<1>10. ASSUME NEW c \in Command, SpawnWatchdog(c) PROVE TypeOK'
    BY <1>10 DEF SpawnWatchdog, Goto
<1>11. ASSUME NEW c \in Command, Save(c) PROVE TypeOK'
    BY <1>11 DEF Save, Goto, NoDraft
<1>12. ASSUME NEW c \in Command, FailCalculation(c) PROVE TypeOK'
    <2>1. PICK state \in {"failed", "interrupted"} :
              /\ FailBuild(c, state) \/ UNCHANGED <<build, saved, problems>>
              /\ verdict' = [verdict EXCEPT ![c] = state]
        BY ONLY <1>12, Zenon DEF FailCalculation
    <2>2. /\ build' \in [Command -> BuildStates]
          /\ saved' \in [Command -> BOOLEAN]
          /\ problems' \in [Command -> Nat]
        BY <2>1, FailBuildType
    <2>3. UNCHANGED <<session, lease, task, busyTask, work, checks, result,
                      previous, current, tries>>
        BY <1>12 DEF FailCalculation
    <2>4. /\ pc' \in [Command -> PcStates]
          /\ verdict' \in [Command -> Verdicts]
          /\ draft' \in [Command -> Drafts]
          /\ watch' \in [Command -> {"none", "watching", "awake", "done"}]
        BY <1>12, <2>1 DEF FailCalculation, Goto, PipeClosed
    <2>. QED
        BY <2>2, <2>3, <2>4
<1>13. ASSUME NEW c \in Command, EndCalculation(c) PROVE TypeOK'
    BY <1>13 DEF EndCalculation, Goto, PipeClosed
<1>14. ASSUME NEW c \in Command, Check(c) PROVE TypeOK'
    BY <1>14 DEF Check, Goto, Stage
<1>15. ASSUME NEW c \in Command, Publish(c) PROVE TypeOK'
    BY <1>15 DEF Publish, Goto, Stage, Publishable
<1>16. ASSUME NEW c \in Command, FailPublication(c) PROVE TypeOK'
    BY <1>16 DEF FailPublication, Goto, Finished, NoDraft
<1>17. ASSUME NEW c \in Command, Commit(c) PROVE TypeOK'
    <2>1. CommitDraft(c)
        BY <1>17 DEF Commit
    <2>2. pc' \in [Command -> PcStates] /\ verdict' \in [Command -> Verdicts]
        BY <1>17 DEF Commit, Goto
    <2>3. UNCHANGED <<session, lease, busyTask, work, problems, checks, watch, tries>>
        BY <1>17 DEF Commit, CommitDraft
    <2>. QED
        BY <2>1, <2>2, <2>3, CommitType
<1>18. ASSUME NEW c \in Command, Raise(c) PROVE TypeOK'
    BY <1>18 DEF Raise, Goto, NoDraft
<1>19. ASSUME NEW c \in Command, Return(c) PROVE TypeOK'
    BY <1>19 DEF Return, Goto
<1>20. ASSUME NEW c \in Command, FinishTask(c) PROVE TypeOK'
    BY <1>20 DEF FinishTask, Goto, Finished
<1>21. ASSUME NEW c \in Command, Unlock(c) PROVE TypeOK'
    BY <1>21 DEF Unlock, End, Goto, Release
<1>22. ASSUME NEW c \in Command, BrokenExit(c) PROVE TypeOK'
    BY <1>22 DEF BrokenExit, End, Goto, PipeClosed
<1>23. ASSUME NEW c \in Command, WatchdogRecords(c) PROVE TypeOK'
    <2>1. /\ build' \in [Command -> BuildStates]
          /\ saved' \in [Command -> BOOLEAN]
          /\ problems' \in [Command -> Nat]
        BY <1>23, FailBuildType DEF WatchdogRecords
    <2>. QED
        BY <1>23, <2>1 DEF WatchdogRecords
<1>24. ASSUME NEW c \in Command, WatchdogFails(c) PROVE TypeOK'
    BY <1>24 DEF WatchdogFails
<1>25. ASSUME NEW c \in Command, Kill(c) PROVE TypeOK'
    BY <1>25 DEF Kill, End, Goto, PipeClosed
<1>26. ASSUME NEW c \in Command, Disconnect(c) PROVE TypeOK'
    BY <1>26 DEF Disconnect, Goto, Release, NoDraft
<1>27. ASSUME NEW c \in Command, OrphanCommit(c) PROVE TypeOK'
    <2>1. CommitDraft(c)
        BY <1>27 DEF OrphanCommit
    <2>2. UNCHANGED <<pc, verdict, session, lease, busyTask, work, problems, checks,
                      watch, tries>>
        BY <1>27 DEF OrphanCommit, CommitDraft
    <2>. QED
        BY <2>1, <2>2, CommitType
<1>28. ASSUME NEW c \in Command, EndSession(c) PROVE TypeOK'
    BY <1>28 DEF EndSession, Release, NoDraft
<1>. QED
    BY <1>0, <1>1, <1>2, <1>3, <1>4, <1>5, <1>6, <1>7, <1>8, <1>9, <1>10,
       <1>11, <1>12, <1>13, <1>14, <1>15, <1>16, <1>17, <1>18, <1>19, <1>20,
       <1>21, <1>22, <1>23, <1>24, <1>25, <1>26, <1>27, <1>28
    DEF Next, Step, Watchdog, Fault

-----------------------------------------------------------------------------
\* The lease: who holds it, and that nothing is open outside it.
LEMMA LeaseStep ==
    ASSUME TypeOK, LeaseInv, [Next]_vars
    PROVE  LeaseInv'
<1>. USE CommandAssumption DEF LeaseInv, InControl, Held, NoDraft, TypeOK,
         process, server, taskRows, buildRows, pubRows, guards
<1>0. CASE UNCHANGED vars
    BY <1>0 DEF vars
<1>1. ASSUME NEW c \in Command, TryLock(c) PROVE LeaseInv'
    BY <1>1 DEF TryLock, Goto
<1>2. ASSUME NEW c \in Command, Reject(c) PROVE LeaseInv'
    BY <1>2 DEF Reject, End, Goto, Running
<1>3. ASSUME NEW c \in Command, Register(c) PROVE LeaseInv'
    BY <1>3 DEF Register, Goto, Orphaned, Abandoned, Finished
<1>4. ASSUME NEW c \in Command, AbandonRegistration(c) PROVE LeaseInv'
    BY <1>4 DEF AbandonRegistration, End, Goto, Release
<1>5. ASSUME NEW c \in Command, OpenWork(c) PROVE LeaseInv'
    BY <1>5 DEF OpenWork, Goto, Stage
<1>6. ASSUME NEW c \in Command, CloseWork(c) PROVE LeaseInv'
    BY <1>6 DEF CloseWork, Goto
<1>7. ASSUME NEW c \in Command, InterruptWork(c) PROVE LeaseInv'
    BY <1>7 DEF InterruptWork, Goto
<1>8. ASSUME NEW c \in Command, NothingToImport(c) PROVE LeaseInv'
    BY <1>8 DEF NothingToImport, Goto
<1>9. ASSUME NEW c \in Command, Create(c) PROVE LeaseInv'
    BY <1>9 DEF Create, Goto, Stage
<1>10. ASSUME NEW c \in Command, SpawnWatchdog(c) PROVE LeaseInv'
    BY <1>10 DEF SpawnWatchdog, Goto
<1>11. ASSUME NEW c \in Command, Save(c) PROVE LeaseInv'
    BY <1>11 DEF Save, Goto, NoDraft
<1>12. ASSUME NEW c \in Command, FailCalculation(c) PROVE LeaseInv'
    BY <1>12
    DEF FailCalculation, Goto, FailBuild, PipeClosed, NoDraft, Calculating
<1>13. ASSUME NEW c \in Command, EndCalculation(c) PROVE LeaseInv'
    BY <1>13 DEF EndCalculation, Goto, PipeClosed
<1>14. ASSUME NEW c \in Command, Check(c) PROVE LeaseInv'
    BY <1>14 DEF Check, Goto, Stage
<1>15. ASSUME NEW c \in Command, Publish(c) PROVE LeaseInv'
    BY <1>15 DEF Publish, Goto, Stage, Publishable
<1>16. ASSUME NEW c \in Command, FailPublication(c) PROVE LeaseInv'
    BY <1>16 DEF FailPublication, Goto, Finished, NoDraft
<1>17. ASSUME NEW c \in Command, Commit(c) PROVE LeaseInv'
    BY <1>17
    DEF Commit, Goto, CommitDraft, CommitSave, CommitPublication, Finished,
        NoDraft
<1>18. ASSUME NEW c \in Command, Raise(c) PROVE LeaseInv'
    BY <1>18 DEF Raise, Goto, NoDraft
<1>19. ASSUME NEW c \in Command, Return(c) PROVE LeaseInv'
    BY <1>19 DEF Return, Goto
<1>20. ASSUME NEW c \in Command, FinishTask(c) PROVE LeaseInv'
    BY <1>20 DEF FinishTask, Goto, Finished
<1>21. ASSUME NEW c \in Command, Unlock(c) PROVE LeaseInv'
    BY <1>21 DEF Unlock, End, Goto, Release
<1>22. ASSUME NEW c \in Command, BrokenExit(c) PROVE LeaseInv'
    BY <1>22 DEF BrokenExit, End, Goto, PipeClosed
<1>23. ASSUME NEW c \in Command, WatchdogRecords(c) PROVE LeaseInv'
    BY <1>23 DEF WatchdogRecords, FailBuild, NoDraft
<1>24. ASSUME NEW c \in Command, WatchdogFails(c) PROVE LeaseInv'
    BY <1>24 DEF WatchdogFails
<1>25. ASSUME NEW c \in Command, Kill(c) PROVE LeaseInv'
    BY <1>25 DEF Kill, End, Goto, PipeClosed
<1>26. ASSUME NEW c \in Command, Disconnect(c) PROVE LeaseInv'
    BY <1>26 DEF Disconnect, Goto, Release, NoDraft
<1>27. ASSUME NEW c \in Command, OrphanCommit(c) PROVE LeaseInv'
    BY <1>27
    DEF OrphanCommit, CommitDraft, CommitSave, CommitPublication, Finished,
        NoDraft
<1>28. ASSUME NEW c \in Command, EndSession(c) PROVE LeaseInv'
    BY <1>28 DEF EndSession, Release, NoDraft
<1>. QED
    BY <1>0, <1>1, <1>2, <1>3, <1>4, <1>5, <1>6, <1>7, <1>8, <1>9, <1>10,
       <1>11, <1>12, <1>13, <1>14, <1>15, <1>16, <1>17, <1>18, <1>19, <1>20,
       <1>21, <1>22, <1>23, <1>24, <1>25, <1>26, <1>27, <1>28
    DEF Next, Step, Watchdog, Fault

-----------------------------------------------------------------------------
\* The build, its watchdog and the calculation's transaction.
LEMMA BuildStep ==
    ASSUME TypeOK, LeaseInv, BuildInv, [Next]_vars
    PROVE  BuildInv'
<1>. USE CommandAssumption DEF LeaseInv, InControl, Held, BuildInv,
         Calculating, TypeOK, process, server, taskRows, buildRows, pubRows,
         guards
<1>0. CASE UNCHANGED vars
    BY <1>0 DEF vars
<1>1. ASSUME NEW c \in Command, TryLock(c) PROVE BuildInv'
    BY <1>1 DEF TryLock, Goto
<1>2. ASSUME NEW c \in Command, Reject(c) PROVE BuildInv'
    BY <1>2 DEF Reject, End, Goto, Running
<1>3. ASSUME NEW c \in Command, Register(c) PROVE BuildInv'
    BY <1>3 DEF Register, Goto, Orphaned, Abandoned, Finished
<1>4. ASSUME NEW c \in Command, AbandonRegistration(c) PROVE BuildInv'
    BY <1>4 DEF AbandonRegistration, End, Goto, Release
<1>5. ASSUME NEW c \in Command, OpenWork(c) PROVE BuildInv'
    BY <1>5 DEF OpenWork, Goto, Stage
<1>6. ASSUME NEW c \in Command, CloseWork(c) PROVE BuildInv'
    BY <1>6 DEF CloseWork, Goto
<1>7. ASSUME NEW c \in Command, InterruptWork(c) PROVE BuildInv'
    BY <1>7 DEF InterruptWork, Goto
<1>8. ASSUME NEW c \in Command, NothingToImport(c) PROVE BuildInv'
    BY <1>8 DEF NothingToImport, Goto
<1>9. ASSUME NEW c \in Command, Create(c) PROVE BuildInv'
    BY <1>9 DEF Create, Goto, Stage
<1>10. ASSUME NEW c \in Command, SpawnWatchdog(c) PROVE BuildInv'
    BY <1>10 DEF SpawnWatchdog, Goto
<1>11. ASSUME NEW c \in Command, Save(c) PROVE BuildInv'
    BY <1>11 DEF Save, Goto, NoDraft
<1>12. ASSUME NEW c \in Command, FailCalculation(c) PROVE BuildInv'
    BY <1>12
    DEF FailCalculation, Goto, FailBuild, PipeClosed, NoDraft, Calculating
<1>13. ASSUME NEW c \in Command, EndCalculation(c) PROVE BuildInv'
    BY <1>13 DEF EndCalculation, Goto, PipeClosed
<1>14. ASSUME NEW c \in Command, Check(c) PROVE BuildInv'
    BY <1>14 DEF Check, Goto, Stage
<1>15. ASSUME NEW c \in Command, Publish(c) PROVE BuildInv'
    BY <1>15 DEF Publish, Goto, Stage, Publishable
<1>16. ASSUME NEW c \in Command, FailPublication(c) PROVE BuildInv'
    BY <1>16 DEF FailPublication, Goto, Finished, NoDraft
<1>17. ASSUME NEW c \in Command, Commit(c) PROVE BuildInv'
    BY <1>17
    DEF Commit, Goto, CommitDraft, CommitSave, CommitPublication, Finished,
        NoDraft
<1>18. ASSUME NEW c \in Command, Raise(c) PROVE BuildInv'
    BY <1>18 DEF Raise, Goto, NoDraft
<1>19. ASSUME NEW c \in Command, Return(c) PROVE BuildInv'
    BY <1>19 DEF Return, Goto
<1>20. ASSUME NEW c \in Command, FinishTask(c) PROVE BuildInv'
    BY <1>20 DEF FinishTask, Goto, Finished
<1>21. ASSUME NEW c \in Command, Unlock(c) PROVE BuildInv'
    BY <1>21 DEF Unlock, End, Goto, Release
<1>22. ASSUME NEW c \in Command, BrokenExit(c) PROVE BuildInv'
    BY <1>22 DEF BrokenExit, End, Goto, PipeClosed
<1>23. ASSUME NEW c \in Command, WatchdogRecords(c) PROVE BuildInv'
    BY <1>23 DEF WatchdogRecords, FailBuild, NoDraft
<1>24. ASSUME NEW c \in Command, WatchdogFails(c) PROVE BuildInv'
    BY <1>24 DEF WatchdogFails
<1>25. ASSUME NEW c \in Command, Kill(c) PROVE BuildInv'
    BY <1>25 DEF Kill, End, Goto, PipeClosed
<1>26. ASSUME NEW c \in Command, Disconnect(c) PROVE BuildInv'
    BY <1>26 DEF Disconnect, Goto, Release, NoDraft
<1>27. ASSUME NEW c \in Command, OrphanCommit(c) PROVE BuildInv'
    BY <1>27
    DEF OrphanCommit, CommitDraft, CommitSave, CommitPublication, Finished,
        NoDraft
<1>28. ASSUME NEW c \in Command, EndSession(c) PROVE BuildInv'
    BY <1>28 DEF EndSession, Release, NoDraft
<1>. QED
    BY <1>0, <1>1, <1>2, <1>3, <1>4, <1>5, <1>6, <1>7, <1>8, <1>9, <1>10,
       <1>11, <1>12, <1>13, <1>14, <1>15, <1>16, <1>17, <1>18, <1>19, <1>20,
       <1>21, <1>22, <1>23, <1>24, <1>25, <1>26, <1>27, <1>28
    DEF Next, Step, Watchdog, Fault

-----------------------------------------------------------------------------
\* The open publication.
LEMMA DraftStep ==
    ASSUME TypeOK, LeaseInv, BuildInv, DraftInv, [Next]_vars
    PROVE  DraftInv'
<1>. USE CommandAssumption DEF LeaseInv, InControl, Held, BuildInv, DraftInv,
         Calculating, Publishable, NoDraft, TypeOK, process, server, taskRows,
         buildRows, pubRows, guards
<1>0. CASE UNCHANGED vars
    BY <1>0 DEF vars
<1>1. ASSUME NEW c \in Command, TryLock(c) PROVE DraftInv'
    BY <1>1 DEF TryLock, Goto
<1>2. ASSUME NEW c \in Command, Reject(c) PROVE DraftInv'
    BY <1>2 DEF Reject, End, Goto, Running
<1>3. ASSUME NEW c \in Command, Register(c) PROVE DraftInv'
    BY <1>3 DEF Register, Goto, Orphaned, Abandoned, Finished
<1>4. ASSUME NEW c \in Command, AbandonRegistration(c) PROVE DraftInv'
    BY <1>4 DEF AbandonRegistration, End, Goto, Release
<1>5. ASSUME NEW c \in Command, OpenWork(c) PROVE DraftInv'
    BY <1>5 DEF OpenWork, Goto, Stage
<1>6. ASSUME NEW c \in Command, CloseWork(c) PROVE DraftInv'
    BY <1>6 DEF CloseWork, Goto
<1>7. ASSUME NEW c \in Command, InterruptWork(c) PROVE DraftInv'
    BY <1>7 DEF InterruptWork, Goto
<1>8. ASSUME NEW c \in Command, NothingToImport(c) PROVE DraftInv'
    BY <1>8 DEF NothingToImport, Goto
<1>9. ASSUME NEW c \in Command, Create(c) PROVE DraftInv'
    BY <1>9 DEF Create, Goto, Stage
<1>10. ASSUME NEW c \in Command, SpawnWatchdog(c) PROVE DraftInv'
    BY <1>10 DEF SpawnWatchdog, Goto
<1>11. ASSUME NEW c \in Command, Save(c) PROVE DraftInv'
    BY <1>11 DEF Save, Goto, NoDraft
<1>12. ASSUME NEW c \in Command, FailCalculation(c) PROVE DraftInv'
    BY <1>12
    DEF FailCalculation, Goto, FailBuild, PipeClosed, NoDraft, Calculating
<1>13. ASSUME NEW c \in Command, EndCalculation(c) PROVE DraftInv'
    BY <1>13 DEF EndCalculation, Goto, PipeClosed
<1>14. ASSUME NEW c \in Command, Check(c) PROVE DraftInv'
    BY <1>14 DEF Check, Goto, Stage
<1>15. ASSUME NEW c \in Command, Publish(c) PROVE DraftInv'
    BY <1>15 DEF Publish, Goto, Stage, Publishable
<1>16. ASSUME NEW c \in Command, FailPublication(c) PROVE DraftInv'
    BY <1>16 DEF FailPublication, Goto, Finished, NoDraft
<1>17. ASSUME NEW c \in Command, Commit(c) PROVE DraftInv'
    BY <1>17
    DEF Commit, Goto, CommitDraft, CommitSave, CommitPublication, Finished,
        NoDraft
<1>18. ASSUME NEW c \in Command, Raise(c) PROVE DraftInv'
    BY <1>18 DEF Raise, Goto, NoDraft
<1>19. ASSUME NEW c \in Command, Return(c) PROVE DraftInv'
    BY <1>19 DEF Return, Goto
<1>20. ASSUME NEW c \in Command, FinishTask(c) PROVE DraftInv'
    BY <1>20 DEF FinishTask, Goto, Finished
<1>21. ASSUME NEW c \in Command, Unlock(c) PROVE DraftInv'
    BY <1>21 DEF Unlock, End, Goto, Release
<1>22. ASSUME NEW c \in Command, BrokenExit(c) PROVE DraftInv'
    BY <1>22 DEF BrokenExit, End, Goto, PipeClosed
<1>23. ASSUME NEW c \in Command, WatchdogRecords(c) PROVE DraftInv'
    BY <1>23 DEF WatchdogRecords, FailBuild, NoDraft
<1>24. ASSUME NEW c \in Command, WatchdogFails(c) PROVE DraftInv'
    BY <1>24 DEF WatchdogFails
<1>25. ASSUME NEW c \in Command, Kill(c) PROVE DraftInv'
    BY <1>25 DEF Kill, End, Goto, PipeClosed
<1>26. ASSUME NEW c \in Command, Disconnect(c) PROVE DraftInv'
    BY <1>26 DEF Disconnect, Goto, Release, NoDraft
<1>27. ASSUME NEW c \in Command, OrphanCommit(c) PROVE DraftInv'
    BY <1>27
    DEF OrphanCommit, CommitDraft, CommitSave, CommitPublication, Finished,
        NoDraft
<1>28. ASSUME NEW c \in Command, EndSession(c) PROVE DraftInv'
    BY <1>28 DEF EndSession, Release, NoDraft
<1>. QED
    BY <1>0, <1>1, <1>2, <1>3, <1>4, <1>5, <1>6, <1>7, <1>8, <1>9, <1>10,
       <1>11, <1>12, <1>13, <1>14, <1>15, <1>16, <1>17, <1>18, <1>19, <1>20,
       <1>21, <1>22, <1>23, <1>24, <1>25, <1>26, <1>27, <1>28
    DEF Next, Step, Watchdog, Fault

-----------------------------------------------------------------------------
\* One problem per failed build.
LEMMA BlockStep ==
    ASSUME TypeOK, LeaseInv, BuildInv, OneBlockPerFailure, [Next]_vars
    PROVE  OneBlockPerFailure'
<1>. USE CommandAssumption DEF LeaseInv, InControl, Held, BuildInv,
         OneBlockPerFailure, Calculating, TypeOK, process, server, taskRows,
         buildRows, pubRows, guards
<1>0. CASE UNCHANGED vars
    BY <1>0 DEF vars
<1>1. ASSUME NEW c \in Command, TryLock(c) PROVE OneBlockPerFailure'
    BY <1>1 DEF TryLock, Goto
<1>2. ASSUME NEW c \in Command, Reject(c) PROVE OneBlockPerFailure'
    BY <1>2 DEF Reject, End, Goto, Running
<1>3. ASSUME NEW c \in Command, Register(c) PROVE OneBlockPerFailure'
    BY <1>3 DEF Register, Goto, Orphaned, Abandoned, Finished
<1>4. ASSUME NEW c \in Command, AbandonRegistration(c) PROVE OneBlockPerFailure'
    BY <1>4 DEF AbandonRegistration, End, Goto, Release
<1>5. ASSUME NEW c \in Command, OpenWork(c) PROVE OneBlockPerFailure'
    BY <1>5 DEF OpenWork, Goto, Stage
<1>6. ASSUME NEW c \in Command, CloseWork(c) PROVE OneBlockPerFailure'
    BY <1>6 DEF CloseWork, Goto
<1>7. ASSUME NEW c \in Command, InterruptWork(c) PROVE OneBlockPerFailure'
    BY <1>7 DEF InterruptWork, Goto
<1>8. ASSUME NEW c \in Command, NothingToImport(c) PROVE OneBlockPerFailure'
    BY <1>8 DEF NothingToImport, Goto
<1>9. ASSUME NEW c \in Command, Create(c) PROVE OneBlockPerFailure'
    BY <1>9 DEF Create, Goto, Stage
<1>10. ASSUME NEW c \in Command, SpawnWatchdog(c) PROVE OneBlockPerFailure'
    BY <1>10 DEF SpawnWatchdog, Goto
<1>11. ASSUME NEW c \in Command, Save(c) PROVE OneBlockPerFailure'
    BY <1>11 DEF Save, Goto, NoDraft
<1>12. ASSUME NEW c \in Command, FailCalculation(c) PROVE OneBlockPerFailure'
    BY <1>12
    DEF FailCalculation, Goto, FailBuild, PipeClosed, NoDraft, Calculating
<1>13. ASSUME NEW c \in Command, EndCalculation(c) PROVE OneBlockPerFailure'
    BY <1>13 DEF EndCalculation, Goto, PipeClosed
<1>14. ASSUME NEW c \in Command, Check(c) PROVE OneBlockPerFailure'
    BY <1>14 DEF Check, Goto, Stage
<1>15. ASSUME NEW c \in Command, Publish(c) PROVE OneBlockPerFailure'
    BY <1>15 DEF Publish, Goto, Stage, Publishable
<1>16. ASSUME NEW c \in Command, FailPublication(c) PROVE OneBlockPerFailure'
    BY <1>16 DEF FailPublication, Goto, Finished, NoDraft
<1>17. ASSUME NEW c \in Command, Commit(c) PROVE OneBlockPerFailure'
    BY <1>17
    DEF Commit, Goto, CommitDraft, CommitSave, CommitPublication, Finished,
        NoDraft
<1>18. ASSUME NEW c \in Command, Raise(c) PROVE OneBlockPerFailure'
    BY <1>18 DEF Raise, Goto, NoDraft
<1>19. ASSUME NEW c \in Command, Return(c) PROVE OneBlockPerFailure'
    BY <1>19 DEF Return, Goto
<1>20. ASSUME NEW c \in Command, FinishTask(c) PROVE OneBlockPerFailure'
    BY <1>20 DEF FinishTask, Goto, Finished
<1>21. ASSUME NEW c \in Command, Unlock(c) PROVE OneBlockPerFailure'
    BY <1>21 DEF Unlock, End, Goto, Release
<1>22. ASSUME NEW c \in Command, BrokenExit(c) PROVE OneBlockPerFailure'
    BY <1>22 DEF BrokenExit, End, Goto, PipeClosed
<1>23. ASSUME NEW c \in Command, WatchdogRecords(c) PROVE OneBlockPerFailure'
    BY <1>23 DEF WatchdogRecords, FailBuild, NoDraft
<1>24. ASSUME NEW c \in Command, WatchdogFails(c) PROVE OneBlockPerFailure'
    BY <1>24 DEF WatchdogFails
<1>25. ASSUME NEW c \in Command, Kill(c) PROVE OneBlockPerFailure'
    BY <1>25 DEF Kill, End, Goto, PipeClosed
<1>26. ASSUME NEW c \in Command, Disconnect(c) PROVE OneBlockPerFailure'
    BY <1>26 DEF Disconnect, Goto, Release, NoDraft
<1>27. ASSUME NEW c \in Command, OrphanCommit(c) PROVE OneBlockPerFailure'
    BY <1>27
    DEF OrphanCommit, CommitDraft, CommitSave, CommitPublication, Finished,
        NoDraft
<1>28. ASSUME NEW c \in Command, EndSession(c) PROVE OneBlockPerFailure'
    BY <1>28 DEF EndSession, Release, NoDraft
<1>. QED
    BY <1>0, <1>1, <1>2, <1>3, <1>4, <1>5, <1>6, <1>7, <1>8, <1>9, <1>10,
       <1>11, <1>12, <1>13, <1>14, <1>15, <1>16, <1>17, <1>18, <1>19, <1>20,
       <1>21, <1>22, <1>23, <1>24, <1>25, <1>26, <1>27, <1>28
    DEF Next, Step, Watchdog, Fault

-----------------------------------------------------------------------------
\* Published builds.
LEMMA PublishedStep ==
    ASSUME TypeOK, LeaseInv, BuildInv, DraftInv, PublishedInv, [Next]_vars
    PROVE  PublishedInv'
<1>. USE CommandAssumption DEF LeaseInv, InControl, Held, BuildInv, DraftInv,
         PublishedInv, Calculating, Publishable, TypeOK, process, server,
         taskRows, buildRows, pubRows, guards
<1>0. CASE UNCHANGED vars
    BY <1>0 DEF vars
<1>1. ASSUME NEW c \in Command, TryLock(c) PROVE PublishedInv'
    BY <1>1 DEF TryLock, Goto
<1>2. ASSUME NEW c \in Command, Reject(c) PROVE PublishedInv'
    BY <1>2 DEF Reject, End, Goto, Running
<1>3. ASSUME NEW c \in Command, Register(c) PROVE PublishedInv'
    BY <1>3 DEF Register, Goto, Orphaned, Abandoned, Finished
<1>4. ASSUME NEW c \in Command, AbandonRegistration(c) PROVE PublishedInv'
    BY <1>4 DEF AbandonRegistration, End, Goto, Release
<1>5. ASSUME NEW c \in Command, OpenWork(c) PROVE PublishedInv'
    BY <1>5 DEF OpenWork, Goto, Stage
<1>6. ASSUME NEW c \in Command, CloseWork(c) PROVE PublishedInv'
    BY <1>6 DEF CloseWork, Goto
<1>7. ASSUME NEW c \in Command, InterruptWork(c) PROVE PublishedInv'
    BY <1>7 DEF InterruptWork, Goto
<1>8. ASSUME NEW c \in Command, NothingToImport(c) PROVE PublishedInv'
    BY <1>8 DEF NothingToImport, Goto
<1>9. ASSUME NEW c \in Command, Create(c) PROVE PublishedInv'
    BY <1>9 DEF Create, Goto, Stage
<1>10. ASSUME NEW c \in Command, SpawnWatchdog(c) PROVE PublishedInv'
    BY <1>10 DEF SpawnWatchdog, Goto
<1>11. ASSUME NEW c \in Command, Save(c) PROVE PublishedInv'
    BY <1>11 DEF Save, Goto, NoDraft
<1>12. ASSUME NEW c \in Command, FailCalculation(c) PROVE PublishedInv'
    BY <1>12
    DEF FailCalculation, Goto, FailBuild, PipeClosed, NoDraft, Calculating
<1>13. ASSUME NEW c \in Command, EndCalculation(c) PROVE PublishedInv'
    BY <1>13 DEF EndCalculation, Goto, PipeClosed
<1>14. ASSUME NEW c \in Command, Check(c) PROVE PublishedInv'
    BY <1>14 DEF Check, Goto, Stage
<1>15. ASSUME NEW c \in Command, Publish(c) PROVE PublishedInv'
    BY <1>15 DEF Publish, Goto, Stage, Publishable
<1>16. ASSUME NEW c \in Command, FailPublication(c) PROVE PublishedInv'
    BY <1>16 DEF FailPublication, Goto, Finished, NoDraft
<1>17. ASSUME NEW c \in Command, Commit(c) PROVE PublishedInv'
    BY <1>17
    DEF Commit, Goto, CommitDraft, CommitSave, CommitPublication, Finished,
        NoDraft
<1>18. ASSUME NEW c \in Command, Raise(c) PROVE PublishedInv'
    BY <1>18 DEF Raise, Goto, NoDraft
<1>19. ASSUME NEW c \in Command, Return(c) PROVE PublishedInv'
    BY <1>19 DEF Return, Goto
<1>20. ASSUME NEW c \in Command, FinishTask(c) PROVE PublishedInv'
    BY <1>20 DEF FinishTask, Goto, Finished
<1>21. ASSUME NEW c \in Command, Unlock(c) PROVE PublishedInv'
    BY <1>21 DEF Unlock, End, Goto, Release
<1>22. ASSUME NEW c \in Command, BrokenExit(c) PROVE PublishedInv'
    BY <1>22 DEF BrokenExit, End, Goto, PipeClosed
<1>23. ASSUME NEW c \in Command, WatchdogRecords(c) PROVE PublishedInv'
    BY <1>23 DEF WatchdogRecords, FailBuild, NoDraft
<1>24. ASSUME NEW c \in Command, WatchdogFails(c) PROVE PublishedInv'
    BY <1>24 DEF WatchdogFails
<1>25. ASSUME NEW c \in Command, Kill(c) PROVE PublishedInv'
    BY <1>25 DEF Kill, End, Goto, PipeClosed
<1>26. ASSUME NEW c \in Command, Disconnect(c) PROVE PublishedInv'
    BY <1>26 DEF Disconnect, Goto, Release, NoDraft
<1>27. ASSUME NEW c \in Command, OrphanCommit(c) PROVE PublishedInv'
    BY <1>27
    DEF OrphanCommit, CommitDraft, CommitSave, CommitPublication, Finished,
        NoDraft
<1>28. ASSUME NEW c \in Command, EndSession(c) PROVE PublishedInv'
    BY <1>28 DEF EndSession, Release, NoDraft
<1>. QED
    BY <1>0, <1>1, <1>2, <1>3, <1>4, <1>5, <1>6, <1>7, <1>8, <1>9, <1>10,
       <1>11, <1>12, <1>13, <1>14, <1>15, <1>16, <1>17, <1>18, <1>19, <1>20,
       <1>21, <1>22, <1>23, <1>24, <1>25, <1>26, <1>27, <1>28
    DEF Next, Step, Watchdog, Fault

-----------------------------------------------------------------------------
\* The task's end.
LEMMA VerdictStep ==
    ASSUME TypeOK, LeaseInv, DraftInv, VerdictInv, [Next]_vars
    PROVE  VerdictInv'
<1>. USE CommandAssumption DEF LeaseInv, InControl, Held, DraftInv,
         VerdictInv, Calculating, Publishable, Modes, TypeOK, process, server,
         taskRows, buildRows, pubRows, guards
<1>0. CASE UNCHANGED vars
    BY <1>0 DEF vars
<1>1. ASSUME NEW c \in Command, TryLock(c) PROVE VerdictInv'
    BY <1>1 DEF TryLock, Goto
<1>2. ASSUME NEW c \in Command, Reject(c) PROVE VerdictInv'
    BY <1>2 DEF Reject, End, Goto, Running
<1>3. ASSUME NEW c \in Command, Register(c) PROVE VerdictInv'
    BY <1>3 DEF Register, Goto, Orphaned, Abandoned, Finished
<1>4. ASSUME NEW c \in Command, AbandonRegistration(c) PROVE VerdictInv'
    BY <1>4 DEF AbandonRegistration, End, Goto, Release
<1>5. ASSUME NEW c \in Command, OpenWork(c) PROVE VerdictInv'
    BY <1>5 DEF OpenWork, Goto, Stage
<1>6. ASSUME NEW c \in Command, CloseWork(c) PROVE VerdictInv'
    BY <1>6 DEF CloseWork, Goto
<1>7. ASSUME NEW c \in Command, InterruptWork(c) PROVE VerdictInv'
    BY <1>7 DEF InterruptWork, Goto
<1>8. ASSUME NEW c \in Command, NothingToImport(c) PROVE VerdictInv'
    BY <1>8 DEF NothingToImport, Goto
<1>9. ASSUME NEW c \in Command, Create(c) PROVE VerdictInv'
    BY <1>9 DEF Create, Goto, Stage
<1>10. ASSUME NEW c \in Command, SpawnWatchdog(c) PROVE VerdictInv'
    BY <1>10 DEF SpawnWatchdog, Goto
<1>11. ASSUME NEW c \in Command, Save(c) PROVE VerdictInv'
    BY <1>11 DEF Save, Goto, NoDraft
<1>12. ASSUME NEW c \in Command, FailCalculation(c) PROVE VerdictInv'
    BY <1>12
    DEF FailCalculation, Goto, FailBuild, PipeClosed, NoDraft, Calculating
<1>13. ASSUME NEW c \in Command, EndCalculation(c) PROVE VerdictInv'
    BY <1>13 DEF EndCalculation, Goto, PipeClosed
<1>14. ASSUME NEW c \in Command, Check(c) PROVE VerdictInv'
    BY <1>14 DEF Check, Goto, Stage
<1>15. ASSUME NEW c \in Command, Publish(c) PROVE VerdictInv'
    BY <1>15 DEF Publish, Goto, Stage, Publishable
<1>16. ASSUME NEW c \in Command, FailPublication(c) PROVE VerdictInv'
    BY <1>16 DEF FailPublication, Goto, Finished, NoDraft
<1>17. ASSUME NEW c \in Command, Commit(c) PROVE VerdictInv'
    BY <1>17
    DEF Commit, Goto, CommitDraft, CommitSave, CommitPublication, Finished,
        NoDraft
<1>18. ASSUME NEW c \in Command, Raise(c) PROVE VerdictInv'
    BY <1>18 DEF Raise, Goto, NoDraft
<1>19. ASSUME NEW c \in Command, Return(c) PROVE VerdictInv'
    BY <1>19 DEF Return, Goto
<1>20. ASSUME NEW c \in Command, FinishTask(c) PROVE VerdictInv'
    BY <1>20 DEF FinishTask, Goto, Finished
<1>21. ASSUME NEW c \in Command, Unlock(c) PROVE VerdictInv'
    BY <1>21 DEF Unlock, End, Goto, Release
<1>22. ASSUME NEW c \in Command, BrokenExit(c) PROVE VerdictInv'
    BY <1>22 DEF BrokenExit, End, Goto, PipeClosed
<1>23. ASSUME NEW c \in Command, WatchdogRecords(c) PROVE VerdictInv'
    BY <1>23 DEF WatchdogRecords, FailBuild, NoDraft
<1>24. ASSUME NEW c \in Command, WatchdogFails(c) PROVE VerdictInv'
    BY <1>24 DEF WatchdogFails
<1>25. ASSUME NEW c \in Command, Kill(c) PROVE VerdictInv'
    BY <1>25 DEF Kill, End, Goto, PipeClosed
<1>26. ASSUME NEW c \in Command, Disconnect(c) PROVE VerdictInv'
    BY <1>26 DEF Disconnect, Goto, Release, NoDraft
<1>27. ASSUME NEW c \in Command, OrphanCommit(c) PROVE VerdictInv'
    BY <1>27
    DEF OrphanCommit, CommitDraft, CommitSave, CommitPublication, Finished,
        NoDraft
<1>28. ASSUME NEW c \in Command, EndSession(c) PROVE VerdictInv'
    BY <1>28 DEF EndSession, Release, NoDraft
<1>. QED
    BY <1>0, <1>1, <1>2, <1>3, <1>4, <1>5, <1>6, <1>7, <1>8, <1>9, <1>10,
       <1>11, <1>12, <1>13, <1>14, <1>15, <1>16, <1>17, <1>18, <1>19, <1>20,
       <1>21, <1>22, <1>23, <1>24, <1>25, <1>26, <1>27, <1>28
    DEF Next, Step, Watchdog, Fault

-----------------------------------------------------------------------------
\* What admission settles.
LEMMA AdmissionStep ==
    ASSUME TypeOK, LeaseInv, AdmissionSettles, [Next]_vars
    PROVE  AdmissionSettles'
<1>. USE CommandAssumption DEF LeaseInv, InControl, Held, AdmissionSettles,
         Calculating, Modes, NoDraft, TypeOK, process, server, taskRows,
         buildRows, pubRows, guards
<1>0. CASE UNCHANGED vars
    BY <1>0 DEF vars
<1>1. ASSUME NEW c \in Command, TryLock(c) PROVE AdmissionSettles'
    BY <1>1 DEF TryLock, Goto
<1>2. ASSUME NEW c \in Command, Reject(c) PROVE AdmissionSettles'
    BY <1>2 DEF Reject, End, Goto, Running
<1>3. ASSUME NEW c \in Command, Register(c) PROVE AdmissionSettles'
    BY <1>3 DEF Register, Goto, Orphaned, Abandoned, Finished
<1>4. ASSUME NEW c \in Command, AbandonRegistration(c) PROVE AdmissionSettles'
    BY <1>4 DEF AbandonRegistration, End, Goto, Release
<1>5. ASSUME NEW c \in Command, OpenWork(c) PROVE AdmissionSettles'
    BY <1>5 DEF OpenWork, Goto, Stage
<1>6. ASSUME NEW c \in Command, CloseWork(c) PROVE AdmissionSettles'
    BY <1>6 DEF CloseWork, Goto
<1>7. ASSUME NEW c \in Command, InterruptWork(c) PROVE AdmissionSettles'
    BY <1>7 DEF InterruptWork, Goto
<1>8. ASSUME NEW c \in Command, NothingToImport(c) PROVE AdmissionSettles'
    BY <1>8 DEF NothingToImport, Goto
<1>9. ASSUME NEW c \in Command, Create(c) PROVE AdmissionSettles'
    BY <1>9 DEF Create, Goto, Stage
<1>10. ASSUME NEW c \in Command, SpawnWatchdog(c) PROVE AdmissionSettles'
    BY <1>10 DEF SpawnWatchdog, Goto
<1>11. ASSUME NEW c \in Command, Save(c) PROVE AdmissionSettles'
    BY <1>11 DEF Save, Goto, NoDraft
<1>12. ASSUME NEW c \in Command, FailCalculation(c) PROVE AdmissionSettles'
    BY <1>12
    DEF FailCalculation, Goto, FailBuild, PipeClosed, NoDraft, Calculating
<1>13. ASSUME NEW c \in Command, EndCalculation(c) PROVE AdmissionSettles'
    BY <1>13 DEF EndCalculation, Goto, PipeClosed
<1>14. ASSUME NEW c \in Command, Check(c) PROVE AdmissionSettles'
    BY <1>14 DEF Check, Goto, Stage
<1>15. ASSUME NEW c \in Command, Publish(c) PROVE AdmissionSettles'
    BY <1>15 DEF Publish, Goto, Stage, Publishable
<1>16. ASSUME NEW c \in Command, FailPublication(c) PROVE AdmissionSettles'
    BY <1>16 DEF FailPublication, Goto, Finished, NoDraft
<1>17. ASSUME NEW c \in Command, Commit(c) PROVE AdmissionSettles'
    BY <1>17
    DEF Commit, Goto, CommitDraft, CommitSave, CommitPublication, Finished,
        NoDraft
<1>18. ASSUME NEW c \in Command, Raise(c) PROVE AdmissionSettles'
    BY <1>18 DEF Raise, Goto, NoDraft
<1>19. ASSUME NEW c \in Command, Return(c) PROVE AdmissionSettles'
    BY <1>19 DEF Return, Goto
<1>20. ASSUME NEW c \in Command, FinishTask(c) PROVE AdmissionSettles'
    BY <1>20 DEF FinishTask, Goto, Finished
<1>21. ASSUME NEW c \in Command, Unlock(c) PROVE AdmissionSettles'
    BY <1>21 DEF Unlock, End, Goto, Release
<1>22. ASSUME NEW c \in Command, BrokenExit(c) PROVE AdmissionSettles'
    BY <1>22 DEF BrokenExit, End, Goto, PipeClosed
<1>23. ASSUME NEW c \in Command, WatchdogRecords(c) PROVE AdmissionSettles'
    BY <1>23 DEF WatchdogRecords, FailBuild, NoDraft
<1>24. ASSUME NEW c \in Command, WatchdogFails(c) PROVE AdmissionSettles'
    BY <1>24 DEF WatchdogFails
<1>25. ASSUME NEW c \in Command, Kill(c) PROVE AdmissionSettles'
    BY <1>25 DEF Kill, End, Goto, PipeClosed
<1>26. ASSUME NEW c \in Command, Disconnect(c) PROVE AdmissionSettles'
    BY <1>26 DEF Disconnect, Goto, Release, NoDraft
<1>27. ASSUME NEW c \in Command, OrphanCommit(c) PROVE AdmissionSettles'
    BY <1>27
    DEF OrphanCommit, CommitDraft, CommitSave, CommitPublication, Finished,
        NoDraft
<1>28. ASSUME NEW c \in Command, EndSession(c) PROVE AdmissionSettles'
    BY <1>28 DEF EndSession, Release, NoDraft
<1>. QED
    BY <1>0, <1>1, <1>2, <1>3, <1>4, <1>5, <1>6, <1>7, <1>8, <1>9, <1>10,
       <1>11, <1>12, <1>13, <1>14, <1>15, <1>16, <1>17, <1>18, <1>19, <1>20,
       <1>21, <1>22, <1>23, <1>24, <1>25, <1>26, <1>27, <1>28
    DEF Next, Step, Watchdog, Fault

-----------------------------------------------------------------------------
(* The invariant.                                                          *)

(* The invariant holds before the first command. *)
LEMMA InvInit == Init => IInv
BY CommandAssumption, TriesAssumption
   DEF Init, IInv, TypeOK, LeaseInv, BuildInv, DraftInv, OneBlockPerFailure,
       PublishedInv, VerdictInv, AdmissionSettles, PcStates, Verdicts, TaskStates,
       BuildStates, Results, Drafts, NoDraft, InControl, Held, Calculating

(* Every step keeps the invariant. *)
LEMMA InvStep == IInv /\ [Next]_vars => IInv'
BY TypeStep, LeaseStep, BuildStep, DraftStep, BlockStep, PublishedStep, VerdictStep,
   AdmissionStep DEF IInv

(* IInv is an invariant of the commands, the watchdog, kills and recoveries. *)
THEOREM Invariance == Spec => []IInv
BY InvInit, InvStep, PTL DEF Spec

-----------------------------------------------------------------------------
(* What it gives.                                                          *)

\* Every variable keeps its type.
THEOREM TypeCorrect == Spec => []TypeOK
<1>1. IInv => TypeOK
    BY DEF IInv
<1>. QED
    BY Invariance, <1>1, PTL

\* No transaction on a build or on the current version outlives the lease of
\* the command that began it, for any number of commands, kills and lost
\* sessions (tasks.py: the lease and all mutable writes share one session).
THEOREM WritesAreUnderLease == Spec => []WritesUnderLease
<1>1. IInv => WritesUnderLease
    BY DEF IInv, LeaseInv, WritesUnderLease, InControl, Held
<1>. QED
    BY Invariance, <1>1, PTL

\* A registered command in control meets nothing unfinished of another one
\* (Task.recover).
THEOREM AdmissionIsClean == Spec => []AdmissionSettles
<1>1. IInv => AdmissionSettles
    BY DEF IInv
<1>. QED
    BY Invariance, <1>1, PTL

\* The current version is saved, checked and published, by a task that says
\* it succeeded (PublicationStore.publish).
THEOREM CurrentVersionIsSound == Spec => []CurrentVersionSound
<1>1. IInv => CurrentVersionSound
    BY DEF IInv, TypeOK, PublishedInv, VerdictInv, Publishable, CurrentVersionSound
<1>. QED
    BY Invariance, <1>1, PTL

\* A failed or interrupted build has exactly one blocking problem, whoever got
\* to record it (StatisticsStore._failure, Task.recover).
THEOREM FailureBlocksOnce == Spec => []OneBlockPerFailure
<1>1. IInv => OneBlockPerFailure
    BY DEF IInv
<1>. QED
    BY Invariance, <1>1, PTL

\* A full or rebuild task succeeds exactly with its publication
\* (PublicationStore.publish, Task.__exit__).
THEOREM SuccessIsPublication == Spec => []SuccessMeansPublished
<1>1. IInv => SuccessMeansPublished
    BY DEF IInv, VerdictInv, SuccessMeansPublished
<1>. QED
    BY Invariance, <1>1, PTL

-----------------------------------------------------------------------------
\* A step never takes a build's end or its saved results back, but for a
\* calculated build that nobody published and whose session has ended.
EndsOnce(d) ==
    /\ build'[d] # build[d] =>
          \/ build[d] \in {"none", "running"}
          \/ /\ build[d] = "calculated" /\ build'[d] = "interrupted"
             /\ result[d] = "none" /\ session[d] = "closed"
    /\ saved[d] => saved'[d]

(* Every step keeps the end of a build, but for an orphaned calculated one. *)
LEMMA EndStep ==
    ASSUME TypeOK, LeaseInv, BuildInv, DraftInv, [Next]_vars
    PROVE  \A d \in Command : EndsOnce(d)
<1>. USE CommandAssumption DEF LeaseInv, BuildInv, DraftInv, InControl, Held,
         EndsOnce, Calculating, NoDraft, TypeOK, process, server, taskRows,
         buildRows, pubRows, guards
<1>0. CASE UNCHANGED vars
    BY <1>0 DEF vars
<1>1. ASSUME NEW c \in Command, TryLock(c) PROVE \A d \in Command : EndsOnce(d)
    BY <1>1 DEF TryLock, Goto
<1>2. ASSUME NEW c \in Command, Reject(c) PROVE \A d \in Command : EndsOnce(d)
    BY <1>2 DEF Reject, End, Goto, Running
<1>3. ASSUME NEW c \in Command, Register(c) PROVE \A d \in Command : EndsOnce(d)
    BY <1>3 DEF Register, Goto, Orphaned, Abandoned, Finished
<1>4. ASSUME NEW c \in Command, AbandonRegistration(c) PROVE \A d \in Command : EndsOnce(d)
    BY <1>4 DEF AbandonRegistration, End, Goto, Release
<1>5. ASSUME NEW c \in Command, OpenWork(c) PROVE \A d \in Command : EndsOnce(d)
    BY <1>5 DEF OpenWork, Goto, Stage
<1>6. ASSUME NEW c \in Command, CloseWork(c) PROVE \A d \in Command : EndsOnce(d)
    BY <1>6 DEF CloseWork, Goto
<1>7. ASSUME NEW c \in Command, InterruptWork(c) PROVE \A d \in Command : EndsOnce(d)
    BY <1>7 DEF InterruptWork, Goto
<1>8. ASSUME NEW c \in Command, NothingToImport(c) PROVE \A d \in Command : EndsOnce(d)
    BY <1>8 DEF NothingToImport, Goto
<1>9. ASSUME NEW c \in Command, Create(c) PROVE \A d \in Command : EndsOnce(d)
    BY <1>9 DEF Create, Goto, Stage
<1>10. ASSUME NEW c \in Command, SpawnWatchdog(c) PROVE \A d \in Command : EndsOnce(d)
    BY <1>10 DEF SpawnWatchdog, Goto
<1>11. ASSUME NEW c \in Command, Save(c) PROVE \A d \in Command : EndsOnce(d)
    BY <1>11 DEF Save, Goto, NoDraft
<1>12. ASSUME NEW c \in Command, FailCalculation(c) PROVE \A d \in Command : EndsOnce(d)
    BY <1>12
    DEF FailCalculation, Goto, FailBuild, PipeClosed, NoDraft, Calculating
<1>13. ASSUME NEW c \in Command, EndCalculation(c) PROVE \A d \in Command : EndsOnce(d)
    BY <1>13 DEF EndCalculation, Goto, PipeClosed
<1>14. ASSUME NEW c \in Command, Check(c) PROVE \A d \in Command : EndsOnce(d)
    BY <1>14 DEF Check, Goto, Stage
<1>15. ASSUME NEW c \in Command, Publish(c) PROVE \A d \in Command : EndsOnce(d)
    BY <1>15 DEF Publish, Goto, Stage, Publishable
<1>16. ASSUME NEW c \in Command, FailPublication(c) PROVE \A d \in Command : EndsOnce(d)
    BY <1>16 DEF FailPublication, Goto, Finished, NoDraft
<1>17. ASSUME NEW c \in Command, Commit(c) PROVE \A d \in Command : EndsOnce(d)
    BY <1>17
    DEF Commit, Goto, CommitDraft, CommitSave, CommitPublication, Finished,
        NoDraft
<1>18. ASSUME NEW c \in Command, Raise(c) PROVE \A d \in Command : EndsOnce(d)
    BY <1>18 DEF Raise, Goto, NoDraft
<1>19. ASSUME NEW c \in Command, Return(c) PROVE \A d \in Command : EndsOnce(d)
    BY <1>19 DEF Return, Goto
<1>20. ASSUME NEW c \in Command, FinishTask(c) PROVE \A d \in Command : EndsOnce(d)
    BY <1>20 DEF FinishTask, Goto, Finished
<1>21. ASSUME NEW c \in Command, Unlock(c) PROVE \A d \in Command : EndsOnce(d)
    BY <1>21 DEF Unlock, End, Goto, Release
<1>22. ASSUME NEW c \in Command, BrokenExit(c) PROVE \A d \in Command : EndsOnce(d)
    BY <1>22 DEF BrokenExit, End, Goto, PipeClosed
<1>23. ASSUME NEW c \in Command, WatchdogRecords(c) PROVE \A d \in Command : EndsOnce(d)
    BY <1>23 DEF WatchdogRecords, FailBuild, NoDraft
<1>24. ASSUME NEW c \in Command, WatchdogFails(c) PROVE \A d \in Command : EndsOnce(d)
    BY <1>24 DEF WatchdogFails
<1>25. ASSUME NEW c \in Command, Kill(c) PROVE \A d \in Command : EndsOnce(d)
    BY <1>25 DEF Kill, End, Goto, PipeClosed
<1>26. ASSUME NEW c \in Command, Disconnect(c) PROVE \A d \in Command : EndsOnce(d)
    BY <1>26 DEF Disconnect, Goto, Release, NoDraft
<1>27. ASSUME NEW c \in Command, OrphanCommit(c) PROVE \A d \in Command : EndsOnce(d)
    BY <1>27
    DEF OrphanCommit, CommitDraft, CommitSave, CommitPublication, Finished,
        NoDraft
<1>28. ASSUME NEW c \in Command, EndSession(c) PROVE \A d \in Command : EndsOnce(d)
    BY <1>28 DEF EndSession, Release, NoDraft
<1>. QED
    BY <1>0, <1>1, <1>2, <1>3, <1>4, <1>5, <1>6, <1>7, <1>8, <1>9, <1>10,
       <1>11, <1>12, <1>13, <1>14, <1>15, <1>16, <1>17, <1>18, <1>19, <1>20,
       <1>21, <1>22, <1>23, <1>24, <1>25, <1>26, <1>27, <1>28
    DEF Next, Step, Watchdog, Fault

\* A build's end is final (StatisticsStore._failure, Task.recover).
THEOREM BuildsEndOnce == Spec => BuildEndsOnce
<1>1. IInv /\ [Next]_vars => [\A d \in Command : EndsOnce(d)]_vars
    BY EndStep DEF IInv
<1>2. [\A d \in Command : EndsOnce(d)]_vars
          => [\A c \in Command :
                /\ build'[c] # build[c] =>
                      \/ build[c] \in {"none", "running"}
                      \/ /\ build[c] = "calculated" /\ build'[c] = "interrupted"
                         /\ result[c] = "none" /\ session[c] = "closed"
                /\ saved[c] => saved'[c]]_vars
    BY DEF EndsOnce
<1>. QED
    BY Invariance, <1>1, <1>2, PTL DEF Spec, BuildEndsOnce

-----------------------------------------------------------------------------
(* The version line.                                                       *)

(* The protocol begins where the line of versions begins. *)
LEMMA LineInit == Init => Line!Init
BY DEF Init, Line!Init

(* A commit is an answer of the line or changes nothing of it. *)
LEMMA CommitOnLine ==
    ASSUME TypeOK, DraftInv, NEW c \in Command, CommitDraft(c)
    PROVE  [Line!Next]_(Line!vars)
<1>1. CASE CommitSave(c)
    BY <1>1 DEF CommitSave, Line!vars, pubRows
<1>2. CASE CommitPublication(c)
    <2>1. draft[c].result \in Line!Answers
        BY <1>2 DEF CommitPublication, DraftInv, Line!Answers
    <2>2. Line!Answer(c, draft[c].result)
        BY <1>2 DEF CommitPublication, DraftInv, Line!Answer, TypeOK
    <2>. QED
        BY <2>1, <2>2 DEF Line!Next
<1>. QED
    BY <1>1, <1>2 DEF CommitDraft

(* So is every step. *)
LEMMA LineStep ==
    ASSUME TypeOK, DraftInv, [Next]_vars
    PROVE  [Line!Next]_(Line!vars)
<1>. USE DEF Line!vars, pubRows
<1>0. CASE UNCHANGED vars
    BY <1>0 DEF vars
<1>1. ASSUME NEW c \in Command, TryLock(c) PROVE [Line!Next]_(Line!vars)
    BY <1>1 DEF TryLock
<1>2. ASSUME NEW c \in Command, Reject(c) PROVE [Line!Next]_(Line!vars)
    BY <1>2 DEF Reject
<1>3. ASSUME NEW c \in Command, Register(c) PROVE [Line!Next]_(Line!vars)
    BY <1>3 DEF Register
<1>4. ASSUME NEW c \in Command, AbandonRegistration(c) PROVE [Line!Next]_(Line!vars)
    BY <1>4 DEF AbandonRegistration
<1>5. ASSUME NEW c \in Command, OpenWork(c) PROVE [Line!Next]_(Line!vars)
    BY <1>5 DEF OpenWork
<1>6. ASSUME NEW c \in Command, CloseWork(c) PROVE [Line!Next]_(Line!vars)
    BY <1>6 DEF CloseWork
<1>7. ASSUME NEW c \in Command, InterruptWork(c) PROVE [Line!Next]_(Line!vars)
    BY <1>7 DEF InterruptWork
<1>8. ASSUME NEW c \in Command, NothingToImport(c) PROVE [Line!Next]_(Line!vars)
    BY <1>8 DEF NothingToImport
<1>9. ASSUME NEW c \in Command, Create(c) PROVE [Line!Next]_(Line!vars)
    BY <1>9 DEF Create
<1>10. ASSUME NEW c \in Command, SpawnWatchdog(c) PROVE [Line!Next]_(Line!vars)
    BY <1>10 DEF SpawnWatchdog
<1>11. ASSUME NEW c \in Command, Save(c) PROVE [Line!Next]_(Line!vars)
    BY <1>11 DEF Save
<1>12. ASSUME NEW c \in Command, FailCalculation(c) PROVE [Line!Next]_(Line!vars)
    BY <1>12 DEF FailCalculation
<1>13. ASSUME NEW c \in Command, EndCalculation(c) PROVE [Line!Next]_(Line!vars)
    BY <1>13 DEF EndCalculation
<1>14. ASSUME NEW c \in Command, Check(c) PROVE [Line!Next]_(Line!vars)
    BY <1>14 DEF Check
<1>15. ASSUME NEW c \in Command, Publish(c) PROVE [Line!Next]_(Line!vars)
    BY <1>15 DEF Publish
<1>16. ASSUME NEW c \in Command, FailPublication(c) PROVE [Line!Next]_(Line!vars)
    <2>1. Line!Answer(c, "publish_failed")
        BY <1>16 DEF FailPublication, DraftInv, Line!Answer, TypeOK
    <2>. QED
        BY <2>1 DEF Line!Next, Line!Answers
<1>17. ASSUME NEW c \in Command, Commit(c) PROVE [Line!Next]_(Line!vars)
    BY <1>17, CommitOnLine DEF Commit
<1>18. ASSUME NEW c \in Command, Raise(c) PROVE [Line!Next]_(Line!vars)
    BY <1>18 DEF Raise
<1>19. ASSUME NEW c \in Command, Return(c) PROVE [Line!Next]_(Line!vars)
    BY <1>19 DEF Return
<1>20. ASSUME NEW c \in Command, FinishTask(c) PROVE [Line!Next]_(Line!vars)
    BY <1>20 DEF FinishTask
<1>21. ASSUME NEW c \in Command, Unlock(c) PROVE [Line!Next]_(Line!vars)
    BY <1>21 DEF Unlock
<1>22. ASSUME NEW c \in Command, BrokenExit(c) PROVE [Line!Next]_(Line!vars)
    BY <1>22 DEF BrokenExit
<1>23. ASSUME NEW c \in Command, WatchdogRecords(c) PROVE [Line!Next]_(Line!vars)
    BY <1>23 DEF WatchdogRecords
<1>24. ASSUME NEW c \in Command, WatchdogFails(c) PROVE [Line!Next]_(Line!vars)
    BY <1>24 DEF WatchdogFails
<1>25. ASSUME NEW c \in Command, Kill(c) PROVE [Line!Next]_(Line!vars)
    BY <1>25 DEF Kill
<1>26. ASSUME NEW c \in Command, Disconnect(c) PROVE [Line!Next]_(Line!vars)
    BY <1>26 DEF Disconnect
<1>27. ASSUME NEW c \in Command, OrphanCommit(c) PROVE [Line!Next]_(Line!vars)
    BY <1>27, CommitOnLine DEF OrphanCommit
<1>28. ASSUME NEW c \in Command, EndSession(c) PROVE [Line!Next]_(Line!vars)
    BY <1>28 DEF EndSession
<1>. QED
    BY <1>0, <1>1, <1>2, <1>3, <1>4, <1>5, <1>6, <1>7, <1>8, <1>9, <1>10,
       <1>11, <1>12, <1>13, <1>14, <1>15, <1>16, <1>17, <1>18, <1>19, <1>20,
       <1>21, <1>22, <1>23, <1>24, <1>25, <1>26, <1>27, <1>28
    DEF Next, Step, Watchdog, Fault

\* Every build is answered once, against the version that is current when the
\* answer is committed (PublicationStore._record).
THEOREM ImplementsLine == Spec => ImplementsVersionLine
<1>1. IInv /\ [Next]_vars => [Line!Next]_(Line!vars)
    BY LineStep DEF IInv
<1>. QED
    BY LineInit, Invariance, <1>1, PTL DEF Spec, ImplementsVersionLine, Line!Spec

-----------------------------------------------------------------------------
(* The line of versions, proved of the abstract module alone: its own      *)
(* inductive invariant needs nothing of the tasks that publish.            *)

\* LinearHistory, strengthened: while there is no current version, nothing
\* has been published.
LineInv ==
    /\ Line!TypeOK
    /\ Line!LinearHistory
    /\ current = None => Line!Published = {}

\* One more answer keeps the line.
LEMMA AnswerKeepsLine ==
    ASSUME LineInv, NEW b \in Command, NEW answer \in Line!Answers, Line!Answer(b, answer)
    PROVE  LineInv'
<1>1. None \notin Command
    BY CommandAssumption
<1>2. Line!TypeOK'
    BY DEF LineInv, Line!TypeOK, Line!Answer, Line!Answers
<1>3. CASE answer = "published"
    <2>1. Line!Published' = Line!Published \cup {b} /\ b \notin Line!Published
        BY <1>3 DEF Line!Answer, Line!Published, LineInv, Line!TypeOK
    <2>2. current' = b /\ current' # None
        BY <1>1, <1>3 DEF Line!Answer
    <2>3. previous'[b] = current /\ \A a \in Line!Published : previous'[a] = previous[a]
        BY <2>1 DEF Line!Answer, Line!Published, LineInv, Line!TypeOK
    <2>. QED
        BY <1>1, <1>2, <2>1, <2>2, <2>3 DEF LineInv, Line!LinearHistory
<1>4. CASE answer # "published"
    <2>1. Line!Published' = Line!Published
        BY <1>4 DEF Line!Answer, Line!Published, LineInv, Line!TypeOK
    <2>2. current' = current /\ \A a \in Line!Published : previous'[a] = previous[a]
        BY <1>4 DEF Line!Answer, Line!Published, LineInv, Line!TypeOK
    <2>. QED
        BY <1>2, <2>1, <2>2 DEF LineInv, Line!LinearHistory
<1>. QED BY <1>3, <1>4

\* Every step of the line keeps it.
LEMMA LineInductive ==
    ASSUME LineInv, [Line!Next]_(Line!vars)
    PROVE  LineInv'
<1>1. CASE UNCHANGED Line!vars
    BY <1>1 DEF Line!vars, LineInv, Line!TypeOK, Line!LinearHistory, Line!Published
<1>2. ASSUME NEW b \in Command, NEW answer \in Line!Answers, Line!Answer(b, answer)
      PROVE  LineInv'
    BY <1>2, AnswerKeepsLine
<1>. QED BY <1>1, <1>2 DEF Line!Next

\* The line is empty at the start.
LEMMA LineInitially == Line!Init => LineInv
BY DEF Line!Init, LineInv, Line!TypeOK, Line!LinearHistory, Line!Published, Line!Answers

\* In the abstract module, whoever publishes: the published versions form one
\* line that ends at the current one (publication.previous_build_id,
\* current_version).
THEOREM LineIsLinear == Line!Spec => []Line!LinearHistory
<1>1. LineInv /\ [Line!Next]_(Line!vars) => LineInv'
    BY LineInductive
<1>2. LineInv => Line!LinearHistory
    BY DEF LineInv
<1>. QED BY LineInitially, <1>1, <1>2, PTL DEF Line!Spec

\* The published versions form one line that ends at the current one; it is
\* the abstract module's theorem, carried over by the refinement.
THEOREM HistoryIsLinear == Spec => []LinearHistory
BY ImplementsLine, LineIsLinear, PTL DEF ImplementsVersionLine, LinearHistory
=============================================================================
