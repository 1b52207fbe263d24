------------------------ MODULE RunLifecycle_proofs -------------------------
(***************************************************************************)
(* Proofs, for every set of workers and runs, every plan and every number  *)
(* of faults: the types, the execution slot, the agent branch, the tree,   *)
(* the approval gates and the order of the tasks.                          *)
(***************************************************************************)
EXTENDS RunProperties, TLAPS

-----------------------------------------------------------------------------
(* The mutators of RunState return records.                                *)

LEMMA BlankRecordsType == NoRecord \in RunRecord /\ NewRecord \in RunRecord
BY DEF NoRecord, NewRecord, RunRecord, TaskStatus, NoTask

LEMMA RecordsType ==
  ASSUME NEW m \in RunRecord, NEW t \in Tasks
  PROVE  /\ AddTask(m, t) \in RunRecord
         /\ MarkWaitingForApproval(m, t) \in RunRecord
         /\ ApproveTask(m, t) \in RunRecord
         /\ \A s \in {"blocked", "skipped"} : MarkUnreached(m, t, s) \in RunRecord
         /\ \A s \in {"running", "passed", "failed"} : UpdateTask(m, t, s) \in RunRecord
<1> USE DEF RunRecord, TaskStatus, NoTask
<1>1. AddTask(m, t) \in RunRecord
  BY DEF AddTask
<1>2. MarkWaitingForApproval(m, t) \in RunRecord
  BY DEF MarkWaitingForApproval
<1>3. ApproveTask(m, t) \in RunRecord
  BY DEF ApproveTask
<1>4. \A s \in {"blocked", "skipped"} : MarkUnreached(m, t, s) \in RunRecord
  BY DEF MarkUnreached
<1>5. \A s \in {"running", "passed", "failed"} : UpdateTask(m, t, s) \in RunRecord
  <2> TAKE s \in {"running", "passed", "failed"}
  <2>1. [m.task EXCEPT ![t] = s] \in [Tasks -> TaskStatus \cup {"absent"}]
    OBVIOUS
  <2> QED
    BY <2>1 DEF UpdateTask
<1> QED
  BY <1>1, <1>2, <1>3, <1>4, <1>5

LEMMA FinishedRecordsType ==
  ASSUME NEW m \in RunRecord
  PROVE  /\ \A ok \in BOOLEAN : FinishRun(m, ok) \in RunRecord
         /\ [m EXCEPT !.status = "running"] \in RunRecord
         /\ \A b \in Branches : [m EXCEPT !.branch = b] \in RunRecord
<1> USE DEF RunRecord, TaskStatus, NoTask
<1>1. \A ok \in BOOLEAN : FinishRun(m, ok) \in RunRecord
  BY DEF FinishRun
<1>2. [m EXCEPT !.status = "running"] \in RunRecord
  OBVIOUS
<1>3. \A b \in Branches : [m EXCEPT !.branch = b] \in RunRecord
  OBVIOUS
<1> QED
  BY <1>1, <1>2, <1>3

(* What a save leaves on disk and in memory.                               *)
LEMMA SaveType ==
  ASSUME TypeOK, NEW w \in Workers, pc[w] # "idle", NEW m \in RunRecord, Save(w, m)
  PROVE  disk' \in [Runs -> RunRecord] /\ mem' \in [Workers -> RunRecord]
BY DEF TypeOK, Save

LEMMA SetTaskType ==
  ASSUME TypeOK, NEW w \in Workers, pc[w] \in TaskSteps,
         NEW s \in {"running", "passed", "failed"}, SetTask(w, s)
  PROVE  disk' \in [Runs -> RunRecord] /\ mem' \in [Workers -> RunRecord]
<1>1. mem[w] \in RunRecord /\ at[w] \in Tasks /\ pc[w] # "idle"
  BY DEF TypeOK, TaskSteps, PastTheEnd
<1>2. UpdateTask(mem[w], at[w], s) \in RunRecord
  BY <1>1, RecordsType
<1> QED
  BY <1>1, <1>2, SaveType DEF SetTask

LEMMA ForgetType ==
  ASSUME TypeOK, NEW w \in Workers, Forget(w)
  PROVE  /\ pc' \in [Workers -> Labels] /\ run' \in [Workers -> Runs \cup {None}]
         /\ mode' \in [Workers -> {"run", "resume"}] /\ mem' \in [Workers -> RunRecord]
         /\ at' \in [Workers -> 1 .. NTasks + 1] /\ passed' \in [Workers -> BOOLEAN]
         /\ blocked' \in [Workers -> SUBSET Tasks]
         /\ \A v \in Workers : (run'[v] = None) <=> (pc'[v] = "idle")
         /\ \A v \in Workers : pc'[v] \notin PastTheEnd => at'[v] \in Tasks
<1>1. NoRecord \in RunRecord /\ 1 \in Tasks /\ 1 \in 1 .. NTasks + 1
  BY NTasksAssumption, BlankRecordsType DEF Tasks
<1> QED
  BY <1>1 DEF TypeOK, Forget, Labels

-----------------------------------------------------------------------------
(* Type correctness.                                                       *)

(* Every step keeps every variable in its range: one step per action.      *)
LEMMA TypeStep == TypeOK /\ [Next]_vars => TypeOK'
<1> SUFFICES ASSUME TypeOK, [Next]_vars PROVE TypeOK'
  OBVIOUS
<1> USE NTasksAssumption, NamesAssumption
<1>u. ASSUME UNCHANGED vars PROVE TypeOK'
  BY <1>u DEF TypeOK, GitTypeOK, vars, runVars, gitVars
<1>1. ASSUME NEW w \in Workers, NEW r \in Runs, StartRun(w, r)
      PROVE  TypeOK'
  BY <1>1 DEF TypeOK, GitTypeOK, Goto, slotVars, loopVars, gitVars, Labels, Executing, SetupSteps,
     LoopSteps, TaskSteps, PastTheEnd, StartRun
<1>2. ASSUME NEW w \in Workers, ReleaseLease(w)
      PROVE  TypeOK'
  BY <1>2, ForgetType DEF TypeOK, GitTypeOK, Goto, slotVars, loopVars, gitVars, Labels, Executing,
     SetupSteps, LoopSteps, TaskSteps, PastTheEnd, ReleaseLease
<1>3. ASSUME NEW w \in Workers, CreateRun(w)
      PROVE  TypeOK'
  <2>1. NewRecord \in RunRecord /\ pc[w] # "idle"
    BY <1>3, BlankRecordsType DEF CreateRun
  <2>2. disk' \in [Runs -> RunRecord] /\ mem' \in [Workers -> RunRecord]
    BY <1>3, <2>1, SaveType DEF CreateRun
  <2> QED
    BY <1>3, <2>1, <2>2 DEF TypeOK, GitTypeOK, Goto, slotVars, loopVars, gitVars, Labels, Executing,
       SetupSteps, LoopSteps, TaskSteps, PastTheEnd, CreateRun
<1>4. ASSUME NEW w \in Workers, PrepareBranch(w)
      PROVE  TypeOK'
  <2>1. /\ mem[w] \in RunRecord /\ run[w] \in Runs
        /\ AgentBranchFor(run[w]) \in Branches
    BY <1>4 DEF TypeOK, GitTypeOK, PrepareBranch, AgentBranchFor, Branches
  <2>2. [mem[w] EXCEPT !.branch = AgentBranchFor(run[w])] \in RunRecord
    BY <2>1 DEF RunRecord
  <2>3. mem' \in [Workers -> RunRecord]
    BY <1>4, <2>2 DEF TypeOK, PrepareBranch
  <2>4. GitTypeOK'
    BY <1>4, <2>1 DEF TypeOK, GitTypeOK, PrepareBranch, CreateAgentBranch, Branches
  <2> QED
    BY <1>4, <2>3, <2>4 DEF TypeOK, GitTypeOK, Goto, slotVars, loopVars, gitVars, Labels, Executing,
       SetupSteps, LoopSteps, TaskSteps, PastTheEnd, PrepareBranch
<1>5. ASSUME NEW w \in Workers, BindBranch(w)
      PROVE  TypeOK'
  <2>1. mem[w] \in RunRecord /\ pc[w] # "idle"
    BY <1>5 DEF TypeOK, BindBranch, PastTheEnd
  <2>2. disk' \in [Runs -> RunRecord] /\ mem' \in [Workers -> RunRecord]
    BY <1>5, <2>1, SaveType DEF BindBranch
  <2> QED
    BY <1>5, <2>2 DEF TypeOK, GitTypeOK, Goto, slotVars, loopVars, gitVars, Labels, Executing,
       SetupSteps, LoopSteps, TaskSteps, PastTheEnd, BindBranch
<1>6. ASSUME NEW w \in Workers, AppendTask(w)
      PROVE  TypeOK'
  <2>1. /\ AddTask(mem[w], at[w]) \in RunRecord /\ pc[w] # "idle"
        /\ at[w] \in Tasks
    BY <1>6, RecordsType DEF TypeOK, AppendTask, PastTheEnd
  <2>2. disk' \in [Runs -> RunRecord] /\ mem' \in [Workers -> RunRecord]
    BY <1>6, <2>1, SaveType DEF AppendTask
  <2>3. at' \in [Workers -> 1 .. NTasks + 1] /\ at'[w] \in Tasks
    BY <1>6, <2>1 DEF TypeOK, AppendTask, Tasks
  <2>4. pc' \in [Workers -> Labels] /\ pc'[w] \in {"dispatch", "append"}
    BY <1>6 DEF TypeOK, AppendTask, Goto, Labels, Executing, LoopSteps, SetupSteps
  <2>5. \A v \in Workers \ {w} : pc'[v] = pc[v] /\ at'[v] = at[v]
    BY <1>6 DEF TypeOK, AppendTask, Goto
  <2> QED
    BY <1>6, <2>1, <2>2, <2>3, <2>4, <2>5
       DEF TypeOK, GitTypeOK, AppendTask, slotVars, gitVars
<1>7. ASSUME NEW w \in Workers, RefuseDirtyTree(w)
      PROVE  TypeOK'
  BY <1>7 DEF TypeOK, GitTypeOK, Goto, slotVars, loopVars, gitVars, Labels, Executing, SetupSteps,
     LoopSteps, TaskSteps, PastTheEnd, RefuseDirtyTree, Leave
<1>8. ASSUME NEW w \in Workers, NEW r \in Runs, LoadForResume(w, r)
      PROVE  TypeOK'
  BY <1>8 DEF TypeOK, GitTypeOK, Goto, slotVars, loopVars, gitVars, Labels, Executing, SetupSteps,
     LoopSteps, TaskSteps, PastTheEnd, LoadForResume
<1>9. ASSUME NEW w \in Workers, AcquireForResume(w)
      PROVE  TypeOK'
  BY <1>9 DEF TypeOK, GitTypeOK, Goto, slotVars, loopVars, gitVars, Labels, Executing, SetupSteps,
     LoopSteps, TaskSteps, PastTheEnd, AcquireForResume
<1>10. ASSUME NEW w \in Workers, SlotTaken(w)
      PROVE  TypeOK'
  BY <1>10, ForgetType DEF TypeOK, GitTypeOK, Goto, slotVars, loopVars, gitVars, Labels, Executing,
     SetupSteps, LoopSteps, TaskSteps, PastTheEnd, SlotTaken
<1>11. ASSUME NEW w \in Workers, RefuseResume(w)
      PROVE  TypeOK'
  BY <1>11 DEF TypeOK, GitTypeOK, Goto, slotVars, loopVars, gitVars, Labels, Executing, SetupSteps,
     LoopSteps, TaskSteps, PastTheEnd, RefuseResume, Leave
<1>12. ASSUME NEW w \in Workers, SetupResume(w)
      PROVE  TypeOK'
  <2>1. mem[w].branch \in Branches
    BY <1>12 DEF TypeOK, SetupResume, RunRecord
  <2> QED
    BY <1>12, <2>1 DEF TypeOK, GitTypeOK, Goto, slotVars, loopVars, gitVars, Labels, Executing,
       SetupSteps, LoopSteps, TaskSteps, PastTheEnd, SetupResume, SwitchBranch
<1>13. ASSUME NEW w \in Workers, NEW r \in Runs, NEW t \in Tasks, LoadForApproval(w, r, t)
      PROVE  TypeOK'
  BY <1>13 DEF TypeOK, GitTypeOK, Goto, slotVars, loopVars, gitVars, Labels, Executing, SetupSteps,
     LoopSteps, TaskSteps, PastTheEnd, LoadForApproval, Tasks
<1>14. ASSUME NEW w \in Workers, SaveApproval(w)
      PROVE  TypeOK'
  <2>1. /\ run[w] \in Runs /\ at[w] \in Tasks
        /\ ApproveTask(mem[w], at[w]) \in RunRecord
    BY <1>14, RecordsType DEF TypeOK, SaveApproval, PastTheEnd
  <2> QED
    BY <1>14, <2>1, ForgetType DEF TypeOK, GitTypeOK, Goto, slotVars, loopVars, gitVars, Labels,
       Executing, SetupSteps, LoopSteps, TaskSteps, PastTheEnd, SaveApproval, Work
<1>15. ASSUME NEW w \in Workers, SkipPassed(w)
      PROVE  TypeOK'
  BY <1>15 DEF TypeOK, GitTypeOK, Goto, slotVars, loopVars, gitVars, Labels, Executing, SetupSteps,
     LoopSteps, TaskSteps, PastTheEnd, SkipPassed, NextTask, Tasks
<1>16. ASSUME NEW w \in Workers, EndOfPlan(w)
      PROVE  TypeOK'
  BY <1>16 DEF TypeOK, GitTypeOK, Goto, slotVars, loopVars, gitVars, Labels, Executing, SetupSteps,
     LoopSteps, TaskSteps, PastTheEnd, EndOfPlan
<1>17. ASSUME NEW w \in Workers, RefuseFinishedTask(w)
      PROVE  TypeOK'
  BY <1>17 DEF TypeOK, GitTypeOK, Goto, slotVars, loopVars, gitVars, Labels, Executing, SetupSteps,
     LoopSteps, TaskSteps, PastTheEnd, RefuseFinishedTask, Leave
<1>18. ASSUME NEW w \in Workers, DispatchTask(w)
      PROVE  TypeOK'
  <2>1. /\ mem[w] \in RunRecord /\ at[w] \in Tasks /\ pc[w] # "idle"
        /\ MarkUnreached(mem[w], at[w], "blocked") \in RunRecord
        /\ MarkWaitingForApproval(mem[w], at[w]) \in RunRecord
    BY <1>18, RecordsType DEF TypeOK, DispatchTask
  <2>2. CASE MissingDeps(w) # {}
    <3>1. BlockOnMissing(w) /\ UNCHANGED <<slotVars, gitVars>>
      BY <1>18, <2>2 DEF DispatchTask
    <3>2. disk' \in [Runs -> RunRecord] /\ mem' \in [Workers -> RunRecord]
      BY <2>1, <3>1, SaveType DEF BlockOnMissing
    <3>3. \A d \in MissingDeps(w) : d \in Tasks
      BY <2>1, PlanAssumption DEF MissingDeps
    <3>4. /\ pc' \in [Workers -> Labels] /\ pc'[w] \in {"mark", "finalize"}
          /\ \A v \in Workers \ {w} : pc'[v] = pc[v]
      BY <3>1 DEF TypeOK, BlockOnMissing, Goto, Labels, Executing, LoopSteps
    <3>5. passed' \in [Workers -> BOOLEAN] /\ blocked' \in [Workers -> SUBSET Tasks]
      <4>1. CASE mode[w] = "run"
        <5>1. PICK d \in MissingDeps(w) : blocked' = [blocked EXCEPT ![w] = {d}]
          BY <3>1, <4>1 DEF BlockOnMissing
        <5> QED
          BY <3>1, <3>3, <4>1, <5>1 DEF TypeOK, BlockOnMissing
      <4>2. CASE mode[w] # "run"
        BY <3>1, <4>2 DEF TypeOK, BlockOnMissing
      <4> QED
        BY <4>1, <4>2
    <3>6. UNCHANGED <<at, slotVars, gitVars>>
      BY <3>1 DEF BlockOnMissing
    <3> QED
      BY <2>1, <3>2, <3>4, <3>5, <3>6 DEF TypeOK, GitTypeOK, slotVars, gitVars
  <2>3. CASE MissingDeps(w) = {} /\ MustWait(mem[w], at[w])
    <3>1. /\ Save(w, MarkWaitingForApproval(mem[w], at[w])) /\ Goto(w, "release")
          /\ UNCHANGED <<loopVars, slotVars, gitVars>>
      BY <1>18, <2>3 DEF DispatchTask
    <3>2. disk' \in [Runs -> RunRecord] /\ mem' \in [Workers -> RunRecord]
      BY <2>1, <3>1, SaveType
    <3> QED
      BY <2>1, <3>1, <3>2 DEF TypeOK, GitTypeOK, Goto, slotVars, loopVars, gitVars, Labels,
         Executing, SetupSteps, LoopSteps, TaskSteps, PastTheEnd
  <2>4. CASE MissingDeps(w) = {} /\ ~MustWait(mem[w], at[w])
    <3>1. /\ pc' = [pc EXCEPT ![w] = "code"] \/ pc' = [pc EXCEPT ![w] = "check"]
          /\ UNCHANGED <<disk, mem, loopVars, slotVars, gitVars>>
      BY <1>18, <2>4 DEF DispatchTask, Goto
    <3> QED
      BY <1>18, <2>1, <3>1 DEF TypeOK, GitTypeOK, Goto, slotVars, loopVars, gitVars, Labels,
         Executing, SetupSteps, LoopSteps, TaskSteps, PastTheEnd, DispatchTask
  <2> QED
    BY <2>2, <2>3, <2>4
<1>19. ASSUME NEW w \in Workers, StartCode(w)
      PROVE  TypeOK'
  <2>1. disk' \in [Runs -> RunRecord] /\ mem' \in [Workers -> RunRecord]
    BY <1>19, SetTaskType DEF StartCode, TaskSteps
  <2> QED
    BY <1>19, <2>1 DEF TypeOK, GitTypeOK, Goto, slotVars, loopVars, gitVars, Labels, Executing,
       SetupSteps, LoopSteps, TaskSteps, PastTheEnd, StartCode
<1>20. ASSUME NEW w \in Workers, EditTree(w)
      PROVE  TypeOK'
  BY <1>20 DEF TypeOK, GitTypeOK, Goto, slotVars, loopVars, gitVars, Labels, Executing, SetupSteps,
     LoopSteps, TaskSteps, PastTheEnd, EditTree, WriteTree, Work, Tasks
<1>21. ASSUME NEW w \in Workers, RejectAttempts(w)
      PROVE  TypeOK'
  BY <1>21 DEF TypeOK, GitTypeOK, Goto, slotVars, loopVars, gitVars, Labels, Executing, SetupSteps,
     LoopSteps, TaskSteps, PastTheEnd, RejectAttempts, Rollback
<1>22. ASSUME NEW w \in Workers, RecordRejection(w)
      PROVE  TypeOK'
  <2>1. disk' \in [Runs -> RunRecord] /\ mem' \in [Workers -> RunRecord]
    BY <1>22, SetTaskType DEF RecordRejection, TaskSteps
  <2> QED
    BY <1>22, <2>1 DEF TypeOK, GitTypeOK, Goto, slotVars, loopVars, gitVars, Labels, Executing,
       SetupSteps, LoopSteps, TaskSteps, PastTheEnd, RecordRejection
<1>23. ASSUME NEW w \in Workers, AcceptAttempt(w)
      PROVE  TypeOK'
  <2>1. disk' \in [Runs -> RunRecord] /\ mem' \in [Workers -> RunRecord]
    BY <1>23, SetTaskType DEF AcceptAttempt, TaskSteps
  <2> QED
    BY <1>23, <2>1 DEF TypeOK, GitTypeOK, Goto, slotVars, loopVars, gitVars, Labels, Executing,
       SetupSteps, LoopSteps, TaskSteps, PastTheEnd, AcceptAttempt
<1>24. ASSUME NEW w \in Workers, AttemptRaises(w)
      PROVE  TypeOK'
  <2>1. disk' \in [Runs -> RunRecord] /\ mem' \in [Workers -> RunRecord]
    BY <1>24, SetTaskType DEF AttemptRaises, TaskSteps
  <2> QED
    BY <1>24, <2>1 DEF TypeOK, GitTypeOK, Goto, slotVars, loopVars, gitVars, Labels, Executing,
       SetupSteps, LoopSteps, TaskSteps, PastTheEnd, AttemptRaises
<1>25. ASSUME NEW w \in Workers, UndoAndRaise(w)
      PROVE  TypeOK'
  BY <1>25 DEF TypeOK, GitTypeOK, Goto, slotVars, loopVars, gitVars, Labels, Executing, SetupSteps,
     LoopSteps, TaskSteps, PastTheEnd, UndoAndRaise, Rollback, Leave
<1>26. ASSUME NEW w \in Workers, PassReview(w)
      PROVE  TypeOK'
  <2>1. mem[w] \in RunRecord /\ pc[w] # "idle"
    BY <1>26 DEF TypeOK, PassReview, PastTheEnd
  <2>2. disk' \in [Runs -> RunRecord] /\ mem' \in [Workers -> RunRecord]
    BY <1>26, <2>1, SaveType DEF PassReview
  <2> QED
    BY <1>26, <2>2 DEF TypeOK, GitTypeOK, Goto, slotVars, loopVars, gitVars, Labels, Executing,
       SetupSteps, LoopSteps, TaskSteps, PastTheEnd, PassReview
<1>27. ASSUME NEW w \in Workers, FailReview(w)
      PROVE  TypeOK'
  <2>1. disk' \in [Runs -> RunRecord] /\ mem' \in [Workers -> RunRecord]
    BY <1>27, SetTaskType DEF FailReview, TaskSteps
  <2> QED
    BY <1>27, <2>1 DEF TypeOK, GitTypeOK, Goto, slotVars, loopVars, gitVars, Labels, Executing,
       SetupSteps, LoopSteps, TaskSteps, PastTheEnd, FailReview
<1>28. ASSUME NEW w \in Workers, CommitTask(w)
      PROVE  TypeOK'
  BY <1>28 DEF TypeOK, GitTypeOK, Goto, slotVars, loopVars, gitVars, Labels, Executing, SetupSteps,
     LoopSteps, TaskSteps, PastTheEnd, CommitTask, Checkpoint, NextTask, Tasks
<1>29. ASSUME NEW w \in Workers, CommitFails(w)
      PROVE  TypeOK'
  <2>1. disk' \in [Runs -> RunRecord] /\ mem' \in [Workers -> RunRecord]
    BY <1>29, SetTaskType DEF CommitFails, TaskSteps
  <2> QED
    BY <1>29, <2>1 DEF TypeOK, GitTypeOK, Goto, slotVars, loopVars, gitVars, Labels, Executing,
       SetupSteps, LoopSteps, TaskSteps, PastTheEnd, CommitFails
<1>30. ASSUME NEW w \in Workers, UndoTask(w)
      PROVE  TypeOK'
  BY <1>30 DEF TypeOK, GitTypeOK, Goto, slotVars, loopVars, gitVars, Labels, Executing, SetupSteps,
     LoopSteps, TaskSteps, PastTheEnd, UndoTask, Rollback
<1>31. ASSUME NEW w \in Workers, StartCheck(w)
      PROVE  TypeOK'
  <2>1. disk' \in [Runs -> RunRecord] /\ mem' \in [Workers -> RunRecord]
    BY <1>31, SetTaskType DEF StartCheck, TaskSteps
  <2> QED
    BY <1>31, <2>1 DEF TypeOK, GitTypeOK, Goto, slotVars, loopVars, gitVars, Labels, Executing,
       SetupSteps, LoopSteps, TaskSteps, PastTheEnd, StartCheck
<1>32. ASSUME NEW w \in Workers, RunCheck(w)
      PROVE  TypeOK'
  <2>1. /\ mem[w] \in RunRecord /\ pc[w] # "idle"
        /\ <<run[w], at[w]>> \in Work
    BY <1>32 DEF TypeOK, RunCheck, PastTheEnd, Work
  <2>2. disk' \in [Runs -> RunRecord] /\ mem' \in [Workers -> RunRecord]
    BY <1>32, <2>1, SaveType DEF RunCheck
  <2>3. GitTypeOK'
    BY <1>32, <2>1 DEF TypeOK, GitTypeOK, RunCheck, WriteTree, gitVars
  <2> QED
    BY <1>32, <2>2, <2>3 DEF TypeOK, GitTypeOK, Goto, slotVars, loopVars, gitVars, Labels,
       Executing, SetupSteps, LoopSteps, TaskSteps, PastTheEnd, RunCheck
<1>33. ASSUME NEW w \in Workers, CheckPasses(w)
      PROVE  TypeOK'
  <2>1. disk' \in [Runs -> RunRecord] /\ mem' \in [Workers -> RunRecord]
    BY <1>33, SetTaskType DEF CheckPasses, TaskSteps
  <2>2. at[w] \in Tasks
    BY <1>33 DEF TypeOK, CheckPasses, PastTheEnd
  <2>3. at' \in [Workers -> 1 .. NTasks + 1] /\ \A v \in Workers \ {w} : at'[v] = at[v]
    BY <1>33, <2>2 DEF TypeOK, CheckPasses, NextTask, Tasks
  <2> QED
    BY <1>33, <2>1, <2>3 DEF TypeOK, GitTypeOK, CheckPasses, Goto, NextTask, slotVars, gitVars,
       Labels, Executing, LoopSteps, PastTheEnd
<1>34. ASSUME NEW w \in Workers, CheckFails(w)
      PROVE  TypeOK'
  <2>1. disk' \in [Runs -> RunRecord] /\ mem' \in [Workers -> RunRecord]
    BY <1>34, SetTaskType DEF CheckFails, TaskSteps
  <2> QED
    BY <1>34, <2>1 DEF TypeOK, GitTypeOK, Goto, slotVars, loopVars, gitVars, Labels, Executing,
       SetupSteps, LoopSteps, TaskSteps, PastTheEnd, CheckFails
<1>35. ASSUME NEW w \in Workers, MarkNext(w)
      PROVE  TypeOK'
  <2>1. mem[w] \in RunRecord /\ pc[w] # "idle"
    BY <1>35 DEF TypeOK, MarkNext
  <2>2. PICK t \in Unmarked(w) : MarkTask(w, t)
    BY <1>35 DEF MarkNext
  <2>3. t \in Tasks
    BY DEF TasksIn, Unmarked
  <2>4. \A s \in {"blocked", "skipped"} : MarkUnreached(mem[w], t, s) \in RunRecord
    BY <2>1, <2>3, RecordsType
  <2>5. disk' \in [Runs -> RunRecord] /\ mem' \in [Workers -> RunRecord]
    BY <2>1, <2>2, <2>4, SaveType DEF MarkTask
  <2>6. blocked' \in [Workers -> SUBSET Tasks]
    BY <2>2, <2>3 DEF TypeOK, MarkTask
  <2>7. UNCHANGED <<pc, slotVars, at, passed, gitVars>>
    BY <1>35 DEF MarkNext
  <2> QED
    BY <2>5, <2>6, <2>7 DEF TypeOK, GitTypeOK, slotVars, gitVars
<1>36. ASSUME NEW w \in Workers, MarkDone(w)
      PROVE  TypeOK'
  BY <1>36 DEF TypeOK, GitTypeOK, Goto, slotVars, loopVars, gitVars, Labels, Executing, SetupSteps,
     LoopSteps, TaskSteps, PastTheEnd, MarkDone
<1>37. ASSUME NEW w \in Workers, BeginFinalize(w)
      PROVE  TypeOK'
  <2>1. [mem[w] EXCEPT !.status = "running"] \in RunRecord /\ pc[w] # "idle"
    BY <1>37, FinishedRecordsType DEF TypeOK, BeginFinalize
  <2>2. disk' \in [Runs -> RunRecord] /\ mem' \in [Workers -> RunRecord]
    BY <1>37, <2>1, SaveType DEF BeginFinalize
  <2> QED
    BY <1>37, <2>2 DEF TypeOK, GitTypeOK, Goto, slotVars, loopVars, gitVars, Labels, Executing,
       SetupSteps, LoopSteps, TaskSteps, PastTheEnd, BeginFinalize
<1>38. ASSUME NEW w \in Workers, EndFinalize(w)
      PROVE  TypeOK'
  <2>1. PICK finalized \in BOOLEAN : Save(w, FinishRun(mem[w], passed[w] /\ finalized))
    BY <1>38 DEF EndFinalize
  <2>2. FinishRun(mem[w], passed[w] /\ finalized) \in RunRecord /\ pc[w] # "idle"
    BY <1>38, FinishedRecordsType DEF TypeOK, EndFinalize
  <2>3. disk' \in [Runs -> RunRecord] /\ mem' \in [Workers -> RunRecord]
    BY <2>1, <2>2, SaveType
  <2> QED
    BY <1>38, <2>3 DEF TypeOK, GitTypeOK, Goto, slotVars, loopVars, gitVars, Labels, Executing,
       SetupSteps, LoopSteps, TaskSteps, PastTheEnd, EndFinalize
<1>39. ASSUME NEW w \in Workers, Fault(w)
      PROVE  TypeOK'
  <2>1. faults' \in 0 .. MaxFaults
    BY <1>39, FaultsAssumption DEF TypeOK, Fault, Interrupt, Kill
  <2> QED
    BY <1>39, <2>1, ForgetType DEF TypeOK, GitTypeOK, Goto, slotVars, loopVars, gitVars, Labels,
       Executing, SetupSteps, LoopSteps, TaskSteps, PastTheEnd, Fault, Interrupt, Kill
<1>40. ASSUME User PROVE TypeOK'
  BY <1>40 DEF TypeOK, GitTypeOK, User, UserCleansTree, UserSwitchesTo, runVars
<1> QED
  BY <1>u, <1>1, <1>2, <1>3, <1>4, <1>5, <1>6, <1>7, <1>8, <1>9, <1>10, <1>11, <1>12, <1>13, <1>14,
     <1>15, <1>16, <1>17, <1>18, <1>19, <1>20, <1>21, <1>22, <1>23, <1>24, <1>25, <1>26, <1>27,
     <1>28, <1>29, <1>30, <1>31, <1>32, <1>33, <1>34, <1>35, <1>36, <1>37, <1>38, <1>39, <1>40 DEF
     Next, Step, Call

(* Spec implies type correctness.                                          *)
THEOREM TypeCorrect == Spec => []TypeOK
<1>1. Init => TypeOK
  <2> SUFFICES ASSUME Init PROVE TypeOK
    OBVIOUS
  <2>1. NoRecord \in RunRecord
    BY BlankRecordsType
  <2> QED
    BY <2>1, NTasksAssumption, FaultsAssumption
       DEF Init, GitInit, TypeOK, GitTypeOK, Branches, Labels, Tasks
<1> QED
  BY <1>1, TypeStep, PTL DEF Spec

-----------------------------------------------------------------------------
(* Mutual exclusion.                                                       *)

(* The inductive strengthening of AtMostOneExecution: who executes and who *)
(* owns the lease file are the same.                                       *)
SlotInv == \A w \in Workers : pc[w] \in Executing <=> lease = w

(* Inside an execution a worker moves from label to label of Executing and *)
(* leaves the lease alone.                                                 *)
InsideExecution(w) ==
  /\ pc[w] \in Executing
  /\ \E label \in Executing : pc' = [pc EXCEPT ![w] = label]
  /\ UNCHANGED lease

LEMMA InsideKeepsSlot ==
  ASSUME TypeOK, SlotInv, NEW w \in Workers, InsideExecution(w)
  PROVE  SlotInv'
BY DEF TypeOK, SlotInv, InsideExecution

LEMMA ForgetLeaves ==
  ASSUME TypeOK, NEW w \in Workers, Forget(w)
  PROVE  pc'[w] \notin Executing /\ \A v \in Workers \ {w} : pc'[v] = pc[v]
BY DEF TypeOK, Forget, Executing, SetupSteps, LoopSteps, TaskSteps

LEMMA SlotStep == TypeOK /\ SlotInv /\ [Next]_vars => SlotInv'
<1> SUFFICES ASSUME TypeOK, SlotInv, [Next]_vars PROVE SlotInv'
  OBVIOUS
<1> USE DEF Executing, SetupSteps, LoopSteps, TaskSteps
<1>u. ASSUME UNCHANGED vars PROVE SlotInv'
  BY <1>u DEF SlotInv, vars, runVars
<1>1. ASSUME NEW w \in Workers, CreateRun(w) PROVE SlotInv'
  <2>1. InsideExecution(w)
    BY <1>1 DEF CreateRun, InsideExecution, Goto, Leave, slotVars
  <2> QED
    BY <2>1, InsideKeepsSlot
<1>2. ASSUME NEW w \in Workers, PrepareBranch(w) PROVE SlotInv'
  <2>1. InsideExecution(w)
    BY <1>2 DEF PrepareBranch, InsideExecution, Goto, Leave, slotVars
  <2> QED
    BY <2>1, InsideKeepsSlot
<1>3. ASSUME NEW w \in Workers, BindBranch(w) PROVE SlotInv'
  <2>1. InsideExecution(w)
    BY <1>3 DEF BindBranch, InsideExecution, Goto, Leave, slotVars
  <2> QED
    BY <2>1, InsideKeepsSlot
<1>4. ASSUME NEW w \in Workers, AppendTask(w) PROVE SlotInv'
  <2>1. InsideExecution(w)
    BY <1>4 DEF AppendTask, InsideExecution, Goto, Leave, slotVars
  <2> QED
    BY <2>1, InsideKeepsSlot
<1>5. ASSUME NEW w \in Workers, RefuseDirtyTree(w) PROVE SlotInv'
  <2>1. InsideExecution(w)
    BY <1>5 DEF RefuseDirtyTree, InsideExecution, Goto, Leave, slotVars
  <2> QED
    BY <2>1, InsideKeepsSlot
<1>6. ASSUME NEW w \in Workers, RefuseResume(w) PROVE SlotInv'
  <2>1. InsideExecution(w)
    BY <1>6 DEF RefuseResume, InsideExecution, Goto, Leave, slotVars
  <2> QED
    BY <2>1, InsideKeepsSlot
<1>7. ASSUME NEW w \in Workers, SetupResume(w) PROVE SlotInv'
  <2>1. InsideExecution(w)
    BY <1>7 DEF SetupResume, InsideExecution, Goto, Leave, slotVars
  <2> QED
    BY <2>1, InsideKeepsSlot
<1>8. ASSUME NEW w \in Workers, EndOfPlan(w) PROVE SlotInv'
  <2>1. InsideExecution(w)
    BY <1>8 DEF EndOfPlan, InsideExecution, Goto, Leave, slotVars
  <2> QED
    BY <2>1, InsideKeepsSlot
<1>9. ASSUME NEW w \in Workers, RefuseFinishedTask(w) PROVE SlotInv'
  <2>1. InsideExecution(w)
    BY <1>9 DEF RefuseFinishedTask, InsideExecution, Goto, Leave, slotVars
  <2> QED
    BY <2>1, InsideKeepsSlot
<1>10. ASSUME NEW w \in Workers, StartCode(w) PROVE SlotInv'
  <2>1. InsideExecution(w)
    BY <1>10 DEF StartCode, InsideExecution, Goto, Leave, slotVars
  <2> QED
    BY <2>1, InsideKeepsSlot
<1>11. ASSUME NEW w \in Workers, EditTree(w) PROVE SlotInv'
  <2>1. InsideExecution(w)
    BY <1>11 DEF EditTree, InsideExecution, Goto, Leave, slotVars
  <2> QED
    BY <2>1, InsideKeepsSlot
<1>12. ASSUME NEW w \in Workers, RejectAttempts(w) PROVE SlotInv'
  <2>1. InsideExecution(w)
    BY <1>12 DEF RejectAttempts, InsideExecution, Goto, Leave, slotVars
  <2> QED
    BY <2>1, InsideKeepsSlot
<1>13. ASSUME NEW w \in Workers, RecordRejection(w) PROVE SlotInv'
  <2>1. InsideExecution(w)
    BY <1>13 DEF RecordRejection, InsideExecution, Goto, Leave, slotVars
  <2> QED
    BY <2>1, InsideKeepsSlot
<1>14. ASSUME NEW w \in Workers, AcceptAttempt(w) PROVE SlotInv'
  <2>1. InsideExecution(w)
    BY <1>14 DEF AcceptAttempt, InsideExecution, Goto, Leave, slotVars
  <2> QED
    BY <2>1, InsideKeepsSlot
<1>15. ASSUME NEW w \in Workers, AttemptRaises(w) PROVE SlotInv'
  <2>1. InsideExecution(w)
    BY <1>15 DEF AttemptRaises, InsideExecution, Goto, Leave, slotVars
  <2> QED
    BY <2>1, InsideKeepsSlot
<1>16. ASSUME NEW w \in Workers, UndoAndRaise(w) PROVE SlotInv'
  <2>1. InsideExecution(w)
    BY <1>16 DEF UndoAndRaise, InsideExecution, Goto, Leave, slotVars
  <2> QED
    BY <2>1, InsideKeepsSlot
<1>17. ASSUME NEW w \in Workers, PassReview(w) PROVE SlotInv'
  <2>1. InsideExecution(w)
    BY <1>17 DEF PassReview, InsideExecution, Goto, Leave, slotVars
  <2> QED
    BY <2>1, InsideKeepsSlot
<1>18. ASSUME NEW w \in Workers, FailReview(w) PROVE SlotInv'
  <2>1. InsideExecution(w)
    BY <1>18 DEF FailReview, InsideExecution, Goto, Leave, slotVars
  <2> QED
    BY <2>1, InsideKeepsSlot
<1>19. ASSUME NEW w \in Workers, CommitTask(w) PROVE SlotInv'
  <2>1. InsideExecution(w)
    BY <1>19 DEF CommitTask, InsideExecution, Goto, Leave, slotVars
  <2> QED
    BY <2>1, InsideKeepsSlot
<1>20. ASSUME NEW w \in Workers, CommitFails(w) PROVE SlotInv'
  <2>1. InsideExecution(w)
    BY <1>20 DEF CommitFails, InsideExecution, Goto, Leave, slotVars
  <2> QED
    BY <2>1, InsideKeepsSlot
<1>21. ASSUME NEW w \in Workers, UndoTask(w) PROVE SlotInv'
  <2>1. InsideExecution(w)
    BY <1>21 DEF UndoTask, InsideExecution, Goto, Leave, slotVars
  <2> QED
    BY <2>1, InsideKeepsSlot
<1>22. ASSUME NEW w \in Workers, StartCheck(w) PROVE SlotInv'
  <2>1. InsideExecution(w)
    BY <1>22 DEF StartCheck, InsideExecution, Goto, Leave, slotVars
  <2> QED
    BY <2>1, InsideKeepsSlot
<1>23. ASSUME NEW w \in Workers, RunCheck(w) PROVE SlotInv'
  <2>1. InsideExecution(w)
    BY <1>23 DEF RunCheck, InsideExecution, Goto, Leave, slotVars
  <2> QED
    BY <2>1, InsideKeepsSlot
<1>24. ASSUME NEW w \in Workers, CheckPasses(w) PROVE SlotInv'
  <2>1. InsideExecution(w)
    BY <1>24 DEF CheckPasses, InsideExecution, Goto, Leave, slotVars
  <2> QED
    BY <2>1, InsideKeepsSlot
<1>25. ASSUME NEW w \in Workers, CheckFails(w) PROVE SlotInv'
  <2>1. InsideExecution(w)
    BY <1>25 DEF CheckFails, InsideExecution, Goto, Leave, slotVars
  <2> QED
    BY <2>1, InsideKeepsSlot
<1>26. ASSUME NEW w \in Workers, MarkDone(w) PROVE SlotInv'
  <2>1. InsideExecution(w)
    BY <1>26 DEF MarkDone, InsideExecution, Goto, Leave, slotVars
  <2> QED
    BY <2>1, InsideKeepsSlot
<1>27. ASSUME NEW w \in Workers, BeginFinalize(w) PROVE SlotInv'
  <2>1. InsideExecution(w)
    BY <1>27 DEF BeginFinalize, InsideExecution, Goto, Leave, slotVars
  <2> QED
    BY <2>1, InsideKeepsSlot
<1>28. ASSUME NEW w \in Workers, EndFinalize(w) PROVE SlotInv'
  <2>1. InsideExecution(w)
    BY <1>28 DEF EndFinalize, InsideExecution, Goto, Leave, slotVars
  <2> QED
    BY <2>1, InsideKeepsSlot
<1>29. ASSUME NEW w \in Workers, SkipPassed(w) PROVE SlotInv'
  BY <1>29 DEF SkipPassed, SlotInv, slotVars
<1>30. ASSUME NEW w \in Workers, MarkNext(w) PROVE SlotInv'
  BY <1>30 DEF MarkNext, SlotInv, slotVars
<1>31. ASSUME NEW w \in Workers, DispatchTask(w) PROVE SlotInv'
  <2>1. CASE MissingDeps(w) # {}
    <3>1. /\ BlockOnMissing(w) /\ UNCHANGED slotVars /\ pc[w] = "dispatch"
      BY <1>31, <2>1 DEF DispatchTask
    <3>2. InsideExecution(w)
      BY <3>1 DEF BlockOnMissing, InsideExecution, Goto, slotVars
    <3> QED
      BY <3>2, InsideKeepsSlot
  <2>2. CASE MissingDeps(w) = {}
    <3>1. InsideExecution(w)
      BY <1>31, <2>2 DEF DispatchTask, InsideExecution, Goto, slotVars
    <3> QED
      BY <3>1, InsideKeepsSlot
  <2> QED
    BY <2>1, <2>2
<1>32. ASSUME NEW w \in Workers, NEW r \in Runs, StartRun(w, r) PROVE SlotInv'
  BY <1>32, WorkersAssumption DEF StartRun, SlotFree, SlotInv, Goto, TypeOK
<1>33. ASSUME NEW w \in Workers, AcquireForResume(w) PROVE SlotInv'
  BY <1>33, WorkersAssumption DEF AcquireForResume, SlotFree, SlotInv, Goto, TypeOK
<1>34. ASSUME NEW w \in Workers, ReleaseLease(w) PROVE SlotInv'
  BY <1>34, ForgetLeaves, WorkersAssumption DEF ReleaseLease, SlotInv
<1>35. ASSUME NEW w \in Workers, SlotTaken(w) PROVE SlotInv'
  BY <1>35, ForgetLeaves DEF SlotTaken, SlotInv
<1>36. ASSUME NEW w \in Workers, SaveApproval(w) PROVE SlotInv'
  BY <1>36, ForgetLeaves DEF SaveApproval, SlotInv
<1>37. ASSUME NEW w \in Workers, NEW r \in Runs, LoadForResume(w, r) PROVE SlotInv'
  BY <1>37 DEF LoadForResume, SlotInv, Goto, TypeOK
<1>38. ASSUME NEW w \in Workers, NEW r \in Runs, NEW t \in Tasks, LoadForApproval(w, r, t)
       PROVE SlotInv'
  BY <1>38 DEF LoadForApproval, SlotInv, Goto, TypeOK
<1>39. ASSUME NEW w \in Workers, Fault(w) PROVE SlotInv'
  BY <1>39, ForgetLeaves, WorkersAssumption DEF Fault, Interrupt, Kill, SlotInv
<1>40. ASSUME User PROVE SlotInv'
  BY <1>40 DEF User, UserCleansTree, UserSwitchesTo, runVars, SlotInv
<1> QED
  BY <1>u, <1>1, <1>2, <1>3, <1>4, <1>5, <1>6, <1>7, <1>8, <1>9, <1>10, <1>11, <1>12, <1>13, <1>14,
     <1>15, <1>16, <1>17, <1>18, <1>19, <1>20, <1>21, <1>22, <1>23, <1>24, <1>25, <1>26, <1>27,
     <1>28, <1>29, <1>30, <1>31, <1>32, <1>33, <1>34, <1>35, <1>36, <1>37, <1>38, <1>39, <1>40 DEF
     Next, Step, Call

LEMMA SlotInvariant == Spec => []SlotInv
<1>1. Init => SlotInv
  BY WorkersAssumption DEF Init, SlotInv, Executing, SetupSteps, LoopSteps, TaskSteps
<1> QED
  BY <1>1, TypeCorrect, SlotStep, PTL DEF Spec

(* The execution slot excludes, through interrupts, kills and resumes.     *)
THEOREM MutualExclusion == Spec => []AtMostOneExecution
<1>1. SlotInv => AtMostOneExecution
  BY DEF SlotInv, AtMostOneExecution
<1> QED
  BY <1>1, SlotInvariant, PTL

-----------------------------------------------------------------------------
(* Isolation of the agent branch.                                          *)

BranchSteps == LoopSteps \cup {"bind", "append"}

(* The inductive strengthening of WorksOnAgentBranch: no record names the  *)
(* user's branch, so the branch that is checked out during an execution is *)
(* never the user's, and nobody else moves HEAD meanwhile.                 *)
BranchInv ==
  /\ log[Main] = {}
  /\ \A r \in Runs : disk[r].branch # Main
  /\ \A w \in Workers : mem[w].branch # Main
  /\ \A w \in Workers : pc[w] \in BranchSteps => head = mem[w].branch

(* A step of w after which every record still names the branches it named. *)
BranchesKept(w) ==
  /\ head' = head /\ log'[Main] = log[Main]
  /\ \A r \in Runs : disk'[r].branch \in {disk[r].branch, mem[w].branch, None}
  /\ \A v \in Workers : mem'[v].branch = mem[v].branch
  /\ \A v \in Workers : pc'[v] \in BranchSteps => pc[v] \in BranchSteps

LEMMA KeptIsEnough ==
  ASSUME BranchInv, NEW w \in Workers, BranchesKept(w)
  PROVE  BranchInv'
BY NamesAssumption DEF BranchInv, BranchesKept

LEMMA MutatorsKeepBranch ==
  ASSUME NEW m \in RunRecord, NEW t \in Tasks
  PROVE  /\ NewRecord.branch = None
         /\ AddTask(m, t).branch = m.branch
         /\ MarkWaitingForApproval(m, t).branch = m.branch
         /\ ApproveTask(m, t).branch = m.branch
         /\ \A s \in {"blocked", "skipped"} : MarkUnreached(m, t, s).branch = m.branch
         /\ \A ok \in BOOLEAN : FinishRun(m, ok).branch = m.branch
         /\ \A s \in {"running", "passed", "failed"} : UpdateTask(m, t, s).branch = m.branch
         /\ [m EXCEPT !.status = "running"].branch = m.branch
BY DEF NewRecord, NoRecord, AddTask, MarkWaitingForApproval, ApproveTask, MarkUnreached, FinishRun,
   UpdateTask, RunRecord

LEMMA SaveKeepsBranches ==
  ASSUME TypeOK, NEW w \in Workers, NEW m, m.branch = mem[w].branch, Save(w, m)
  PROVE  /\ \A r \in Runs : disk'[r].branch \in {disk[r].branch, mem[w].branch, None}
         /\ \A v \in Workers : mem'[v].branch = mem[v].branch
BY DEF TypeOK, Save

(* A worker that returns leaves a blank record and no claim on HEAD.       *)
LEMMA ForgetKeepsBranch ==
  ASSUME TypeOK, BranchInv, NEW w \in Workers, Forget(w), UNCHANGED gitVars,
         \A r \in Runs : disk'[r].branch \in {disk[r].branch, mem[w].branch}
  PROVE  BranchInv'
<1>1. /\ mem'[w].branch = None /\ pc'[w] = "idle"
      /\ \A v \in Workers \ {w} : mem'[v] = mem[v] /\ pc'[v] = pc[v]
  BY DEF TypeOK, Forget, NoRecord
<1>2. "idle" \notin BranchSteps
  BY DEF BranchSteps, LoopSteps, TaskSteps
<1> QED
  BY <1>1, <1>2, NamesAssumption DEF BranchInv, gitVars

(* Only the process that executes changes HEAD.                            *)
LEMMA OthersAreOutside ==
  ASSUME SlotInv, NEW w \in Workers, pc[w] \in Executing
  PROVE  \A v \in Workers \ {w} : pc[v] \notin BranchSteps
BY DEF SlotInv, BranchSteps, Executing, SetupSteps

LEMMA BranchStep == TypeOK /\ SlotInv /\ BranchInv /\ [Next]_vars => BranchInv'
<1> SUFFICES ASSUME TypeOK, SlotInv, BranchInv, [Next]_vars PROVE BranchInv'
  OBVIOUS
<1>u. ASSUME UNCHANGED vars PROVE BranchInv'
  BY <1>u DEF BranchInv, vars, runVars, gitVars
<1>1. ASSUME NEW w \in Workers, RefuseDirtyTree(w) PROVE BranchInv'
  <2>1. BranchesKept(w)
    BY <1>1 DEF RefuseDirtyTree, Leave, TypeOK, BranchesKept, BranchSteps, LoopSteps, TaskSteps,
       Goto, gitVars
  <2> QED
    BY <2>1, KeptIsEnough
<1>2. ASSUME NEW w \in Workers, RefuseResume(w) PROVE BranchInv'
  <2>1. BranchesKept(w)
    BY <1>2 DEF RefuseResume, Leave, TypeOK, BranchesKept, BranchSteps, LoopSteps, TaskSteps, Goto,
       gitVars
  <2> QED
    BY <2>1, KeptIsEnough
<1>3. ASSUME NEW w \in Workers, RefuseFinishedTask(w) PROVE BranchInv'
  <2>1. BranchesKept(w)
    BY <1>3 DEF RefuseFinishedTask, Leave, TypeOK, BranchesKept, BranchSteps, LoopSteps, TaskSteps,
       Goto, gitVars
  <2> QED
    BY <2>1, KeptIsEnough
<1>4. ASSUME NEW w \in Workers, SkipPassed(w) PROVE BranchInv'
  <2>1. BranchesKept(w)
    BY <1>4 DEF SkipPassed, TypeOK, BranchesKept, BranchSteps, LoopSteps, TaskSteps, Goto, gitVars
  <2> QED
    BY <2>1, KeptIsEnough
<1>5. ASSUME NEW w \in Workers, EndOfPlan(w) PROVE BranchInv'
  <2>1. BranchesKept(w)
    BY <1>5 DEF EndOfPlan, TypeOK, BranchesKept, BranchSteps, LoopSteps, TaskSteps, Goto, gitVars
  <2> QED
    BY <2>1, KeptIsEnough
<1>6. ASSUME NEW w \in Workers, EditTree(w) PROVE BranchInv'
  <2>1. BranchesKept(w)
    BY <1>6 DEF EditTree, WriteTree, TypeOK, BranchesKept, BranchSteps, LoopSteps, TaskSteps, Goto,
       gitVars
  <2> QED
    BY <2>1, KeptIsEnough
<1>7. ASSUME NEW w \in Workers, RejectAttempts(w) PROVE BranchInv'
  <2>1. BranchesKept(w)
    BY <1>7 DEF RejectAttempts, Rollback, TypeOK, BranchesKept, BranchSteps, LoopSteps, TaskSteps,
       Goto, gitVars
  <2> QED
    BY <2>1, KeptIsEnough
<1>8. ASSUME NEW w \in Workers, UndoAndRaise(w) PROVE BranchInv'
  <2>1. BranchesKept(w)
    BY <1>8 DEF UndoAndRaise, Rollback, Leave, TypeOK, BranchesKept, BranchSteps, LoopSteps,
       TaskSteps, Goto, gitVars
  <2> QED
    BY <2>1, KeptIsEnough
<1>9. ASSUME NEW w \in Workers, UndoTask(w) PROVE BranchInv'
  <2>1. BranchesKept(w)
    BY <1>9 DEF UndoTask, Rollback, TypeOK, BranchesKept, BranchSteps, LoopSteps, TaskSteps, Goto,
       gitVars
  <2> QED
    BY <2>1, KeptIsEnough
<1>10. ASSUME NEW w \in Workers, MarkDone(w) PROVE BranchInv'
  <2>1. BranchesKept(w)
    BY <1>10 DEF MarkDone, TypeOK, BranchesKept, BranchSteps, LoopSteps, TaskSteps, Goto, gitVars
  <2> QED
    BY <2>1, KeptIsEnough
<1>11. ASSUME NEW w \in Workers, AcquireForResume(w) PROVE BranchInv'
  <2>1. BranchesKept(w)
    BY <1>11 DEF AcquireForResume, TypeOK, BranchesKept, BranchSteps, LoopSteps, TaskSteps, Goto,
       gitVars
  <2> QED
    BY <2>1, KeptIsEnough
<1>12. ASSUME NEW w \in Workers, AppendTask(w) PROVE BranchInv'
  <2>1. AddTask(mem[w], at[w]).branch = mem[w].branch
    BY <1>12, MutatorsKeepBranch DEF AppendTask, TypeOK, PastTheEnd
  <2>2. Save(w, AddTask(mem[w], at[w]))
    BY <1>12 DEF AppendTask, SetTask
  <2>3. BranchesKept(w)
    BY <1>12, <2>1, <2>2, SaveKeepsBranches DEF AppendTask, TypeOK, BranchesKept, BranchSteps,
       LoopSteps, TaskSteps, Goto, gitVars
  <2> QED
    BY <2>3, KeptIsEnough
<1>13. ASSUME NEW w \in Workers, StartCode(w) PROVE BranchInv'
  <2>1. UpdateTask(mem[w], at[w], "running").branch = mem[w].branch
    BY <1>13, MutatorsKeepBranch DEF StartCode, TypeOK, PastTheEnd
  <2>2. Save(w, UpdateTask(mem[w], at[w], "running"))
    BY <1>13 DEF StartCode, SetTask
  <2>3. BranchesKept(w)
    BY <1>13, <2>1, <2>2, SaveKeepsBranches DEF StartCode, TypeOK, BranchesKept, BranchSteps,
       LoopSteps, TaskSteps, Goto, gitVars
  <2> QED
    BY <2>3, KeptIsEnough
<1>14. ASSUME NEW w \in Workers, RecordRejection(w) PROVE BranchInv'
  <2>1. UpdateTask(mem[w], at[w], "failed").branch = mem[w].branch
    BY <1>14, MutatorsKeepBranch DEF RecordRejection, TypeOK, PastTheEnd
  <2>2. Save(w, UpdateTask(mem[w], at[w], "failed"))
    BY <1>14 DEF RecordRejection, SetTask
  <2>3. BranchesKept(w)
    BY <1>14, <2>1, <2>2, SaveKeepsBranches DEF RecordRejection, TypeOK, BranchesKept, BranchSteps,
       LoopSteps, TaskSteps, Goto, gitVars
  <2> QED
    BY <2>3, KeptIsEnough
<1>15. ASSUME NEW w \in Workers, AcceptAttempt(w) PROVE BranchInv'
  <2>1. UpdateTask(mem[w], at[w], "passed").branch = mem[w].branch
    BY <1>15, MutatorsKeepBranch DEF AcceptAttempt, TypeOK, PastTheEnd
  <2>2. Save(w, UpdateTask(mem[w], at[w], "passed"))
    BY <1>15 DEF AcceptAttempt, SetTask
  <2>3. BranchesKept(w)
    BY <1>15, <2>1, <2>2, SaveKeepsBranches DEF AcceptAttempt, TypeOK, BranchesKept, BranchSteps,
       LoopSteps, TaskSteps, Goto, gitVars
  <2> QED
    BY <2>3, KeptIsEnough
<1>16. ASSUME NEW w \in Workers, AttemptRaises(w) PROVE BranchInv'
  <2>1. UpdateTask(mem[w], at[w], "failed").branch = mem[w].branch
    BY <1>16, MutatorsKeepBranch DEF AttemptRaises, TypeOK, PastTheEnd
  <2>2. Save(w, UpdateTask(mem[w], at[w], "failed"))
    BY <1>16 DEF AttemptRaises, SetTask
  <2>3. BranchesKept(w)
    BY <1>16, <2>1, <2>2, SaveKeepsBranches DEF AttemptRaises, TypeOK, BranchesKept, BranchSteps,
       LoopSteps, TaskSteps, Goto, gitVars
  <2> QED
    BY <2>3, KeptIsEnough
<1>17. ASSUME NEW w \in Workers, FailReview(w) PROVE BranchInv'
  <2>1. UpdateTask(mem[w], at[w], "failed").branch = mem[w].branch
    BY <1>17, MutatorsKeepBranch DEF FailReview, TypeOK, PastTheEnd
  <2>2. Save(w, UpdateTask(mem[w], at[w], "failed"))
    BY <1>17 DEF FailReview, SetTask
  <2>3. BranchesKept(w)
    BY <1>17, <2>1, <2>2, SaveKeepsBranches DEF FailReview, TypeOK, BranchesKept, BranchSteps,
       LoopSteps, TaskSteps, Goto, gitVars
  <2> QED
    BY <2>3, KeptIsEnough
<1>18. ASSUME NEW w \in Workers, CommitFails(w) PROVE BranchInv'
  <2>1. UpdateTask(mem[w], at[w], "failed").branch = mem[w].branch
    BY <1>18, MutatorsKeepBranch DEF CommitFails, TypeOK, PastTheEnd
  <2>2. Save(w, UpdateTask(mem[w], at[w], "failed"))
    BY <1>18 DEF CommitFails, SetTask
  <2>3. BranchesKept(w)
    BY <1>18, <2>1, <2>2, SaveKeepsBranches DEF CommitFails, TypeOK, BranchesKept, BranchSteps,
       LoopSteps, TaskSteps, Goto, gitVars
  <2> QED
    BY <2>3, KeptIsEnough
<1>19. ASSUME NEW w \in Workers, StartCheck(w) PROVE BranchInv'
  <2>1. UpdateTask(mem[w], at[w], "running").branch = mem[w].branch
    BY <1>19, MutatorsKeepBranch DEF StartCheck, TypeOK, PastTheEnd
  <2>2. Save(w, UpdateTask(mem[w], at[w], "running"))
    BY <1>19 DEF StartCheck, SetTask
  <2>3. BranchesKept(w)
    BY <1>19, <2>1, <2>2, SaveKeepsBranches DEF StartCheck, TypeOK, BranchesKept, BranchSteps,
       LoopSteps, TaskSteps, Goto, gitVars
  <2> QED
    BY <2>3, KeptIsEnough
<1>20. ASSUME NEW w \in Workers, CheckPasses(w) PROVE BranchInv'
  <2>1. UpdateTask(mem[w], at[w], "passed").branch = mem[w].branch
    BY <1>20, MutatorsKeepBranch DEF CheckPasses, TypeOK, PastTheEnd
  <2>2. Save(w, UpdateTask(mem[w], at[w], "passed"))
    BY <1>20 DEF CheckPasses, SetTask
  <2>3. BranchesKept(w)
    BY <1>20, <2>1, <2>2, SaveKeepsBranches DEF CheckPasses, TypeOK, BranchesKept, BranchSteps,
       LoopSteps, TaskSteps, Goto, gitVars
  <2> QED
    BY <2>3, KeptIsEnough
<1>21. ASSUME NEW w \in Workers, CheckFails(w) PROVE BranchInv'
  <2>1. UpdateTask(mem[w], at[w], "failed").branch = mem[w].branch
    BY <1>21, MutatorsKeepBranch DEF CheckFails, TypeOK, PastTheEnd
  <2>2. Save(w, UpdateTask(mem[w], at[w], "failed"))
    BY <1>21 DEF CheckFails, SetTask
  <2>3. BranchesKept(w)
    BY <1>21, <2>1, <2>2, SaveKeepsBranches DEF CheckFails, TypeOK, BranchesKept, BranchSteps,
       LoopSteps, TaskSteps, Goto, gitVars
  <2> QED
    BY <2>3, KeptIsEnough
<1>22. ASSUME NEW w \in Workers, BindBranch(w) PROVE BranchInv'
  <2>1. mem[w].branch = mem[w].branch
    BY <1>22, MutatorsKeepBranch DEF BindBranch, TypeOK, PastTheEnd
  <2>2. Save(w, mem[w])
    BY <1>22 DEF BindBranch, SetTask
  <2>3. BranchesKept(w)
    BY <1>22, <2>1, <2>2, SaveKeepsBranches DEF BindBranch, TypeOK, BranchesKept, BranchSteps,
       LoopSteps, TaskSteps, Goto, gitVars
  <2> QED
    BY <2>3, KeptIsEnough
<1>23. ASSUME NEW w \in Workers, PassReview(w) PROVE BranchInv'
  <2>1. mem[w].branch = mem[w].branch
    BY <1>23, MutatorsKeepBranch DEF PassReview, TypeOK, PastTheEnd
  <2>2. Save(w, mem[w])
    BY <1>23 DEF PassReview, SetTask
  <2>3. BranchesKept(w)
    BY <1>23, <2>1, <2>2, SaveKeepsBranches DEF PassReview, TypeOK, BranchesKept, BranchSteps,
       LoopSteps, TaskSteps, Goto, gitVars
  <2> QED
    BY <2>3, KeptIsEnough
<1>24. ASSUME NEW w \in Workers, RunCheck(w) PROVE BranchInv'
  <2>1. Save(w, mem[w])
    BY <1>24 DEF RunCheck
  <2>2. head' = head /\ log' = log
    BY <1>24 DEF RunCheck, WriteTree, gitVars
  <2>3. BranchesKept(w)
    BY <1>24, <2>1, <2>2, SaveKeepsBranches DEF RunCheck, TypeOK, BranchesKept, BranchSteps,
       LoopSteps, TaskSteps, Goto, gitVars
  <2> QED
    BY <2>3, KeptIsEnough
<1>25. ASSUME NEW w \in Workers, BeginFinalize(w) PROVE BranchInv'
  <2>1. [mem[w] EXCEPT !.status = "running"].branch = mem[w].branch
    BY DEF TypeOK, RunRecord
  <2>2. BranchesKept(w)
    BY <1>25, <2>1, SaveKeepsBranches DEF BeginFinalize, TypeOK, BranchesKept, BranchSteps,
       LoopSteps, TaskSteps, Goto, gitVars
  <2> QED
    BY <2>2, KeptIsEnough
<1>26. ASSUME NEW w \in Workers, EndFinalize(w) PROVE BranchInv'
  <2>1. PICK finalized \in BOOLEAN : Save(w, FinishRun(mem[w], passed[w] /\ finalized))
    BY <1>26 DEF EndFinalize
  <2>2. FinishRun(mem[w], passed[w] /\ finalized).branch = mem[w].branch
    BY DEF TypeOK, RunRecord, FinishRun
  <2>3. BranchesKept(w)
    BY <1>26, <2>1, <2>2, SaveKeepsBranches DEF EndFinalize, TypeOK, BranchesKept, BranchSteps,
       LoopSteps, TaskSteps, Goto, gitVars
  <2> QED
    BY <2>3, KeptIsEnough
<1>27. ASSUME NEW w \in Workers, MarkNext(w) PROVE BranchInv'
  <2>1. PICK t \in Unmarked(w) : MarkTask(w, t)
    BY <1>27 DEF MarkNext
  <2>2. t \in Tasks /\ mem[w] \in RunRecord
    BY DEF TasksIn, Unmarked, TypeOK
  <2>3. PICK s \in {"blocked", "skipped"} : Save(w, MarkUnreached(mem[w], t, s))
    BY <2>1 DEF MarkTask
  <2>4. MarkUnreached(mem[w], t, s).branch = mem[w].branch
    BY <2>2, MutatorsKeepBranch
  <2>5. BranchesKept(w)
    BY <1>27, <2>3, <2>4, SaveKeepsBranches DEF MarkNext, TypeOK, BranchesKept, BranchSteps,
       LoopSteps, TaskSteps, Goto, gitVars
  <2> QED
    BY <2>5, KeptIsEnough
<1>28. ASSUME NEW w \in Workers, DispatchTask(w) PROVE BranchInv'
  <2>1. /\ mem[w] \in RunRecord /\ at[w] \in Tasks /\ pc[w] = "dispatch"
        /\ UNCHANGED gitVars
    BY <1>28 DEF DispatchTask, TypeOK
  <2>2. /\ MarkUnreached(mem[w], at[w], "blocked").branch = mem[w].branch
        /\ MarkWaitingForApproval(mem[w], at[w]).branch = mem[w].branch
    BY <2>1, MutatorsKeepBranch
  <2>3. \A v \in Workers : pc'[v] \in BranchSteps => pc[v] \in BranchSteps
    BY <1>28, <2>1 DEF DispatchTask, BlockOnMissing, Goto, TypeOK, BranchSteps, LoopSteps, TaskSteps
  <2>4. CASE MissingDeps(w) # {}
    BY <1>28, <2>1, <2>2, <2>3, <2>4, SaveKeepsBranches, KeptIsEnough
       DEF DispatchTask, BlockOnMissing, BranchesKept, gitVars
  <2>5. CASE MissingDeps(w) = {} /\ MustWait(mem[w], at[w])
    BY <1>28, <2>1, <2>2, <2>3, <2>5, SaveKeepsBranches, KeptIsEnough
       DEF DispatchTask, BranchesKept, gitVars
  <2>6. CASE MissingDeps(w) = {} /\ ~MustWait(mem[w], at[w])
    BY <1>28, <2>1, <2>3, <2>6, KeptIsEnough DEF DispatchTask, BranchesKept, gitVars
  <2> QED
    BY <2>4, <2>5, <2>6
<1>29. ASSUME NEW w \in Workers, CommitTask(w) PROVE BranchInv'
  <2>1. head # Main /\ head \in Branches
    BY <1>29 DEF CommitTask, BranchInv, BranchSteps, LoopSteps, TaskSteps, TypeOK, GitTypeOK
  <2>2. log'[Main] = log[Main] /\ head' = head
    BY <1>29, <2>1 DEF CommitTask, Checkpoint, TypeOK, GitTypeOK, Branches
  <2>3. BranchesKept(w)
    BY <1>29, <2>2 DEF CommitTask, TypeOK, BranchesKept, BranchSteps, LoopSteps, TaskSteps, Goto,
       gitVars
  <2> QED
    BY <2>3, KeptIsEnough
<1>30. ASSUME NEW w \in Workers, CreateRun(w) PROVE BranchInv'
  <2>1. NewRecord.branch = None
    BY DEF NewRecord, NoRecord
  <2>2. /\ pc'[w] = "branch" /\ mem'[w].branch = None
        /\ \A v \in Workers \ {w} : pc'[v] = pc[v] /\ mem'[v] = mem[v]
    BY <1>30, <2>1 DEF CreateRun, Save, Goto, TypeOK
  <2>3. \A r \in Runs : disk'[r].branch \in {disk[r].branch, None}
    BY <1>30, <2>1 DEF CreateRun, Save, TypeOK
  <2> QED
    BY <1>30, <2>2, <2>3, NamesAssumption DEF CreateRun, BranchInv, BranchSteps, LoopSteps,
       TaskSteps, gitVars
<1>31. ASSUME NEW w \in Workers, PrepareBranch(w) PROVE BranchInv'
  <2>1. /\ run[w] \in Runs /\ AgentBranchFor(run[w]) # Main
        /\ head' = AgentBranchFor(run[w]) /\ log'[Main] = log[Main]
    BY <1>31, NamesAssumption
       DEF PrepareBranch, CreateAgentBranch, AgentBranchFor, TypeOK, GitTypeOK, Branches
  <2>2. /\ mem'[w].branch = AgentBranchFor(run[w]) /\ UNCHANGED disk
        /\ \A v \in Workers \ {w} : mem'[v] = mem[v] /\ pc'[v] = pc[v]
    BY <1>31 DEF PrepareBranch, Goto, TypeOK, RunRecord
  <2>3. \A v \in Workers \ {w} : pc[v] \notin BranchSteps
    BY <1>31, OthersAreOutside DEF PrepareBranch, Executing, SetupSteps
  <2> QED
    BY <2>1, <2>2, <2>3 DEF BranchInv
<1>32. ASSUME NEW w \in Workers, SetupResume(w) PROVE BranchInv'
  <2>1. /\ head' = mem[w].branch /\ UNCHANGED <<log, mem, disk>>
        /\ \A v \in Workers \ {w} : pc'[v] = pc[v]
    BY <1>32 DEF SetupResume, SwitchBranch, Goto, TypeOK
  <2>2. \A v \in Workers \ {w} : pc[v] \notin BranchSteps
    BY <1>32, OthersAreOutside DEF SetupResume, Executing, SetupSteps
  <2> QED
    BY <2>1, <2>2 DEF BranchInv
<1>33. ASSUME NEW w \in Workers, NEW r \in Runs, StartRun(w, r) PROVE BranchInv'
  <2>1. pc'[w] = "create" /\ \A v \in Workers \ {w} : pc'[v] = pc[v]
    BY <1>33 DEF StartRun, Goto, TypeOK
  <2> QED
    BY <1>33, <2>1 DEF StartRun, BranchInv, BranchSteps, LoopSteps, TaskSteps, gitVars
<1>34. ASSUME NEW w \in Workers, NEW r \in Runs, LoadForResume(w, r) PROVE BranchInv'
  <2>1. /\ mem'[w] = disk[r] /\ pc'[w] \in {"resume", "approve"}
        /\ \A v \in Workers \ {w} : pc'[v] = pc[v] /\ mem'[v] = mem[v]
    BY <1>34 DEF LoadForResume, Goto, TypeOK
  <2> QED
    BY <1>34, <2>1 DEF LoadForResume, BranchInv, BranchSteps, LoopSteps, TaskSteps, gitVars
<1>35. ASSUME NEW w \in Workers, NEW r \in Runs, NEW t \in Tasks, LoadForApproval(w, r, t)
       PROVE BranchInv'
  <2>1. /\ mem'[w] = disk[r] /\ pc'[w] \in {"resume", "approve"}
        /\ \A v \in Workers \ {w} : pc'[v] = pc[v] /\ mem'[v] = mem[v]
    BY <1>35 DEF LoadForApproval, Goto, TypeOK
  <2> QED
    BY <1>35, <2>1 DEF LoadForApproval, BranchInv, BranchSteps, LoopSteps, TaskSteps, gitVars
<1>36. ASSUME NEW w \in Workers, ReleaseLease(w) PROVE BranchInv'
  BY <1>36, ForgetKeepsBranch DEF ReleaseLease
<1>37. ASSUME NEW w \in Workers, SlotTaken(w) PROVE BranchInv'
  BY <1>37, ForgetKeepsBranch DEF SlotTaken
<1>38. ASSUME NEW w \in Workers, SaveApproval(w) PROVE BranchInv'
  <2>1. mem[w] \in RunRecord /\ at[w] \in Tasks
    BY <1>38 DEF SaveApproval, TypeOK, PastTheEnd
  <2>2. ApproveTask(mem[w], at[w]).branch = mem[w].branch
    BY <2>1, MutatorsKeepBranch
  <2>3. \A r \in Runs : disk'[r].branch \in {disk[r].branch, mem[w].branch}
    BY <1>38, <2>2 DEF SaveApproval, TypeOK
  <2> QED
    BY <1>38, <2>3, ForgetKeepsBranch DEF SaveApproval
<1>39. ASSUME NEW w \in Workers, Fault(w) PROVE BranchInv'
  BY <1>39, ForgetKeepsBranch DEF Fault, Interrupt, Kill
<1>40. ASSUME User PROVE BranchInv'
  <2>1. \A w \in Workers : pc[w] \notin BranchSteps
    BY <1>40 DEF User, UserCleansTree, UserSwitchesTo, SlotInv, BranchSteps, Executing, SetupSteps
  <2> QED
    BY <1>40, <2>1 DEF User, UserCleansTree, UserSwitchesTo, runVars, BranchInv
<1> QED
  BY <1>u, <1>1, <1>2, <1>3, <1>4, <1>5, <1>6, <1>7, <1>8, <1>9, <1>10, <1>11, <1>12, <1>13, <1>14,
     <1>15, <1>16, <1>17, <1>18, <1>19, <1>20, <1>21, <1>22, <1>23, <1>24, <1>25, <1>26, <1>27,
     <1>28, <1>29, <1>30, <1>31, <1>32, <1>33, <1>34, <1>35, <1>36, <1>37, <1>38, <1>39, <1>40 DEF
     Next, Step, Call

LEMMA BranchInvariant == Spec => []BranchInv
<1>1. Init => BranchInv
  BY NamesAssumption DEF Init, GitInit, BranchInv, NoRecord, Branches, BranchSteps, LoopSteps,
     TaskSteps
<1> QED
  BY <1>1, TypeCorrect, SlotInvariant, BranchStep, PTL DEF Spec

(* No agent work is written or committed on the user's branch, and the     *)
(* branch checked out during an execution is the one its record names.     *)
THEOREM AgentBranchIsolation == Spec => []WorksOnAgentBranch
<1>1. BranchInv => WorksOnAgentBranch
  BY DEF BranchInv, WorksOnAgentBranch, BranchSteps
<1> QED
  BY <1>1, BranchInvariant, PTL

-----------------------------------------------------------------------------
(* The parts of the inductive invariant, as what a worker may rely on at   *)
(* each label.                                                             *)

OwnSteps == {"verify", "review", "commit"}

(* The tree is clean in front of the edits of a task and has nothing but   *)
(* them afterwards.                                                        *)
TreeAt(label, r, t, tree) ==
  /\ label = "edit" => tree = {}
  /\ label \in OwnSteps => tree = {<<r, t>>}

TreeInv == \A w \in Workers : TreeAt(pc[w], run[w], at[w], dirty)

Begun == {"running", "passed", "failed"}

Approved(r, t) == ApprovalRequired(t) => <<r, t>> \in approvals

(* A record of run r grants only what was approved, and no task that needs *)
(* approval has begun without it.                                          *)
RecordGated(r, m) ==
  /\ \A t \in m.granted : <<r, t>> \in approvals
  /\ \A t \in Tasks : m.task[t] \in Begun => Approved(r, t)

GitGated ==
  /\ \A work \in dirty : Approved(work[1], work[2])
  /\ \A b \in Branches : \A work \in log[b] : Approved(work[1], work[2])

(* The gates hold in every copy of every record, in the tree, in the       *)
(* branches and for the task a worker executes.                            *)
GateInv ==
  /\ \A r \in Runs : RecordGated(r, disk[r])
  /\ \A w \in Workers : pc[w] # "idle" => RecordGated(run[w], mem[w])
  /\ \A w \in Workers : pc[w] \in TaskSteps => Approved(run[w], at[w])
  /\ GitGated

(* The tasks before the one a worker is at have passed; in front of the    *)
(* loop it is at the first.                                                *)
DoneAt(label, i, m) ==
  /\ label \in TaskSteps \cup {"dispatch"} =>
       \A t \in Tasks : t < i => m.task[t] = "passed"
  /\ label \in {"review", "commit"} => m.task[i] = "passed"
  /\ label \in {"idle", "create", "branch", "bind", "resume", "setup"} => i = 1
  /\ label = "idle" => m = NoRecord

DoneInv == \A w \in Workers : DoneAt(pc[w], at[w], mem[w])

TaskInv == TreeInv /\ GateInv /\ DoneInv

-----------------------------------------------------------------------------
(* What the mutators of RunState leave of tasks and grants.                *)

LEMMA BlankContent ==
  ASSUME NEW m \in {NoRecord, NewRecord}
  PROVE  m.granted = {} /\ \A t \in Tasks : m.task[t] = "absent"
BY DEF NoRecord, NewRecord

LEMMA BlankGated ==
  ASSUME NEW r, NEW m \in {NoRecord, NewRecord}
  PROVE  RecordGated(r, m)
BY BlankContent DEF RecordGated, Begun

(* A gated record stays gated, in UpdateTask if the task is approved.      *)
LEMMA MutatorsGated ==
  ASSUME NEW r, NEW m \in RunRecord, RecordGated(r, m), NEW t \in Tasks
  PROVE  /\ RecordGated(r, AddTask(m, t))
         /\ RecordGated(r, MarkWaitingForApproval(m, t))
         /\ \A s \in {"blocked", "skipped"} : RecordGated(r, MarkUnreached(m, t, s))
         /\ Approved(r, t) => \A s \in Begun : RecordGated(r, UpdateTask(m, t, s))
<1>1. RecordGated(r, AddTask(m, t))
  <2> DEFINE new == AddTask(m, t)
  <2>1. new.task = [m.task EXCEPT ![t] = "pending"] /\ new.granted = m.granted
    BY DEF AddTask, RunRecord
  <2>2. m.task \in [Tasks -> TaskStatus \cup {"absent"}]
    BY DEF RunRecord
  <2> HIDE DEF new
  <2>3. \A u \in Tasks : new.task[u] = IF u = t THEN "pending" ELSE m.task[u]
    BY <2>1, <2>2
  <2>4. \A u \in Tasks : new.task[u] \in Begun => Approved(r, u)
    BY <2>3 DEF RecordGated, Begun
  <2>5. RecordGated(r, new)
    BY <2>1, <2>4 DEF RecordGated
  <2> QED
    BY <2>5 DEF new
<1>2. RecordGated(r, MarkWaitingForApproval(m, t))
  <2> DEFINE new == MarkWaitingForApproval(m, t)
  <2>1. new.task = [m.task EXCEPT ![t] = "waiting"] /\ new.granted = m.granted
    BY DEF MarkWaitingForApproval, RunRecord
  <2>2. m.task \in [Tasks -> TaskStatus \cup {"absent"}]
    BY DEF RunRecord
  <2> HIDE DEF new
  <2>3. \A u \in Tasks : new.task[u] = IF u = t THEN "waiting" ELSE m.task[u]
    BY <2>1, <2>2
  <2>4. \A u \in Tasks : new.task[u] \in Begun => Approved(r, u)
    BY <2>3 DEF RecordGated, Begun
  <2>5. RecordGated(r, new)
    BY <2>1, <2>4 DEF RecordGated
  <2> QED
    BY <2>5 DEF new
<1>3. ASSUME NEW s \in {"blocked", "skipped"} PROVE RecordGated(r, MarkUnreached(m, t, s))
  <2> DEFINE new == MarkUnreached(m, t, s)
  <2>1. new.task = [m.task EXCEPT ![t] = s] /\ new.granted = m.granted
    BY DEF MarkUnreached, RunRecord
  <2>2. m.task \in [Tasks -> TaskStatus \cup {"absent"}]
    BY DEF RunRecord
  <2> HIDE DEF new
  <2>3. \A u \in Tasks : new.task[u] = IF u = t THEN s ELSE m.task[u]
    BY <2>1, <2>2
  <2>4. \A u \in Tasks : new.task[u] \in Begun => Approved(r, u)
    BY <2>3 DEF RecordGated, Begun
  <2>5. RecordGated(r, new)
    BY <2>1, <2>4 DEF RecordGated
  <2> QED
    BY <2>5 DEF new
<1>4. ASSUME Approved(r, t), NEW s \in Begun PROVE RecordGated(r, UpdateTask(m, t, s))
  <2> DEFINE new == UpdateTask(m, t, s)
  <2>1. new.task = [m.task EXCEPT ![t] = s] /\ new.granted = m.granted
    BY DEF UpdateTask, RunRecord
  <2>2. m.task \in [Tasks -> TaskStatus \cup {"absent"}]
    BY DEF RunRecord
  <2> HIDE DEF new
  <2>3. \A u \in Tasks : new.task[u] = IF u = t THEN s ELSE m.task[u]
    BY <2>1, <2>2
  <2>4. \A u \in Tasks : new.task[u] \in Begun => Approved(r, u)
    BY <1>4, <2>3 DEF RecordGated, Begun
  <2>5. RecordGated(r, new)
    BY <2>1, <2>4 DEF RecordGated
  <2> QED
    BY <2>5 DEF new
<1> QED
  BY <1>1, <1>2, <1>3, <1>4

LEMMA OtherGated ==
  ASSUME NEW r, NEW m \in RunRecord, RecordGated(r, m)
  PROVE  /\ \A ok : RecordGated(r, FinishRun(m, ok))
         /\ RecordGated(r, [m EXCEPT !.status = "running"])
         /\ \A b : RecordGated(r, [m EXCEPT !.branch = b])
<1>1. ASSUME NEW ok PROVE RecordGated(r, FinishRun(m, ok))
  BY DEF FinishRun, RunRecord, RecordGated
<1>2. RecordGated(r, [m EXCEPT !.status = "running"])
  BY DEF RunRecord, RecordGated
<1>3. ASSUME NEW b PROVE RecordGated(r, [m EXCEPT !.branch = b])
  BY DEF RunRecord, RecordGated
<1> QED
  BY <1>1, <1>2, <1>3

-----------------------------------------------------------------------------
(* Steps of a worker, seen from the invariants.                            *)

OthersKept(w) ==
  \A v \in Workers \ {w} :
    pc'[v] = pc[v] /\ run'[v] = run[v] /\ at'[v] = at[v] /\ mem'[v] = mem[v]

(* w is then at that label and task with m in memory, and may have saved m.*)
Moved(w, label, i, m) ==
  /\ OthersKept(w)
  /\ pc'[w] = label /\ run'[w] = run[w] /\ at'[w] = i /\ mem'[w] = m
  /\ \A r \in Runs : disk'[r] = disk[r] \/ (r = run[w] /\ disk'[r] = m)
  /\ approvals' = approvals

LEMMA MovedKeeps ==
  ASSUME TypeOK, SlotInv, TaskInv, NEW w \in Workers, pc[w] # "idle",
         NEW label, NEW i, NEW m, Moved(w, label, i, m),
         label # "idle", RecordGated(run[w], m), label \in TaskSteps => Approved(run[w], i),
         DoneAt(label, i, m),
         pc[w] \in Executing \/ dirty' = dirty, TreeAt(label, run[w], i, dirty'),
         GitGated'
  PROVE  TaskInv'
<1>1. TreeInv'
  <2> SUFFICES ASSUME NEW v \in Workers PROVE TreeAt(pc'[v], run'[v], at'[v], dirty')
    BY DEF TreeInv
  <2>1. CASE v = w
    BY <2>1 DEF Moved
  <2>2. CASE v # w /\ pc[w] \in Executing
    <3>1. pc[v] \notin Executing /\ pc'[v] = pc[v]
      BY <2>2 DEF SlotInv, Moved, OthersKept
    <3> QED
      BY <3>1 DEF TreeAt, OwnSteps, Executing, LoopSteps, TaskSteps
  <2>3. CASE v # w /\ dirty' = dirty
    BY <2>3 DEF Moved, OthersKept, TaskInv, TreeInv
  <2> QED
    BY <2>1, <2>2, <2>3
<1>2. /\ \A r \in Runs : RecordGated(r, disk'[r])
      /\ \A v \in Workers : pc'[v] # "idle" => RecordGated(run'[v], mem'[v])
      /\ \A v \in Workers : pc'[v] \in TaskSteps => Approved(run'[v], at'[v])
  BY DEF Moved, OthersKept, TaskInv, GateInv
<1>3. \A r \in Runs : \A n : RecordGated(r, n)' <=> RecordGated(r, n')
  BY DEF Moved, RecordGated, Approved
<1>4. GateInv'
  BY <1>2 DEF Moved, GateInv, RecordGated, Approved
<1>5. DoneInv'
  BY DEF Moved, OthersKept, TaskInv, DoneInv
<1> QED
  BY <1>1, <1>4, <1>5 DEF TaskInv

(* The call of w is over.                                                  *)
LEMMA LeftKeeps ==
  ASSUME TypeOK, SlotInv, TaskInv, NEW w \in Workers, pc[w] # "idle", Forget(w),
         \A r \in Runs : RecordGated(r, disk[r])',
         approvals \subseteq approvals', UNCHANGED gitVars
  PROVE  TaskInv'
<1>1. /\ OthersKept(w)
      /\ pc'[w] = "idle" /\ at'[w] = 1 /\ mem'[w] = NoRecord
  BY DEF Forget, OthersKept, TypeOK
<1>2. TreeInv'
  BY <1>1 DEF OthersKept, TaskInv, TreeInv, TreeAt, OwnSteps, gitVars
<1>3. \A v \in Workers : pc'[v] # "idle" => RecordGated(run'[v], mem'[v])
  BY <1>1 DEF OthersKept, TaskInv, GateInv
<1>4. \A v \in Workers : pc'[v] \in TaskSteps => Approved(run'[v], at'[v])
  BY <1>1 DEF OthersKept, TaskInv, GateInv, TaskSteps
<1>5. GitGated'
  BY DEF TaskInv, GateInv, GitGated, Approved, gitVars
<1>6. GateInv'
  BY <1>3, <1>4, <1>5 DEF GateInv, RecordGated, Approved
<1>7. DoneInv'
  BY <1>1 DEF OthersKept, TaskInv, DoneInv, DoneAt, TaskSteps
<1> QED
  BY <1>2, <1>6, <1>7 DEF TaskInv

(* A call begins.                                                          *)
LEMMA CalledKeeps ==
  ASSUME TypeOK, SlotInv, TaskInv, NEW w \in Workers, NEW r \in Runs,
         NEW label \in {"create", "resume", "approve"},
         OthersKept(w), pc'[w] = label, run'[w] = r, RecordGated(r, mem'[w]),
         label # "approve" => at'[w] = 1,
         UNCHANGED <<disk, approvals, gitVars>>
  PROVE  TaskInv'
<1>2. TreeInv'
  BY DEF OthersKept, TaskInv, TreeInv, TreeAt, OwnSteps, gitVars
<1>3. \A v \in Workers : pc'[v] # "idle" => RecordGated(run'[v], mem'[v])
  BY DEF OthersKept, TaskInv, GateInv
<1>4. \A v \in Workers : pc'[v] \in TaskSteps => Approved(run'[v], at'[v])
  BY DEF OthersKept, TaskInv, GateInv, TaskSteps
<1>5. GitGated'
  BY DEF TaskInv, GateInv, GitGated, Approved, gitVars
<1>6. GateInv'
  BY <1>3, <1>4, <1>5 DEF TaskInv, GateInv, RecordGated, Approved
<1>7. DoneInv'
  BY DEF OthersKept, TaskInv, DoneInv, DoneAt, TaskSteps
<1> QED
  BY <1>2, <1>6, <1>7 DEF TaskInv

(* What git operations leave in the tree and on the branches.              *)
LEMMA GitKeeps ==
  ASSUME TypeOK, TaskInv, approvals' = approvals
  PROVE  /\ UNCHANGED gitVars => GitGated'
         /\ Rollback => GitGated'
         /\ Checkpoint => GitGated'
         /\ \A b \in Branches : SwitchBranch(b) => GitGated'
         /\ \A r \in Runs : CreateAgentBranch(r) => GitGated'
         /\ \A r \in Runs, t \in Tasks :
              WriteTree(<<r, t>>) /\ Approved(r, t) => GitGated'
<1> USE DEF TaskInv, GateInv, GitGated, Approved
<1>1. UNCHANGED gitVars => GitGated'
  BY DEF gitVars
<1>2. Rollback => GitGated'
  BY DEF Rollback
<1>3. Checkpoint => GitGated'
  <2> SUFFICES ASSUME Checkpoint PROVE GitGated'
    OBVIOUS
  <2>1. \A b \in Branches : log'[b] \subseteq log[b] \cup dirty
    BY DEF Checkpoint, TypeOK, GitTypeOK
  <2> QED
    BY <2>1 DEF Checkpoint
<1>4. \A b \in Branches : SwitchBranch(b) => GitGated'
  BY DEF SwitchBranch
<1>5. ASSUME NEW r \in Runs, CreateAgentBranch(r) PROVE GitGated'
  <2>1. \A b \in Branches : log'[b] \in {log[b], log[Main]}
    BY <1>5 DEF CreateAgentBranch, TypeOK, GitTypeOK
  <2> QED
    BY <1>5, <2>1 DEF CreateAgentBranch, Branches
<1>6. \A r \in Runs, t \in Tasks : WriteTree(<<r, t>>) /\ Approved(r, t) => GitGated'
  BY DEF WriteTree
<1> QED
  BY <1>1, <1>2, <1>3, <1>4, <1>5, <1>6

(* A save of a task's status by the worker that executes it.               *)
LEMMA SetTaskMoves ==
  ASSUME TypeOK, SlotInv, TaskInv, NEW w \in Workers, pc[w] \in TaskSteps, NEW s \in Begun,
         SetTask(w, s)
  PROVE  /\ UpdateTask(mem[w], at[w], s) \in RunRecord
         /\ RecordGated(run[w], UpdateTask(mem[w], at[w], s))
         /\ \A t \in Tasks : UpdateTask(mem[w], at[w], s).task[t]
                               = IF t = at[w] THEN s ELSE mem[w].task[t]
         /\ at[w] \in Tasks
<1>1. mem[w] \in RunRecord /\ at[w] \in Tasks /\ pc[w] # "idle"
  BY DEF TypeOK, TaskSteps, PastTheEnd
<1>2. RecordGated(run[w], mem[w]) /\ Approved(run[w], at[w])
  BY <1>1 DEF TaskInv, GateInv
<1>3. RecordGated(run[w], UpdateTask(mem[w], at[w], s))
  BY <1>1, <1>2, MutatorsGated
<1>4. \A t \in Tasks : UpdateTask(mem[w], at[w], s).task[t]
                         = IF t = at[w] THEN s ELSE mem[w].task[t]
  <2> DEFINE new == UpdateTask(mem[w], at[w], s)
  <2>1. new.task = [mem[w].task EXCEPT ![at[w]] = s]
    BY <1>1 DEF UpdateTask, RunRecord
  <2>2. mem[w].task \in [Tasks -> TaskStatus \cup {"absent"}]
    BY <1>1 DEF RunRecord
  <2> HIDE DEF new
  <2>3. \A t \in Tasks : new.task[t] = IF t = at[w] THEN s ELSE mem[w].task[t]
    BY <2>1, <2>2
  <2> QED
    BY <2>3 DEF new
<1> QED
  BY <1>1, <1>3, <1>4, RecordsType DEF Begun

-----------------------------------------------------------------------------
(* Every step keeps the invariant: one step per action.                    *)

LEMMA TaskStep == TypeOK /\ SlotInv /\ TaskInv /\ [Next]_vars => TaskInv'
<1> SUFFICES ASSUME TypeOK, SlotInv, TaskInv, [Next]_vars PROVE TaskInv'
  OBVIOUS
<1>u. ASSUME UNCHANGED vars PROVE TaskInv'
  BY <1>u DEF TaskInv, TreeInv, TreeAt, GateInv, GitGated, RecordGated, Approved, DoneInv, DoneAt,
     vars, runVars, gitVars
<1>1. ASSUME NEW w \in Workers, BindBranch(w) PROVE TaskInv'
  <2>1. /\ pc[w] # "idle" /\ RecordGated(run[w], mem[w])
        /\ pc[w] \in Executing \/ UNCHANGED gitVars
    BY <1>1 DEF BindBranch, TaskInv, GateInv, TaskSteps, LoopSteps, SetupSteps, Executing
  <2>2. Moved(w, "append", at[w], mem[w])
    BY <1>1 DEF BindBranch, Save, Moved, OthersKept, Goto, Leave, slotVars, loopVars, NextTask,
       TypeOK
  <2>3. DoneAt("append", at[w], mem[w])
    BY <1>1 DEF BindBranch, TaskInv, DoneInv, DoneAt, TaskSteps
  <2>4. TreeAt("append", run[w], at[w], dirty')
    BY <1>1 DEF BindBranch, TaskInv, TreeInv, TreeAt, OwnSteps, WriteTree, Clean, gitVars
  <2>5. GitGated' /\ ("append" \in TaskSteps => Approved(run[w], at[w]))
    BY <1>1, <2>2, GitKeeps DEF BindBranch, Moved, TaskInv, GateInv, TaskSteps
  <2> QED
    BY <2>1, <2>2, <2>3, <2>4, <2>5, MovedKeeps DEF gitVars
<1>2. ASSUME NEW w \in Workers, RefuseDirtyTree(w) PROVE TaskInv'
  <2>1. /\ pc[w] # "idle" /\ RecordGated(run[w], mem[w])
        /\ pc[w] \in Executing \/ UNCHANGED gitVars
    BY <1>2 DEF RefuseDirtyTree, TaskInv, GateInv, TaskSteps, LoopSteps, SetupSteps, Executing
  <2>2. Moved(w, "release", at[w], mem[w])
    BY <1>2 DEF RefuseDirtyTree, Save, Moved, OthersKept, Goto, Leave, slotVars, loopVars, NextTask,
       TypeOK
  <2>3. DoneAt("release", at[w], mem[w])
    BY <1>2 DEF RefuseDirtyTree, TaskInv, DoneInv, DoneAt, TaskSteps
  <2>4. TreeAt("release", run[w], at[w], dirty')
    BY <1>2 DEF RefuseDirtyTree, TaskInv, TreeInv, TreeAt, OwnSteps, WriteTree, Clean, gitVars
  <2>5. GitGated' /\ ("release" \in TaskSteps => Approved(run[w], at[w]))
    BY <1>2, <2>2, GitKeeps DEF RefuseDirtyTree, Moved, TaskInv, GateInv, TaskSteps
  <2> QED
    BY <2>1, <2>2, <2>3, <2>4, <2>5, MovedKeeps DEF gitVars
<1>3. ASSUME NEW w \in Workers, RefuseResume(w) PROVE TaskInv'
  <2>1. /\ pc[w] # "idle" /\ RecordGated(run[w], mem[w])
        /\ pc[w] \in Executing \/ UNCHANGED gitVars
    BY <1>3 DEF RefuseResume, TaskInv, GateInv, TaskSteps, LoopSteps, SetupSteps, Executing
  <2>2. Moved(w, "release", at[w], mem[w])
    BY <1>3 DEF RefuseResume, Save, Moved, OthersKept, Goto, Leave, slotVars, loopVars, NextTask,
       TypeOK
  <2>3. DoneAt("release", at[w], mem[w])
    BY <1>3 DEF RefuseResume, TaskInv, DoneInv, DoneAt, TaskSteps
  <2>4. TreeAt("release", run[w], at[w], dirty')
    BY <1>3 DEF RefuseResume, TaskInv, TreeInv, TreeAt, OwnSteps, WriteTree, Clean, gitVars
  <2>5. GitGated' /\ ("release" \in TaskSteps => Approved(run[w], at[w]))
    BY <1>3, <2>2, GitKeeps DEF RefuseResume, Moved, TaskInv, GateInv, TaskSteps
  <2> QED
    BY <2>1, <2>2, <2>3, <2>4, <2>5, MovedKeeps DEF gitVars
<1>4. ASSUME NEW w \in Workers, RefuseFinishedTask(w) PROVE TaskInv'
  <2>1. /\ pc[w] # "idle" /\ RecordGated(run[w], mem[w])
        /\ pc[w] \in Executing \/ UNCHANGED gitVars
    BY <1>4 DEF RefuseFinishedTask, TaskInv, GateInv, TaskSteps, LoopSteps, SetupSteps, Executing
  <2>2. Moved(w, "release", at[w], mem[w])
    BY <1>4 DEF RefuseFinishedTask, Save, Moved, OthersKept, Goto, Leave, slotVars, loopVars,
       NextTask, TypeOK
  <2>3. DoneAt("release", at[w], mem[w])
    BY <1>4 DEF RefuseFinishedTask, TaskInv, DoneInv, DoneAt, TaskSteps
  <2>4. TreeAt("release", run[w], at[w], dirty')
    BY <1>4 DEF RefuseFinishedTask, TaskInv, TreeInv, TreeAt, OwnSteps, WriteTree, Clean, gitVars
  <2>5. GitGated' /\ ("release" \in TaskSteps => Approved(run[w], at[w]))
    BY <1>4, <2>2, GitKeeps DEF RefuseFinishedTask, Moved, TaskInv, GateInv, TaskSteps
  <2> QED
    BY <2>1, <2>2, <2>3, <2>4, <2>5, MovedKeeps DEF gitVars
<1>5. ASSUME NEW w \in Workers, AcquireForResume(w) PROVE TaskInv'
  <2>1. /\ pc[w] # "idle" /\ RecordGated(run[w], mem[w])
        /\ pc[w] \in Executing \/ UNCHANGED gitVars
    BY <1>5 DEF AcquireForResume, TaskInv, GateInv, TaskSteps, LoopSteps, SetupSteps, Executing
  <2>2. Moved(w, "setup", at[w], mem[w])
    BY <1>5 DEF AcquireForResume, Save, Moved, OthersKept, Goto, Leave, slotVars, loopVars,
       NextTask, TypeOK
  <2>3. DoneAt("setup", at[w], mem[w])
    BY <1>5 DEF AcquireForResume, TaskInv, DoneInv, DoneAt, TaskSteps
  <2>4. TreeAt("setup", run[w], at[w], dirty')
    BY <1>5 DEF AcquireForResume, TaskInv, TreeInv, TreeAt, OwnSteps, WriteTree, Clean, gitVars
  <2>5. GitGated' /\ ("setup" \in TaskSteps => Approved(run[w], at[w]))
    BY <1>5, <2>2, GitKeeps DEF AcquireForResume, Moved, TaskInv, GateInv, TaskSteps
  <2> QED
    BY <2>1, <2>2, <2>3, <2>4, <2>5, MovedKeeps DEF gitVars
<1>6. ASSUME NEW w \in Workers, SkipPassed(w) PROVE TaskInv'
  <2>1. /\ pc[w] # "idle" /\ RecordGated(run[w], mem[w])
        /\ pc[w] \in Executing \/ UNCHANGED gitVars
    BY <1>6 DEF SkipPassed, TaskInv, GateInv, TaskSteps, LoopSteps, SetupSteps, Executing
  <2>2. Moved(w, "dispatch", at[w] + 1, mem[w])
    BY <1>6 DEF SkipPassed, Save, Moved, OthersKept, Goto, Leave, slotVars, loopVars, NextTask,
       TypeOK
  <2>3. DoneAt("dispatch", at[w] + 1, mem[w])
    <3>1. mem[w].task[at[w]] = "passed"
      BY <1>6 DEF SkipPassed, Done
    <3>2. \A t \in Tasks : t < at[w] => mem[w].task[t] = "passed"
      BY <1>6 DEF SkipPassed, TaskInv, DoneInv, DoneAt, TaskSteps
    <3>3. \A t \in Tasks : t < at[w] + 1 => t < at[w] \/ t = at[w]
      BY NTasksAssumption DEF TypeOK, Tasks
    <3> QED
      BY <3>1, <3>2, <3>3 DEF DoneAt, TaskSteps
  <2>4. TreeAt("dispatch", run[w], at[w] + 1, dirty')
    BY <1>6 DEF SkipPassed, TaskInv, TreeInv, TreeAt, OwnSteps, WriteTree, Clean, gitVars
  <2>5. GitGated' /\ ("dispatch" \in TaskSteps => Approved(run[w], at[w] + 1))
    BY <1>6, <2>2, GitKeeps DEF SkipPassed, Moved, TaskInv, GateInv, TaskSteps
  <2> QED
    BY <2>1, <2>2, <2>3, <2>4, <2>5, MovedKeeps DEF gitVars
<1>7. ASSUME NEW w \in Workers, EndOfPlan(w) PROVE TaskInv'
  <2>1. /\ pc[w] # "idle" /\ RecordGated(run[w], mem[w])
        /\ pc[w] \in Executing \/ UNCHANGED gitVars
    BY <1>7 DEF EndOfPlan, TaskInv, GateInv, TaskSteps, LoopSteps, SetupSteps, Executing
  <2>2. Moved(w, "finalize", at[w], mem[w])
    BY <1>7 DEF EndOfPlan, Save, Moved, OthersKept, Goto, Leave, slotVars, loopVars, NextTask,
       TypeOK
  <2>3. DoneAt("finalize", at[w], mem[w])
    BY <1>7 DEF EndOfPlan, TaskInv, DoneInv, DoneAt, TaskSteps
  <2>4. TreeAt("finalize", run[w], at[w], dirty')
    BY <1>7 DEF EndOfPlan, TaskInv, TreeInv, TreeAt, OwnSteps, WriteTree, Clean, gitVars
  <2>5. GitGated' /\ ("finalize" \in TaskSteps => Approved(run[w], at[w]))
    BY <1>7, <2>2, GitKeeps DEF EndOfPlan, Moved, TaskInv, GateInv, TaskSteps
  <2> QED
    BY <2>1, <2>2, <2>3, <2>4, <2>5, MovedKeeps DEF gitVars
<1>8. ASSUME NEW w \in Workers, EditTree(w) PROVE TaskInv'
  <2>1. /\ pc[w] # "idle" /\ RecordGated(run[w], mem[w])
        /\ pc[w] \in Executing \/ UNCHANGED gitVars
    BY <1>8 DEF EditTree, TaskInv, GateInv, TaskSteps, LoopSteps, SetupSteps, Executing
  <2>2. Moved(w, "verify", at[w], mem[w])
    BY <1>8 DEF EditTree, Save, Moved, OthersKept, Goto, Leave, slotVars, loopVars, NextTask, TypeOK
  <2>3. DoneAt("verify", at[w], mem[w])
    BY <1>8 DEF EditTree, TaskInv, DoneInv, DoneAt, TaskSteps
  <2>4. TreeAt("verify", run[w], at[w], dirty')
    BY <1>8 DEF EditTree, TaskInv, TreeInv, TreeAt, OwnSteps, WriteTree, Clean, gitVars
  <2>5. GitGated' /\ ("verify" \in TaskSteps => Approved(run[w], at[w]))
    BY <1>8, <2>2, GitKeeps DEF EditTree, Moved, TaskInv, GateInv, TaskSteps, Leave, TypeOK,
       PastTheEnd
  <2> QED
    BY <2>1, <2>2, <2>3, <2>4, <2>5, MovedKeeps DEF gitVars
<1>9. ASSUME NEW w \in Workers, RejectAttempts(w) PROVE TaskInv'
  <2>1. /\ pc[w] # "idle" /\ RecordGated(run[w], mem[w])
        /\ pc[w] \in Executing \/ UNCHANGED gitVars
    BY <1>9 DEF RejectAttempts, TaskInv, GateInv, TaskSteps, LoopSteps, SetupSteps, Executing
  <2>2. Moved(w, "rejected", at[w], mem[w])
    BY <1>9 DEF RejectAttempts, Save, Moved, OthersKept, Goto, Leave, slotVars, loopVars, NextTask,
       TypeOK
  <2>3. DoneAt("rejected", at[w], mem[w])
    BY <1>9 DEF RejectAttempts, TaskInv, DoneInv, DoneAt, TaskSteps
  <2>4. TreeAt("rejected", run[w], at[w], dirty')
    BY <1>9 DEF RejectAttempts, TaskInv, TreeInv, TreeAt, OwnSteps, WriteTree, Clean, gitVars
  <2>5. GitGated' /\ ("rejected" \in TaskSteps => Approved(run[w], at[w]))
    BY <1>9, <2>2, GitKeeps DEF RejectAttempts, Moved, TaskInv, GateInv, TaskSteps
  <2> QED
    BY <2>1, <2>2, <2>3, <2>4, <2>5, MovedKeeps DEF gitVars
<1>10. ASSUME NEW w \in Workers, UndoAndRaise(w) PROVE TaskInv'
  <2>1. /\ pc[w] # "idle" /\ RecordGated(run[w], mem[w])
        /\ pc[w] \in Executing \/ UNCHANGED gitVars
    BY <1>10 DEF UndoAndRaise, TaskInv, GateInv, TaskSteps, LoopSteps, SetupSteps, Executing
  <2>2. Moved(w, "release", at[w], mem[w])
    BY <1>10 DEF UndoAndRaise, Save, Moved, OthersKept, Goto, Leave, slotVars, loopVars, NextTask,
       TypeOK
  <2>3. DoneAt("release", at[w], mem[w])
    BY <1>10 DEF UndoAndRaise, TaskInv, DoneInv, DoneAt, TaskSteps
  <2>4. TreeAt("release", run[w], at[w], dirty')
    BY <1>10 DEF UndoAndRaise, TaskInv, TreeInv, TreeAt, OwnSteps, WriteTree, Clean, gitVars
  <2>5. GitGated' /\ ("release" \in TaskSteps => Approved(run[w], at[w]))
    BY <1>10, <2>2, GitKeeps DEF UndoAndRaise, Moved, TaskInv, GateInv, TaskSteps
  <2> QED
    BY <2>1, <2>2, <2>3, <2>4, <2>5, MovedKeeps DEF gitVars
<1>11. ASSUME NEW w \in Workers, PassReview(w) PROVE TaskInv'
  <2>1. /\ pc[w] # "idle" /\ RecordGated(run[w], mem[w])
        /\ pc[w] \in Executing \/ UNCHANGED gitVars
    BY <1>11 DEF PassReview, TaskInv, GateInv, TaskSteps, LoopSteps, SetupSteps, Executing
  <2>2. Moved(w, "commit", at[w], mem[w])
    BY <1>11 DEF PassReview, Save, Moved, OthersKept, Goto, Leave, slotVars, loopVars, NextTask,
       TypeOK
  <2>3. DoneAt("commit", at[w], mem[w])
    BY <1>11 DEF PassReview, TaskInv, DoneInv, DoneAt, TaskSteps
  <2>4. TreeAt("commit", run[w], at[w], dirty')
    BY <1>11 DEF PassReview, TaskInv, TreeInv, TreeAt, OwnSteps, WriteTree, Clean, gitVars
  <2>5. GitGated' /\ ("commit" \in TaskSteps => Approved(run[w], at[w]))
    BY <1>11, <2>2, GitKeeps DEF PassReview, Moved, TaskInv, GateInv, TaskSteps
  <2> QED
    BY <2>1, <2>2, <2>3, <2>4, <2>5, MovedKeeps DEF gitVars
<1>12. ASSUME NEW w \in Workers, CommitTask(w) PROVE TaskInv'
  <2>1. /\ pc[w] # "idle" /\ RecordGated(run[w], mem[w])
        /\ pc[w] \in Executing \/ UNCHANGED gitVars
    BY <1>12 DEF CommitTask, TaskInv, GateInv, TaskSteps, LoopSteps, SetupSteps, Executing
  <2>2. Moved(w, "dispatch", at[w] + 1, mem[w])
    BY <1>12 DEF CommitTask, Save, Moved, OthersKept, Goto, Leave, slotVars, loopVars, NextTask,
       TypeOK
  <2>3. DoneAt("dispatch", at[w] + 1, mem[w])
    <3>1. mem[w].task[at[w]] = "passed"
      BY <1>12 DEF CommitTask, TaskInv, DoneInv, DoneAt
    <3>2. \A t \in Tasks : t < at[w] => mem[w].task[t] = "passed"
      BY <1>12 DEF CommitTask, TaskInv, DoneInv, DoneAt, TaskSteps
    <3>3. \A t \in Tasks : t < at[w] + 1 => t < at[w] \/ t = at[w]
      BY NTasksAssumption DEF TypeOK, Tasks
    <3> QED
      BY <3>1, <3>2, <3>3 DEF DoneAt, TaskSteps
  <2>4. TreeAt("dispatch", run[w], at[w] + 1, dirty')
    BY <1>12 DEF CommitTask, TaskInv, TreeInv, TreeAt, OwnSteps, WriteTree, Clean, gitVars
  <2>5. GitGated' /\ ("dispatch" \in TaskSteps => Approved(run[w], at[w] + 1))
    BY <1>12, <2>2, GitKeeps DEF CommitTask, Moved, TaskInv, GateInv, TaskSteps
  <2> QED
    BY <2>1, <2>2, <2>3, <2>4, <2>5, MovedKeeps DEF gitVars
<1>13. ASSUME NEW w \in Workers, UndoTask(w) PROVE TaskInv'
  <2>1. /\ pc[w] # "idle" /\ RecordGated(run[w], mem[w])
        /\ pc[w] \in Executing \/ UNCHANGED gitVars
    BY <1>13 DEF UndoTask, TaskInv, GateInv, TaskSteps, LoopSteps, SetupSteps, Executing
  <2>2. Moved(w, "mark", at[w], mem[w])
    BY <1>13 DEF UndoTask, Save, Moved, OthersKept, Goto, Leave, slotVars, loopVars, NextTask,
       TypeOK
  <2>3. DoneAt("mark", at[w], mem[w])
    BY <1>13 DEF UndoTask, TaskInv, DoneInv, DoneAt, TaskSteps
  <2>4. TreeAt("mark", run[w], at[w], dirty')
    BY <1>13 DEF UndoTask, TaskInv, TreeInv, TreeAt, OwnSteps, WriteTree, Clean, gitVars
  <2>5. GitGated' /\ ("mark" \in TaskSteps => Approved(run[w], at[w]))
    BY <1>13, <2>2, GitKeeps DEF UndoTask, Moved, TaskInv, GateInv, TaskSteps
  <2> QED
    BY <2>1, <2>2, <2>3, <2>4, <2>5, MovedKeeps DEF gitVars
<1>14. ASSUME NEW w \in Workers, RunCheck(w) PROVE TaskInv'
  <2>1. /\ pc[w] # "idle" /\ RecordGated(run[w], mem[w])
        /\ pc[w] \in Executing \/ UNCHANGED gitVars
    BY <1>14 DEF RunCheck, TaskInv, GateInv, TaskSteps, LoopSteps, SetupSteps, Executing
  <2>2. Moved(w, "checked", at[w], mem[w])
    BY <1>14 DEF RunCheck, Save, Moved, OthersKept, Goto, Leave, slotVars, loopVars, NextTask,
       TypeOK
  <2>3. DoneAt("checked", at[w], mem[w])
    BY <1>14 DEF RunCheck, TaskInv, DoneInv, DoneAt, TaskSteps
  <2>4. TreeAt("checked", run[w], at[w], dirty')
    BY <1>14 DEF RunCheck, TaskInv, TreeInv, TreeAt, OwnSteps, WriteTree, Clean, gitVars
  <2>5. GitGated' /\ ("checked" \in TaskSteps => Approved(run[w], at[w]))
    BY <1>14, <2>2, GitKeeps DEF RunCheck, Moved, TaskInv, GateInv, TaskSteps, Leave, TypeOK,
       PastTheEnd
  <2> QED
    BY <2>1, <2>2, <2>3, <2>4, <2>5, MovedKeeps DEF gitVars
<1>15. ASSUME NEW w \in Workers, MarkDone(w) PROVE TaskInv'
  <2>1. /\ pc[w] # "idle" /\ RecordGated(run[w], mem[w])
        /\ pc[w] \in Executing \/ UNCHANGED gitVars
    BY <1>15 DEF MarkDone, TaskInv, GateInv, TaskSteps, LoopSteps, SetupSteps, Executing
  <2>2. Moved(w, "finalize", at[w], mem[w])
    BY <1>15 DEF MarkDone, Save, Moved, OthersKept, Goto, Leave, slotVars, loopVars, NextTask,
       TypeOK
  <2>3. DoneAt("finalize", at[w], mem[w])
    BY <1>15 DEF MarkDone, TaskInv, DoneInv, DoneAt, TaskSteps
  <2>4. TreeAt("finalize", run[w], at[w], dirty')
    BY <1>15 DEF MarkDone, TaskInv, TreeInv, TreeAt, OwnSteps, WriteTree, Clean, gitVars
  <2>5. GitGated' /\ ("finalize" \in TaskSteps => Approved(run[w], at[w]))
    BY <1>15, <2>2, GitKeeps DEF MarkDone, Moved, TaskInv, GateInv, TaskSteps
  <2> QED
    BY <2>1, <2>2, <2>3, <2>4, <2>5, MovedKeeps DEF gitVars
<1>16. ASSUME NEW w \in Workers, StartCode(w) PROVE TaskInv'
  <2>1. /\ pc[w] \in TaskSteps /\ pc[w] # "idle" /\ SetTask(w, "running") /\ UNCHANGED gitVars
        /\ pc'[w] = "edit" /\ Approved(run[w], at[w])
    BY <1>16 DEF StartCode, TaskSteps, Goto, TypeOK, TaskInv, GateInv
  <2> DEFINE new == UpdateTask(mem[w], at[w], "running")
  <2>2. /\ RecordGated(run[w], new) /\ at[w] \in Tasks
        /\ \A t \in Tasks : new.task[t] = IF t = at[w] THEN "running" ELSE mem[w].task[t]
    BY <2>1, SetTaskMoves DEF Begun
  <2>3. Moved(w, "edit", at[w], new)
    <3>1. mem' = [mem EXCEPT ![w] = new] /\ disk' = [disk EXCEPT ![run[w]] = new]
      BY <2>1 DEF SetTask, Save
    <3> HIDE DEF new
    <3> QED
      BY <1>16, <3>1 DEF StartCode, Moved, OthersKept, Goto, Leave, slotVars, loopVars, NextTask,
         TypeOK
  <2> HIDE DEF new
  <2>4. DoneAt("edit", at[w], new)
    BY <1>16, <2>1, <2>2 DEF StartCode, TaskInv, DoneInv, DoneAt, TaskSteps, Tasks
  <2>5. TreeAt("edit", run[w], at[w], dirty')
    BY <1>16 DEF StartCode, TaskInv, TreeInv, TreeAt, OwnSteps, Clean, gitVars
  <2>6. GitGated'
    BY <2>1, <2>3, GitKeeps DEF Moved
  <2> QED
    BY <2>1, <2>2, <2>3, <2>4, <2>5, <2>6, MovedKeeps DEF gitVars, TreeAt, OwnSteps, TaskSteps
<1>17. ASSUME NEW w \in Workers, RecordRejection(w) PROVE TaskInv'
  <2>1. /\ pc[w] \in TaskSteps /\ pc[w] # "idle" /\ SetTask(w, "failed") /\ UNCHANGED gitVars
        /\ pc'[w] = "undo" /\ Approved(run[w], at[w])
    BY <1>17 DEF RecordRejection, TaskSteps, Goto, TypeOK, TaskInv, GateInv
  <2> DEFINE new == UpdateTask(mem[w], at[w], "failed")
  <2>2. /\ RecordGated(run[w], new) /\ at[w] \in Tasks
        /\ \A t \in Tasks : new.task[t] = IF t = at[w] THEN "failed" ELSE mem[w].task[t]
    BY <2>1, SetTaskMoves DEF Begun
  <2>3. Moved(w, "undo", at[w], new)
    <3>1. mem' = [mem EXCEPT ![w] = new] /\ disk' = [disk EXCEPT ![run[w]] = new]
      BY <2>1 DEF SetTask, Save
    <3> HIDE DEF new
    <3> QED
      BY <1>17, <3>1 DEF RecordRejection, Moved, OthersKept, Goto, Leave, slotVars, loopVars,
         NextTask, TypeOK
  <2> HIDE DEF new
  <2>4. DoneAt("undo", at[w], new)
    BY <1>17, <2>1, <2>2 DEF RecordRejection, TaskInv, DoneInv, DoneAt, TaskSteps, Tasks
  <2>5. TreeAt("undo", run[w], at[w], dirty')
    BY <1>17 DEF RecordRejection, TaskInv, TreeInv, TreeAt, OwnSteps, Clean, gitVars
  <2>6. GitGated'
    BY <2>1, <2>3, GitKeeps DEF Moved
  <2> QED
    BY <2>1, <2>2, <2>3, <2>4, <2>5, <2>6, MovedKeeps DEF gitVars, TreeAt, OwnSteps, TaskSteps
<1>18. ASSUME NEW w \in Workers, AcceptAttempt(w) PROVE TaskInv'
  <2>1. /\ pc[w] \in TaskSteps /\ pc[w] # "idle" /\ SetTask(w, "passed") /\ UNCHANGED gitVars
        /\ pc'[w] = "review" /\ Approved(run[w], at[w])
    BY <1>18 DEF AcceptAttempt, TaskSteps, Goto, TypeOK, TaskInv, GateInv
  <2> DEFINE new == UpdateTask(mem[w], at[w], "passed")
  <2>2. /\ RecordGated(run[w], new) /\ at[w] \in Tasks
        /\ \A t \in Tasks : new.task[t] = IF t = at[w] THEN "passed" ELSE mem[w].task[t]
    BY <2>1, SetTaskMoves DEF Begun
  <2>3. Moved(w, "review", at[w], new)
    <3>1. mem' = [mem EXCEPT ![w] = new] /\ disk' = [disk EXCEPT ![run[w]] = new]
      BY <2>1 DEF SetTask, Save
    <3> HIDE DEF new
    <3> QED
      BY <1>18, <3>1 DEF AcceptAttempt, Moved, OthersKept, Goto, Leave, slotVars, loopVars,
         NextTask, TypeOK
  <2> HIDE DEF new
  <2>4. DoneAt("review", at[w], new)
    BY <1>18, <2>1, <2>2 DEF AcceptAttempt, TaskInv, DoneInv, DoneAt, TaskSteps, Tasks
  <2>5. TreeAt("review", run[w], at[w], dirty')
    BY <1>18 DEF AcceptAttempt, TaskInv, TreeInv, TreeAt, OwnSteps, Clean, gitVars
  <2>6. GitGated'
    BY <2>1, <2>3, GitKeeps DEF Moved
  <2> QED
    BY <2>1, <2>2, <2>3, <2>4, <2>5, <2>6, MovedKeeps DEF gitVars, TreeAt, OwnSteps, TaskSteps
<1>19. ASSUME NEW w \in Workers, AttemptRaises(w) PROVE TaskInv'
  <2>1. /\ pc[w] \in TaskSteps /\ pc[w] # "idle" /\ SetTask(w, "failed") /\ UNCHANGED gitVars
        /\ pc'[w] = "reraise" /\ Approved(run[w], at[w])
    BY <1>19 DEF AttemptRaises, TaskSteps, Goto, TypeOK, TaskInv, GateInv
  <2> DEFINE new == UpdateTask(mem[w], at[w], "failed")
  <2>2. /\ RecordGated(run[w], new) /\ at[w] \in Tasks
        /\ \A t \in Tasks : new.task[t] = IF t = at[w] THEN "failed" ELSE mem[w].task[t]
    BY <2>1, SetTaskMoves DEF Begun
  <2>3. Moved(w, "reraise", at[w], new)
    <3>1. mem' = [mem EXCEPT ![w] = new] /\ disk' = [disk EXCEPT ![run[w]] = new]
      BY <2>1 DEF SetTask, Save
    <3> HIDE DEF new
    <3> QED
      BY <1>19, <3>1 DEF AttemptRaises, Moved, OthersKept, Goto, Leave, slotVars, loopVars,
         NextTask, TypeOK
  <2> HIDE DEF new
  <2>4. DoneAt("reraise", at[w], new)
    BY <1>19, <2>1, <2>2 DEF AttemptRaises, TaskInv, DoneInv, DoneAt, TaskSteps, Tasks
  <2>5. TreeAt("reraise", run[w], at[w], dirty')
    BY <1>19 DEF AttemptRaises, TaskInv, TreeInv, TreeAt, OwnSteps, Clean, gitVars
  <2>6. GitGated'
    BY <2>1, <2>3, GitKeeps DEF Moved
  <2> QED
    BY <2>1, <2>2, <2>3, <2>4, <2>5, <2>6, MovedKeeps DEF gitVars, TreeAt, OwnSteps, TaskSteps
<1>20. ASSUME NEW w \in Workers, FailReview(w) PROVE TaskInv'
  <2>1. /\ pc[w] \in TaskSteps /\ pc[w] # "idle" /\ SetTask(w, "failed") /\ UNCHANGED gitVars
        /\ pc'[w] = "undo" /\ Approved(run[w], at[w])
    BY <1>20 DEF FailReview, TaskSteps, Goto, TypeOK, TaskInv, GateInv
  <2> DEFINE new == UpdateTask(mem[w], at[w], "failed")
  <2>2. /\ RecordGated(run[w], new) /\ at[w] \in Tasks
        /\ \A t \in Tasks : new.task[t] = IF t = at[w] THEN "failed" ELSE mem[w].task[t]
    BY <2>1, SetTaskMoves DEF Begun
  <2>3. Moved(w, "undo", at[w], new)
    <3>1. mem' = [mem EXCEPT ![w] = new] /\ disk' = [disk EXCEPT ![run[w]] = new]
      BY <2>1 DEF SetTask, Save
    <3> HIDE DEF new
    <3> QED
      BY <1>20, <3>1 DEF FailReview, Moved, OthersKept, Goto, Leave, slotVars, loopVars, NextTask,
         TypeOK
  <2> HIDE DEF new
  <2>4. DoneAt("undo", at[w], new)
    BY <1>20, <2>1, <2>2 DEF FailReview, TaskInv, DoneInv, DoneAt, TaskSteps, Tasks
  <2>5. TreeAt("undo", run[w], at[w], dirty')
    BY <1>20 DEF FailReview, TaskInv, TreeInv, TreeAt, OwnSteps, Clean, gitVars
  <2>6. GitGated'
    BY <2>1, <2>3, GitKeeps DEF Moved
  <2> QED
    BY <2>1, <2>2, <2>3, <2>4, <2>5, <2>6, MovedKeeps DEF gitVars, TreeAt, OwnSteps, TaskSteps
<1>21. ASSUME NEW w \in Workers, CommitFails(w) PROVE TaskInv'
  <2>1. /\ pc[w] \in TaskSteps /\ pc[w] # "idle" /\ SetTask(w, "failed") /\ UNCHANGED gitVars
        /\ pc'[w] = "undo" /\ Approved(run[w], at[w])
    BY <1>21 DEF CommitFails, TaskSteps, Goto, TypeOK, TaskInv, GateInv
  <2> DEFINE new == UpdateTask(mem[w], at[w], "failed")
  <2>2. /\ RecordGated(run[w], new) /\ at[w] \in Tasks
        /\ \A t \in Tasks : new.task[t] = IF t = at[w] THEN "failed" ELSE mem[w].task[t]
    BY <2>1, SetTaskMoves DEF Begun
  <2>3. Moved(w, "undo", at[w], new)
    <3>1. mem' = [mem EXCEPT ![w] = new] /\ disk' = [disk EXCEPT ![run[w]] = new]
      BY <2>1 DEF SetTask, Save
    <3> HIDE DEF new
    <3> QED
      BY <1>21, <3>1 DEF CommitFails, Moved, OthersKept, Goto, Leave, slotVars, loopVars, NextTask,
         TypeOK
  <2> HIDE DEF new
  <2>4. DoneAt("undo", at[w], new)
    BY <1>21, <2>1, <2>2 DEF CommitFails, TaskInv, DoneInv, DoneAt, TaskSteps, Tasks
  <2>5. TreeAt("undo", run[w], at[w], dirty')
    BY <1>21 DEF CommitFails, TaskInv, TreeInv, TreeAt, OwnSteps, Clean, gitVars
  <2>6. GitGated'
    BY <2>1, <2>3, GitKeeps DEF Moved
  <2> QED
    BY <2>1, <2>2, <2>3, <2>4, <2>5, <2>6, MovedKeeps DEF gitVars, TreeAt, OwnSteps, TaskSteps
<1>22. ASSUME NEW w \in Workers, StartCheck(w) PROVE TaskInv'
  <2>1. /\ pc[w] \in TaskSteps /\ pc[w] # "idle" /\ SetTask(w, "running") /\ UNCHANGED gitVars
        /\ pc'[w] = "checking" /\ Approved(run[w], at[w])
    BY <1>22 DEF StartCheck, TaskSteps, Goto, TypeOK, TaskInv, GateInv
  <2> DEFINE new == UpdateTask(mem[w], at[w], "running")
  <2>2. /\ RecordGated(run[w], new) /\ at[w] \in Tasks
        /\ \A t \in Tasks : new.task[t] = IF t = at[w] THEN "running" ELSE mem[w].task[t]
    BY <2>1, SetTaskMoves DEF Begun
  <2>3. Moved(w, "checking", at[w], new)
    <3>1. mem' = [mem EXCEPT ![w] = new] /\ disk' = [disk EXCEPT ![run[w]] = new]
      BY <2>1 DEF SetTask, Save
    <3> HIDE DEF new
    <3> QED
      BY <1>22, <3>1 DEF StartCheck, Moved, OthersKept, Goto, Leave, slotVars, loopVars, NextTask,
         TypeOK
  <2> HIDE DEF new
  <2>4. DoneAt("checking", at[w], new)
    BY <1>22, <2>1, <2>2 DEF StartCheck, TaskInv, DoneInv, DoneAt, TaskSteps, Tasks
  <2>5. TreeAt("checking", run[w], at[w], dirty')
    BY <1>22 DEF StartCheck, TaskInv, TreeInv, TreeAt, OwnSteps, Clean, gitVars
  <2>6. GitGated'
    BY <2>1, <2>3, GitKeeps DEF Moved
  <2> QED
    BY <2>1, <2>2, <2>3, <2>4, <2>5, <2>6, MovedKeeps DEF gitVars, TreeAt, OwnSteps, TaskSteps
<1>23. ASSUME NEW w \in Workers, CheckPasses(w) PROVE TaskInv'
  <2>1. /\ pc[w] \in TaskSteps /\ pc[w] # "idle" /\ SetTask(w, "passed") /\ UNCHANGED gitVars
        /\ pc'[w] = "dispatch" /\ Approved(run[w], at[w])
    BY <1>23 DEF CheckPasses, TaskSteps, Goto, TypeOK, TaskInv, GateInv
  <2> DEFINE new == UpdateTask(mem[w], at[w], "passed")
  <2>2. /\ RecordGated(run[w], new) /\ at[w] \in Tasks
        /\ \A t \in Tasks : new.task[t] = IF t = at[w] THEN "passed" ELSE mem[w].task[t]
    BY <2>1, SetTaskMoves DEF Begun
  <2>3. Moved(w, "dispatch", at[w] + 1, new)
    <3>1. mem' = [mem EXCEPT ![w] = new] /\ disk' = [disk EXCEPT ![run[w]] = new]
      BY <2>1 DEF SetTask, Save
    <3> HIDE DEF new
    <3> QED
      BY <1>23, <3>1 DEF CheckPasses, Moved, OthersKept, Goto, Leave, slotVars, loopVars, NextTask,
         TypeOK
  <2> HIDE DEF new
  <2>4. DoneAt("dispatch", at[w] + 1, new)
    BY <1>23, <2>1, <2>2 DEF CheckPasses, TaskInv, DoneInv, DoneAt, TaskSteps, Tasks
  <2>5. TreeAt("dispatch", run[w], at[w], dirty')
    BY <1>23 DEF CheckPasses, TaskInv, TreeInv, TreeAt, OwnSteps, Clean, gitVars
  <2>6. GitGated'
    BY <2>1, <2>3, GitKeeps DEF Moved
  <2> QED
    BY <2>1, <2>2, <2>3, <2>4, <2>5, <2>6, MovedKeeps DEF gitVars, TreeAt, OwnSteps, TaskSteps
<1>24. ASSUME NEW w \in Workers, CheckFails(w) PROVE TaskInv'
  <2>1. /\ pc[w] \in TaskSteps /\ pc[w] # "idle" /\ SetTask(w, "failed") /\ UNCHANGED gitVars
        /\ pc'[w] = "mark" /\ Approved(run[w], at[w])
    BY <1>24 DEF CheckFails, TaskSteps, Goto, TypeOK, TaskInv, GateInv
  <2> DEFINE new == UpdateTask(mem[w], at[w], "failed")
  <2>2. /\ RecordGated(run[w], new) /\ at[w] \in Tasks
        /\ \A t \in Tasks : new.task[t] = IF t = at[w] THEN "failed" ELSE mem[w].task[t]
    BY <2>1, SetTaskMoves DEF Begun
  <2>3. Moved(w, "mark", at[w], new)
    <3>1. mem' = [mem EXCEPT ![w] = new] /\ disk' = [disk EXCEPT ![run[w]] = new]
      BY <2>1 DEF SetTask, Save
    <3> HIDE DEF new
    <3> QED
      BY <1>24, <3>1 DEF CheckFails, Moved, OthersKept, Goto, Leave, slotVars, loopVars, NextTask,
         TypeOK
  <2> HIDE DEF new
  <2>4. DoneAt("mark", at[w], new)
    BY <1>24, <2>1, <2>2 DEF CheckFails, TaskInv, DoneInv, DoneAt, TaskSteps, Tasks
  <2>5. TreeAt("mark", run[w], at[w], dirty')
    BY <1>24 DEF CheckFails, TaskInv, TreeInv, TreeAt, OwnSteps, Clean, gitVars
  <2>6. GitGated'
    BY <2>1, <2>3, GitKeeps DEF Moved
  <2> QED
    BY <2>1, <2>2, <2>3, <2>4, <2>5, <2>6, MovedKeeps DEF gitVars, TreeAt, OwnSteps, TaskSteps
<1>25. ASSUME NEW w \in Workers, CreateRun(w) PROVE TaskInv'
  <2>1. pc[w] = "create" /\ at[w] = 1 /\ run[w] \in Runs
    BY <1>25 DEF CreateRun, TaskInv, DoneInv, DoneAt, TypeOK
  <2>2. RecordGated(run[w], NewRecord)
    BY BlankGated
  <2>3. Moved(w, "branch", at[w], NewRecord)
    BY <1>25 DEF CreateRun, Save, Moved, OthersKept, Goto, slotVars, loopVars, TypeOK
  <2>6. GitGated'
    BY <1>25, <2>3, GitKeeps DEF CreateRun, Moved, TypeOK
  <2> QED
    BY <1>25, <2>1, <2>2, <2>3, <2>6, MovedKeeps
       DEF CreateRun, DoneAt, TreeAt, OwnSteps, TaskSteps, Executing, SetupSteps, LoopSteps
<1>26. ASSUME NEW w \in Workers, PrepareBranch(w) PROVE TaskInv'
  <2>1. pc[w] = "branch" /\ at[w] = 1 /\ run[w] \in Runs /\ mem[w] \in RunRecord
    BY <1>26 DEF PrepareBranch, TaskInv, DoneInv, DoneAt, TypeOK
  <2> DEFINE new == [mem[w] EXCEPT !.branch = AgentBranchFor(run[w])]
  <2>2. RecordGated(run[w], new)
    BY <2>1, OtherGated DEF TaskInv, GateInv
  <2>3. Moved(w, "bind", at[w], new)
    BY <1>26 DEF PrepareBranch, Moved, OthersKept, Goto, slotVars, loopVars, TypeOK
  <2> HIDE DEF new
  <2>6. GitGated'
    BY <1>26, <2>3, GitKeeps DEF PrepareBranch, Moved, TypeOK
  <2> QED
    BY <1>26, <2>1, <2>2, <2>3, <2>6, MovedKeeps
       DEF PrepareBranch, DoneAt, TreeAt, OwnSteps, TaskSteps, Executing, SetupSteps, LoopSteps
<1>27. ASSUME NEW w \in Workers, AppendTask(w) PROVE TaskInv'
  <2>1. pc[w] = "append" /\ at[w] \in Tasks /\ mem[w] \in RunRecord
    BY <1>27 DEF AppendTask, TypeOK, PastTheEnd
  <2> DEFINE new == AddTask(mem[w], at[w])
             next == IF at[w] = NTasks THEN "dispatch" ELSE "append"
             i == IF at[w] = NTasks THEN 1 ELSE at[w] + 1
  <2>2. RecordGated(run[w], new)
    BY <2>1, MutatorsGated DEF TaskInv, GateInv
  <2>3. Moved(w, next, i, new)
    <3>1. mem' = [mem EXCEPT ![w] = new] /\ disk' = [disk EXCEPT ![run[w]] = new]
      BY <1>27 DEF AppendTask, Save
    <3> HIDE DEF new
    <3> QED
      BY <1>27, <3>1 DEF AppendTask, Moved, OthersKept, Goto, slotVars, loopVars, TypeOK
  <2>4. DoneAt(next, i, new)
    BY <2>1 DEF DoneAt, TaskSteps, Tasks
  <2> HIDE DEF new, i
  <2>6. GitGated'
    BY <1>27, <2>3, GitKeeps DEF AppendTask, Moved
  <2> QED
    BY <2>1, <2>2, <2>3, <2>4, <2>6, MovedKeeps
       DEF TreeAt, OwnSteps, TaskSteps, Executing, SetupSteps, LoopSteps
<1>28. ASSUME NEW w \in Workers, SetupResume(w) PROVE TaskInv'
  <2>1. /\ pc[w] = "setup" /\ at[w] = 1 /\ RecordGated(run[w], mem[w])
        /\ mem[w].branch \in Branches /\ SwitchBranch(mem[w].branch)
    BY <1>28 DEF SetupResume, TaskInv, GateInv, DoneInv, DoneAt, TypeOK, RunRecord
  <2> DEFINE next == IF TasksIn(mem[w], "absent") = {} THEN "dispatch" ELSE "release"
  <2>3. Moved(w, next, at[w], mem[w])
    BY <1>28 DEF SetupResume, Moved, OthersKept, Goto, slotVars, loopVars, TypeOK
  <2>4. DoneAt(next, at[w], mem[w])
    BY <2>1 DEF DoneAt, TaskSteps, Tasks
  <2>6. GitGated'
    BY <2>1, <2>3, GitKeeps DEF Moved
  <2> QED
    BY <2>1, <2>3, <2>4, <2>6, MovedKeeps
       DEF TreeAt, OwnSteps, TaskSteps, Executing, SetupSteps, LoopSteps
<1>29. ASSUME NEW w \in Workers, DispatchTask(w) PROVE TaskInv'
  <2>1. /\ pc[w] = "dispatch" /\ at[w] \in Tasks /\ mem[w] \in RunRecord
        /\ RecordGated(run[w], mem[w]) /\ UNCHANGED gitVars
    BY <1>29 DEF DispatchTask, TaskInv, GateInv, TypeOK
  <2>2. pc[w] # "idle" /\ pc[w] \in Executing
    BY <2>1 DEF Executing, LoopSteps
  <2>3. CASE MissingDeps(w) # {}
    <3> DEFINE new == MarkUnreached(mem[w], at[w], "blocked")
    <3>1. RecordGated(run[w], new)
      BY <2>1, MutatorsGated
    <3>2. mem' = [mem EXCEPT ![w] = new] /\ disk' = [disk EXCEPT ![run[w]] = new]
      BY <1>29, <2>3 DEF DispatchTask, BlockOnMissing, Save
    <3> HIDE DEF new
    <3>3. Moved(w, "mark", at[w], new) \/ Moved(w, "finalize", at[w], new)
      BY <1>29, <2>3, <3>2 DEF DispatchTask, BlockOnMissing, Moved, OthersKept, Goto, slotVars,
         TypeOK
    <3>4. GitGated'
      BY <2>1, <3>3, GitKeeps DEF Moved
    <3> QED
      BY <2>1, <2>2, <3>1, <3>3, <3>4, MovedKeeps DEF DoneAt, TreeAt, OwnSteps, TaskSteps
  <2>4. CASE MissingDeps(w) = {} /\ MustWait(mem[w], at[w])
    <3> DEFINE new == MarkWaitingForApproval(mem[w], at[w])
    <3>1. RecordGated(run[w], new)
      BY <2>1, MutatorsGated
    <3>2. mem' = [mem EXCEPT ![w] = new] /\ disk' = [disk EXCEPT ![run[w]] = new]
      BY <1>29, <2>4 DEF DispatchTask, Save
    <3> HIDE DEF new
    <3>3. Moved(w, "release", at[w], new)
      BY <1>29, <2>4, <3>2 DEF DispatchTask, Moved, OthersKept, Goto, slotVars, loopVars, TypeOK
    <3>4. GitGated'
      BY <2>1, <3>3, GitKeeps DEF Moved
    <3> QED
      BY <2>1, <2>2, <3>1, <3>3, <3>4, MovedKeeps DEF DoneAt, TreeAt, OwnSteps, TaskSteps
  <2>5. CASE MissingDeps(w) = {} /\ ~MustWait(mem[w], at[w])
    <3>1. Approved(run[w], at[w])
      BY <2>1, <2>5 DEF MustWait, Approved, RecordGated
    <3>2. \E label \in {"code", "check"} : Moved(w, label, at[w], mem[w])
      BY <1>29, <2>5 DEF DispatchTask, Moved, OthersKept, Goto, slotVars, loopVars, TypeOK
    <3>3. GitGated'
      BY <2>1, <3>2, GitKeeps DEF Moved
    <3>4. \A label \in {"code", "check"} : DoneAt(label, at[w], mem[w])
      BY <2>1 DEF TaskInv, DoneInv, DoneAt
    <3> QED
      BY <2>1, <2>2, <3>1, <3>2, <3>3, <3>4, MovedKeeps DEF TreeAt, OwnSteps
  <2> QED
    BY <2>3, <2>4, <2>5
<1>30. ASSUME NEW w \in Workers, MarkNext(w) PROVE TaskInv'
  <2>1. pc[w] = "mark" /\ mem[w] \in RunRecord /\ RecordGated(run[w], mem[w])
    BY <1>30 DEF MarkNext, TaskInv, GateInv, TypeOK
  <2>2. PICK t \in Unmarked(w) : MarkTask(w, t)
    BY <1>30 DEF MarkNext
  <2>3. PICK s \in {"blocked", "skipped"} : Save(w, MarkUnreached(mem[w], t, s))
    BY <2>2 DEF MarkTask
  <2> DEFINE new == MarkUnreached(mem[w], t, s)
  <2>4. t \in Tasks
    BY DEF Unmarked, TasksIn
  <2>5. RecordGated(run[w], new)
    BY <2>1, <2>4, MutatorsGated
  <2>6. Moved(w, "mark", at[w], new)
    <3>1. mem' = [mem EXCEPT ![w] = new] /\ disk' = [disk EXCEPT ![run[w]] = new]
      BY <2>3 DEF Save
    <3> HIDE DEF new
    <3> QED
      BY <1>30, <3>1 DEF MarkNext, Moved, OthersKept, slotVars, TypeOK
  <2> HIDE DEF new
  <2>7. GitGated'
    BY <1>30, <2>6, GitKeeps DEF MarkNext, Moved
  <2> QED
    BY <2>1, <2>5, <2>6, <2>7, MovedKeeps
       DEF DoneAt, TreeAt, OwnSteps, TaskSteps, Executing, LoopSteps
<1>31. ASSUME NEW w \in Workers, BeginFinalize(w) PROVE TaskInv'
  <2>1. pc[w] = "finalize" /\ mem[w] \in RunRecord
    BY <1>31 DEF BeginFinalize, TypeOK
  <2> DEFINE new == [mem[w] EXCEPT !.status = "running"]
  <2>2. RecordGated(run[w], new)
    BY <2>1, OtherGated DEF TaskInv, GateInv
  <2>3. Moved(w, "finalizing", at[w], new)
    <3>1. mem' = [mem EXCEPT ![w] = new] /\ disk' = [disk EXCEPT ![run[w]] = new]
      BY <1>31 DEF BeginFinalize, Save
    <3> HIDE DEF new
    <3> QED
      BY <1>31, <3>1 DEF BeginFinalize, Moved, OthersKept, Goto, slotVars, loopVars, TypeOK
  <2> HIDE DEF new
  <2>6. GitGated'
    BY <1>31, <2>3, GitKeeps DEF BeginFinalize, Moved, TypeOK
  <2> QED
    BY <1>31, <2>1, <2>2, <2>3, <2>6, MovedKeeps
       DEF BeginFinalize, DoneAt, TreeAt, OwnSteps, TaskSteps, Executing, SetupSteps, LoopSteps
<1>32. ASSUME NEW w \in Workers, EndFinalize(w) PROVE TaskInv'
  <2>1. pc[w] = "finalizing" /\ mem[w] \in RunRecord
    BY <1>32 DEF EndFinalize, TypeOK
  <2>5. PICK finalized \in BOOLEAN : Save(w, FinishRun(mem[w], passed[w] /\ finalized))
    BY <1>32 DEF EndFinalize
  <2> DEFINE new == FinishRun(mem[w], passed[w] /\ finalized)
  <2>2. RecordGated(run[w], new)
    BY <2>1, OtherGated DEF TaskInv, GateInv
  <2>3. Moved(w, "release", at[w], new)
    <3>1. mem' = [mem EXCEPT ![w] = new] /\ disk' = [disk EXCEPT ![run[w]] = new]
      BY <2>5 DEF Save
    <3> HIDE DEF new
    <3> QED
      BY <1>32, <3>1 DEF EndFinalize, Moved, OthersKept, Goto, slotVars, loopVars, TypeOK
  <2> HIDE DEF new
  <2>6. GitGated'
    BY <1>32, <2>3, GitKeeps DEF EndFinalize, Moved, TypeOK
  <2> QED
    BY <1>32, <2>1, <2>2, <2>3, <2>6, MovedKeeps
       DEF EndFinalize, DoneAt, TreeAt, OwnSteps, TaskSteps, Executing, SetupSteps, LoopSteps
<1>33. ASSUME NEW w \in Workers, SaveApproval(w) PROVE TaskInv'
  <2>1. pc[w] = "approve" /\ run[w] \in Runs /\ mem[w] \in RunRecord /\ at[w] \in Tasks
    BY <1>33 DEF SaveApproval, TypeOK, PastTheEnd
  <2> DEFINE new == ApproveTask(mem[w], at[w])
  <2>2. /\ new.granted = mem[w].granted \cup {at[w]}
        /\ \A t \in Tasks : new.task[t] = IF t = at[w] THEN "pending" ELSE mem[w].task[t]
    <3>1. /\ new.granted = mem[w].granted \cup {at[w]}
          /\ new.task = [mem[w].task EXCEPT ![at[w]] = "pending"]
      BY <2>1 DEF ApproveTask, RunRecord
    <3>2. mem[w].task \in [Tasks -> TaskStatus \cup {"absent"}]
      BY <2>1 DEF RunRecord
    <3> HIDE DEF new
    <3> QED
      BY <3>1, <3>2
  <2>3. RecordGated(run[w], mem[w])
    BY <2>1 DEF TaskInv, GateInv
  <2>4. \A r \in Runs : disk'[r] = IF r = run[w] THEN new ELSE disk[r]
    BY <1>33 DEF SaveApproval, TypeOK
  <2> HIDE DEF new
  <2>5. approvals' = approvals \cup {<<run[w], at[w]>>}
    BY <1>33 DEF SaveApproval
  <2>6. \A r \in Runs : RecordGated(r, disk[r])'
    <3> SUFFICES ASSUME NEW r \in Runs PROVE RecordGated(r, disk[r])'
      OBVIOUS
    <3>1. CASE r = run[w]
      BY <2>2, <2>3, <2>4, <2>5, <3>1 DEF RecordGated, Approved, Begun
    <3>2. CASE r # run[w]
      BY <2>4, <2>5, <3>2 DEF RecordGated, Approved, TaskInv, GateInv
    <3> QED
      BY <3>1, <3>2
  <2> QED
    BY <1>33, <2>1, <2>5, <2>6, LeftKeeps DEF SaveApproval
<1>34. ASSUME NEW w \in Workers, ReleaseLease(w) PROVE TaskInv'
  <2>1. pc[w] # "idle" /\ Forget(w) /\ UNCHANGED <<disk, approvals, gitVars>>
    BY <1>34 DEF ReleaseLease, TaskSteps, LoopSteps, SetupSteps, Executing
  <2>2. \A r \in Runs : RecordGated(r, disk[r])'
    BY <2>1 DEF TaskInv, GateInv, RecordGated, Approved
  <2> QED
    BY <2>1, <2>2, LeftKeeps
<1>35. ASSUME NEW w \in Workers, SlotTaken(w) PROVE TaskInv'
  <2>1. pc[w] # "idle" /\ Forget(w) /\ UNCHANGED <<disk, approvals, gitVars>>
    BY <1>35 DEF SlotTaken, TaskSteps, LoopSteps, SetupSteps, Executing
  <2>2. \A r \in Runs : RecordGated(r, disk[r])'
    BY <2>1 DEF TaskInv, GateInv, RecordGated, Approved
  <2> QED
    BY <2>1, <2>2, LeftKeeps
<1>36. ASSUME NEW w \in Workers, Fault(w) PROVE TaskInv'
  <2>1. pc[w] # "idle" /\ Forget(w) /\ UNCHANGED <<disk, approvals, gitVars>>
    BY <1>36 DEF Fault, Interrupt, Kill, TaskSteps, LoopSteps, SetupSteps, Executing
  <2>2. \A r \in Runs : RecordGated(r, disk[r])'
    BY <2>1 DEF TaskInv, GateInv, RecordGated, Approved
  <2> QED
    BY <2>1, <2>2, LeftKeeps
<1>37. ASSUME NEW w \in Workers, NEW r \in Runs, StartRun(w, r) PROVE TaskInv'
  <2>1. OthersKept(w) /\ pc'[w] = "create" /\ run'[w] = r /\ at'[w] = at[w] /\ mem'[w] = mem[w]
    BY <1>37 DEF StartRun, OthersKept, Goto, loopVars, TypeOK
  <2>2. at[w] = 1
    BY <1>37 DEF StartRun, TaskInv, DoneInv, DoneAt
  <2>3. RecordGated(r, mem[w])
    BY <1>37, BlankGated DEF StartRun, TaskInv, DoneInv, DoneAt
  <2> QED
    BY <1>37, <2>1, <2>2, <2>3, CalledKeeps DEF StartRun
<1>38. ASSUME NEW w \in Workers, NEW r \in Runs, LoadForResume(w, r) PROVE TaskInv'
  <2>1. OthersKept(w) /\ pc'[w] = "resume" /\ run'[w] = r /\ at'[w] = at[w] /\ mem'[w] = disk[r]
    BY <1>38 DEF LoadForResume, OthersKept, Goto, loopVars, TypeOK
  <2>2. at[w] = 1
    BY <1>38 DEF LoadForResume, TaskInv, DoneInv, DoneAt
  <2> QED
    BY <1>38, <2>1, <2>2, CalledKeeps DEF LoadForResume, TaskInv, GateInv
<1>39. ASSUME NEW w \in Workers, NEW r \in Runs,
            NEW t \in Tasks, LoadForApproval(w, r, t) PROVE TaskInv'
  <2>1. OthersKept(w) /\ pc'[w] = "approve" /\ run'[w] = r /\ mem'[w] = disk[r]
    BY <1>39 DEF LoadForApproval, OthersKept, Goto, TypeOK
  <2> QED
    BY <1>39, <2>1, CalledKeeps DEF LoadForApproval, TaskInv, GateInv
<1>40. ASSUME User PROVE TaskInv'
  <2>1. \A w \in Workers : pc[w] \notin Executing
    BY <1>40 DEF User, UserCleansTree, UserSwitchesTo, SlotInv
  <2>2. UNCHANGED runVars /\ log' = log /\ dirty' \subseteq dirty
    BY <1>40 DEF User, UserCleansTree, UserSwitchesTo
  <2>3. TreeInv'
    BY <2>1, <2>2 DEF TreeInv, TreeAt, OwnSteps, runVars, Executing, LoopSteps, TaskSteps
  <2>4. GateInv' /\ DoneInv'
    BY <2>2 DEF TaskInv, GateInv, GitGated, RecordGated, Approved, DoneInv, DoneAt, runVars
  <2> QED
    BY <2>3, <2>4 DEF TaskInv
<1> QED
  BY <1>u, <1>1, <1>2, <1>3, <1>4, <1>5, <1>6, <1>7, <1>8, <1>9, <1>10, <1>11,
     <1>12, <1>13, <1>14, <1>15, <1>16, <1>17, <1>18, <1>19, <1>20, <1>21, <1>22,
     <1>23, <1>24, <1>25, <1>26, <1>27, <1>28, <1>29, <1>30, <1>31, <1>32, <1>33,
     <1>34, <1>35, <1>36, <1>37, <1>38, <1>39, <1>40
     DEF Next, Step, Call

LEMMA TaskInvariant == Spec => []TaskInv
<1>1. Init => TaskInv
  <2> SUFFICES ASSUME Init PROVE TaskInv
    OBVIOUS
  <2>1. TreeInv
    BY DEF Init, TreeInv, TreeAt, OwnSteps
  <2>2. GateInv
    BY BlankGated DEF Init, GitInit, GateInv, GitGated, TaskSteps
  <2>3. DoneInv
    BY DEF Init, DoneInv, DoneAt, TaskSteps
  <2> QED
    BY <2>1, <2>2, <2>3 DEF TaskInv
<1> QED
  BY <1>1, TypeCorrect, SlotInvariant, TaskStep, PTL DEF Spec

-----------------------------------------------------------------------------
(* The theorems.                                                           *)

(* What is verified, reviewed and committed for a task is its own work.    *)
THEOREM OwnWork == Spec => []TreeIsOwnWork
<1>1. TaskInv => TreeIsOwnWork
  BY DEF TaskInv, TreeInv, TreeAt, OwnSteps, TreeIsOwnWork, Clean
<1> QED
  BY <1>1, TaskInvariant, PTL

(* No task that needs approval has begun or left work without it.          *)
THEOREM GatesHold == Spec => []GateHeld
<1>1. TypeOK /\ TaskInv => GateHeld
  <2> SUFFICES ASSUME TypeOK, TaskInv PROVE GateHeld
    OBVIOUS
  <2>1. \A work \in Work : Approved(work[1], work[2]) /\ ApprovalRequired(work[2])
                             => work \in approvals
    BY DEF Work, Approved
  <2>2. \A work \in dirty \cup UNION {log[b] : b \in Branches} :
          work \in Work /\ Approved(work[1], work[2])
    BY DEF TypeOK, GitTypeOK, TaskInv, GateInv, GitGated
  <2> QED
    BY <2>1, <2>2 DEF TaskInv, GateInv, RecordGated, Approved, Begun, GateHeld
<1> QED
  BY <1>1, TypeCorrect, TaskInvariant, PTL

(* The loop never meets a task with a missing dependency.                  *)
THEOREM LoopInOrder == Spec => []DependenciesDone
<1>1. TaskInv => DependenciesDone
  BY DEF TaskInv, DoneInv, DoneAt, DependenciesDone
<1> QED
  BY <1>1, TaskInvariant, PTL
=============================================================================
