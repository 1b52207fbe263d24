------------------------- MODULE RunSafety_proofs --------------------------
(***************************************************************************)
(* Proofs, for every set of workers and runs and every plan, on top of the *)
(* invariants of RunLifecycle_proofs: that RunLifecycle implements         *)
(* GitIsolation, that a failed plan explains what it did not reach, and    *)
(* that undisturbed runs commit what they pass.                            *)
(***************************************************************************)
EXTENDS RunLifecycle_proofs, WellFoundedInduction

-----------------------------------------------------------------------------
(* RunLifecycle implements GitIsolation, with the lease as the slot.       *)

LEMMA IsolationInit == Init => Isolation!Init
BY DEF Init, GitInit, Isolation!Init, Branches

LEMMA IsolationStutters ==
  ASSUME UNCHANGED <<lease, head, log, dirty>>
  PROVE  [Isolation!Next]_(Isolation!isolationVars)
BY DEF Isolation!isolationVars

LEMMA IsolationStep ==
  ASSUME TypeOK, SlotInv, BranchInv, TaskInv, [Next]_vars
  PROVE  [Isolation!Next]_(Isolation!isolationVars)
<1>0. \A w \in Workers : pc[w] \in Executing => lease = w
  BY DEF SlotInv
<1>u. ASSUME UNCHANGED vars PROVE [Isolation!Next]_(Isolation!isolationVars)
  BY <1>u, IsolationStutters DEF vars, runVars, gitVars
<1>1. ASSUME NEW w \in Workers, CreateRun(w)
       PROVE  [Isolation!Next]_(Isolation!isolationVars)
  BY <1>1, IsolationStutters DEF CreateRun, Leave, slotVars, gitVars
<1>2. ASSUME NEW w \in Workers, BindBranch(w)
       PROVE  [Isolation!Next]_(Isolation!isolationVars)
  BY <1>2, IsolationStutters DEF BindBranch, Leave, slotVars, gitVars
<1>3. ASSUME NEW w \in Workers, AppendTask(w)
       PROVE  [Isolation!Next]_(Isolation!isolationVars)
  BY <1>3, IsolationStutters DEF AppendTask, Leave, slotVars, gitVars
<1>4. ASSUME NEW w \in Workers, RefuseDirtyTree(w)
       PROVE  [Isolation!Next]_(Isolation!isolationVars)
  BY <1>4, IsolationStutters DEF RefuseDirtyTree, Leave, slotVars, gitVars
<1>5. ASSUME NEW w \in Workers, RefuseResume(w)
       PROVE  [Isolation!Next]_(Isolation!isolationVars)
  BY <1>5, IsolationStutters DEF RefuseResume, Leave, slotVars, gitVars
<1>6. ASSUME NEW w \in Workers, RefuseFinishedTask(w)
       PROVE  [Isolation!Next]_(Isolation!isolationVars)
  BY <1>6, IsolationStutters DEF RefuseFinishedTask, Leave, slotVars, gitVars
<1>7. ASSUME NEW w \in Workers, SkipPassed(w)
       PROVE  [Isolation!Next]_(Isolation!isolationVars)
  BY <1>7, IsolationStutters DEF SkipPassed, Leave, slotVars, gitVars
<1>8. ASSUME NEW w \in Workers, EndOfPlan(w)
       PROVE  [Isolation!Next]_(Isolation!isolationVars)
  BY <1>8, IsolationStutters DEF EndOfPlan, Leave, slotVars, gitVars
<1>9. ASSUME NEW w \in Workers, DispatchTask(w)
       PROVE  [Isolation!Next]_(Isolation!isolationVars)
  BY <1>9, IsolationStutters DEF DispatchTask, Leave, slotVars, gitVars
<1>10. ASSUME NEW w \in Workers, StartCode(w)
       PROVE  [Isolation!Next]_(Isolation!isolationVars)
  BY <1>10, IsolationStutters DEF StartCode, Leave, slotVars, gitVars
<1>11. ASSUME NEW w \in Workers, RecordRejection(w)
       PROVE  [Isolation!Next]_(Isolation!isolationVars)
  BY <1>11, IsolationStutters DEF RecordRejection, Leave, slotVars, gitVars
<1>12. ASSUME NEW w \in Workers, AcceptAttempt(w)
       PROVE  [Isolation!Next]_(Isolation!isolationVars)
  BY <1>12, IsolationStutters DEF AcceptAttempt, Leave, slotVars, gitVars
<1>13. ASSUME NEW w \in Workers, AttemptRaises(w)
       PROVE  [Isolation!Next]_(Isolation!isolationVars)
  BY <1>13, IsolationStutters DEF AttemptRaises, Leave, slotVars, gitVars
<1>14. ASSUME NEW w \in Workers, PassReview(w)
       PROVE  [Isolation!Next]_(Isolation!isolationVars)
  BY <1>14, IsolationStutters DEF PassReview, Leave, slotVars, gitVars
<1>15. ASSUME NEW w \in Workers, FailReview(w)
       PROVE  [Isolation!Next]_(Isolation!isolationVars)
  BY <1>15, IsolationStutters DEF FailReview, Leave, slotVars, gitVars
<1>16. ASSUME NEW w \in Workers, CommitFails(w)
       PROVE  [Isolation!Next]_(Isolation!isolationVars)
  BY <1>16, IsolationStutters DEF CommitFails, Leave, slotVars, gitVars
<1>17. ASSUME NEW w \in Workers, StartCheck(w)
       PROVE  [Isolation!Next]_(Isolation!isolationVars)
  BY <1>17, IsolationStutters DEF StartCheck, Leave, slotVars, gitVars
<1>18. ASSUME NEW w \in Workers, CheckPasses(w)
       PROVE  [Isolation!Next]_(Isolation!isolationVars)
  BY <1>18, IsolationStutters DEF CheckPasses, Leave, slotVars, gitVars
<1>19. ASSUME NEW w \in Workers, CheckFails(w)
       PROVE  [Isolation!Next]_(Isolation!isolationVars)
  BY <1>19, IsolationStutters DEF CheckFails, Leave, slotVars, gitVars
<1>20. ASSUME NEW w \in Workers, MarkNext(w)
       PROVE  [Isolation!Next]_(Isolation!isolationVars)
  BY <1>20, IsolationStutters DEF MarkNext, Leave, slotVars, gitVars
<1>21. ASSUME NEW w \in Workers, MarkDone(w)
       PROVE  [Isolation!Next]_(Isolation!isolationVars)
  BY <1>21, IsolationStutters DEF MarkDone, Leave, slotVars, gitVars
<1>22. ASSUME NEW w \in Workers, BeginFinalize(w)
       PROVE  [Isolation!Next]_(Isolation!isolationVars)
  BY <1>22, IsolationStutters DEF BeginFinalize, Leave, slotVars, gitVars
<1>23. ASSUME NEW w \in Workers, EndFinalize(w)
       PROVE  [Isolation!Next]_(Isolation!isolationVars)
  BY <1>23, IsolationStutters DEF EndFinalize, Leave, slotVars, gitVars
<1>24. ASSUME NEW w \in Workers, SlotTaken(w)
       PROVE  [Isolation!Next]_(Isolation!isolationVars)
  BY <1>24, IsolationStutters DEF SlotTaken, Leave, slotVars, gitVars
<1>25. ASSUME NEW w \in Workers, SaveApproval(w)
       PROVE  [Isolation!Next]_(Isolation!isolationVars)
  BY <1>25, IsolationStutters DEF SaveApproval, Leave, slotVars, gitVars
<1>26. ASSUME NEW w \in Workers, NEW r \in Runs, LoadForResume(w, r)
       PROVE  [Isolation!Next]_(Isolation!isolationVars)
  BY <1>26, IsolationStutters DEF LoadForResume, gitVars
<1>27. ASSUME NEW w \in Workers, NEW r \in Runs, NEW t \in Tasks, LoadForApproval(w, r, t)
       PROVE  [Isolation!Next]_(Isolation!isolationVars)
  BY <1>27, IsolationStutters DEF LoadForApproval, gitVars
<1>28. ASSUME NEW w \in Workers, NEW r \in Runs, StartRun(w, r)
       PROVE  [Isolation!Next]_(Isolation!isolationVars)
  BY <1>28 DEF StartRun, SlotFree, gitVars, Isolation!Next, Isolation!Acquire
<1>29. ASSUME NEW w \in Workers, AcquireForResume(w)
       PROVE  [Isolation!Next]_(Isolation!isolationVars)
  BY <1>29 DEF AcquireForResume, SlotFree, gitVars, Isolation!Next, Isolation!Acquire
<1>30. ASSUME NEW w \in Workers, ReleaseLease(w)
       PROVE  [Isolation!Next]_(Isolation!isolationVars)
  <2>1. lease = w
    BY <1>30, <1>0 DEF ReleaseLease, Executing
  <2> QED
    BY <1>30, <2>1 DEF ReleaseLease, gitVars, Isolation!Next, Isolation!Vacate
<1>31. ASSUME NEW w \in Workers, Fault(w)
       PROVE  [Isolation!Next]_(Isolation!isolationVars)
  <2>1. CASE lease = w
    BY <1>31, <2>1 DEF Fault, Interrupt, Kill, gitVars, Isolation!Next, Isolation!Vacate
  <2>2. CASE lease # w
    BY <1>31, <2>2, IsolationStutters DEF Fault, Interrupt, Kill, gitVars
  <2> QED
    BY <2>1, <2>2
<1>32. ASSUME NEW w \in Workers, PrepareBranch(w)
       PROVE  [Isolation!Next]_(Isolation!isolationVars)
  <2>1. lease = w /\ run[w] \in Runs
    BY <1>32, <1>0 DEF PrepareBranch, TypeOK, Executing, SetupSteps
  <2>2. head' \in Runs
    BY <1>32, <2>1 DEF PrepareBranch, CreateAgentBranch, AgentBranchFor, TypeOK, GitTypeOK, Branches
  <2>3. log' \in {log, [log EXCEPT ![head'] = log[Main]]}
    BY <1>32 DEF PrepareBranch, CreateAgentBranch, AgentBranchFor
  <2> QED
    BY <1>32, <2>1, <2>2, <2>3
       DEF PrepareBranch, CreateAgentBranch, Clean, slotVars, Isolation!Next, Isolation!TakeBranch
<1>33. ASSUME NEW w \in Workers, SetupResume(w)
       PROVE  [Isolation!Next]_(Isolation!isolationVars)
  <2>1. lease = w
    BY <1>33, <1>0 DEF SetupResume, Executing, SetupSteps
  <2>2. mem[w].branch \in Runs
    BY <1>33 DEF SetupResume, BranchInv, TypeOK, RunRecord, Branches
  <2> QED
    BY <1>33, <2>1, <2>2
       DEF SetupResume, SwitchBranch, Clean, slotVars, Isolation!Next, Isolation!TakeBranch
<1>34. ASSUME NEW w \in Workers, EditTree(w)
       PROVE  [Isolation!Next]_(Isolation!isolationVars)
  <2>1. lease = w /\ head # Main /\ <<run[w], at[w]>> \in Work
    BY <1>34, <1>0 DEF EditTree, BranchInv, BranchSteps, Executing, LoopSteps, TaskSteps, TypeOK,
       PastTheEnd, Work
  <2> QED
    BY <1>34, <2>1 DEF EditTree, WriteTree, slotVars, Isolation!Next, Isolation!WriteWork
<1>35. ASSUME NEW w \in Workers, RunCheck(w)
       PROVE  [Isolation!Next]_(Isolation!isolationVars)
  <2>1. lease = w /\ head # Main /\ <<run[w], at[w]>> \in Work
    BY <1>35, <1>0 DEF RunCheck, BranchInv, BranchSteps, Executing, LoopSteps, TaskSteps, TypeOK,
       PastTheEnd, Work
  <2>2. CASE UNCHANGED gitVars
    BY <1>35, <2>2, IsolationStutters DEF RunCheck, slotVars, gitVars
  <2>3. CASE WriteTree(<<run[w], at[w]>>)
    BY <1>35, <2>1, <2>3 DEF RunCheck, WriteTree, slotVars, Isolation!Next, Isolation!WriteWork
  <2> QED
    BY <1>35, <2>2, <2>3 DEF RunCheck
<1>36. ASSUME NEW w \in Workers, RejectAttempts(w)
       PROVE  [Isolation!Next]_(Isolation!isolationVars)
  <2>1. lease = w
    BY <1>36, <1>0 DEF RejectAttempts, Executing, LoopSteps, TaskSteps
  <2> QED
    BY <1>36, <2>1, IsolationStutters
       DEF RejectAttempts, Rollback, Leave, slotVars, gitVars, Isolation!Next, Isolation!DiscardWork
<1>37. ASSUME NEW w \in Workers, UndoAndRaise(w)
       PROVE  [Isolation!Next]_(Isolation!isolationVars)
  <2>1. lease = w
    BY <1>37, <1>0 DEF UndoAndRaise, Executing, LoopSteps, TaskSteps
  <2> QED
    BY <1>37, <2>1, IsolationStutters
       DEF UndoAndRaise, Rollback, Leave, slotVars, gitVars, Isolation!Next, Isolation!DiscardWork
<1>38. ASSUME NEW w \in Workers, UndoTask(w)
       PROVE  [Isolation!Next]_(Isolation!isolationVars)
  <2>1. lease = w
    BY <1>38, <1>0 DEF UndoTask, Executing, LoopSteps, TaskSteps
  <2> QED
    BY <1>38, <2>1, IsolationStutters
       DEF UndoTask, Rollback, Leave, slotVars, gitVars, Isolation!Next, Isolation!DiscardWork
<1>39. ASSUME NEW w \in Workers, CommitTask(w)
       PROVE  [Isolation!Next]_(Isolation!isolationVars)
  <2>1. lease = w /\ head # Main /\ <<run[w], at[w]>> \in Work
    BY <1>39, <1>0 DEF CommitTask, BranchInv, BranchSteps, Executing, LoopSteps, TaskSteps, TypeOK,
       PastTheEnd, Work
  <2>2. dirty = {<<run[w], at[w]>>}
    BY <1>39 DEF CommitTask, TaskInv, TreeInv, TreeAt, OwnSteps
  <2> QED
    BY <1>39, <2>1, <2>2 DEF CommitTask, Checkpoint, slotVars, Isolation!Next, Isolation!CommitWork
<1>40. ASSUME User PROVE [Isolation!Next]_(Isolation!isolationVars)
  BY <1>40 DEF User, UserCleansTree, UserSwitchesTo, Clean, runVars, Branches, Isolation!Next,
     Isolation!OwnerActs
<1> QED
  BY <1>u, <1>1, <1>2, <1>3, <1>4, <1>5, <1>6, <1>7, <1>8, <1>9, <1>10, <1>11,
     <1>12, <1>13, <1>14, <1>15, <1>16, <1>17, <1>18, <1>19, <1>20, <1>21, <1>22,
     <1>23, <1>24, <1>25, <1>26, <1>27, <1>28, <1>29, <1>30, <1>31, <1>32, <1>33,
     <1>34, <1>35, <1>36, <1>37, <1>38, <1>39, <1>40
     DEF Next, Step, Call

(* One execution at a time changes the repository, task by task and only   *)
(* on agent branches; between executions it belongs to the user.           *)
THEOREM ImplementsIsolation == Spec => IsolationSpec
<1>1. Init => Isolation!Init
  BY IsolationInit
<1>2. TypeOK /\ SlotInv /\ BranchInv /\ TaskInv /\ [Next]_vars
        => [Isolation!Next]_(Isolation!isolationVars)
  BY IsolationStep
<1> QED
  BY <1>1, <1>2, TypeCorrect, SlotInvariant, BranchInvariant, TaskInvariant, PTL
     DEF Spec, IsolationSpec, Isolation!Spec

-----------------------------------------------------------------------------
(* What a task depends on, directly or not.                                *)

(* Upstream satisfies the equation that defines it: the function of the    *)
(* tasks that are in every set with Deps[t] and what its members depend on *)
(* does.                                                                   *)
LEMMA UpstreamEquation ==
  \A t \in Tasks : Upstream[t] = Deps[t] \cup UNION {Upstream[d] : d \in Deps[t]}
<1> DEFINE Holds(t, S) == Deps[t] \subseteq S /\ \A d \in S : Deps[d] \subseteq S
           Below(t) == {u \in Tasks : \A S \in SUBSET Tasks : Holds(t, S) => u \in S}
           F == [t \in Tasks |-> Below(t)]
           Equation(f) == f = [t \in Tasks |-> Deps[t] \cup UNION {f[d] : d \in Deps[t]}]
<1>1. ASSUME NEW t \in Tasks PROVE Below(t) = Deps[t] \cup UNION {Below(d) : d \in Deps[t]}
  <2> DEFINE R == Deps[t] \cup UNION {Below(d) : d \in Deps[t]}
  <2>1. Deps[t] \subseteq Below(t) /\ Deps[t] \subseteq Tasks
    BY PlanAssumption
  <2>2. ASSUME NEW d \in Deps[t] PROVE Below(d) \subseteq Below(t)
    BY <2>1
  <2>3. ASSUME NEW x \in Tasks, NEW y \in Tasks, y \in Below(x) PROVE Deps[y] \subseteq Below(x)
    BY <2>3, PlanAssumption
  <2>4. ASSUME NEW x \in R PROVE Deps[x] \subseteq R
    <3>1. CASE x \in Deps[t]
      <4>1. Deps[x] \subseteq Below(x)
        BY <2>1, <3>1, PlanAssumption
      <4> QED
        BY <3>1, <4>1
    <3>2. CASE x \notin Deps[t]
      <4>1. PICK d \in Deps[t] : x \in Below(d)
        BY <3>2
      <4>2. Deps[x] \subseteq Below(d)
        BY <2>1, <2>3, <4>1
      <4> QED
        BY <4>2
    <3> QED
      BY <3>1, <3>2
  <2>5. R \in SUBSET Tasks /\ Holds(t, R)
    BY <2>1, <2>4
  <2>6. Below(t) \subseteq R
    <3> HIDE DEF R
    <3> QED
      BY <2>5
  <2> QED
    BY <2>1, <2>2, <2>6
<1>2. Equation(F)
  <2>1. ASSUME NEW t \in Tasks PROVE F[t] = Deps[t] \cup UNION {F[d] : d \in Deps[t]}
    <3>1. {F[d] : d \in Deps[t]} = {Below(d) : d \in Deps[t]}
      BY PlanAssumption
    <3> HIDE DEF Below
    <3> QED
      BY <1>1, <3>1
  <2> HIDE DEF Below
  <2> QED
    BY <2>1
<1>3. Equation(Upstream)
  <2> HIDE DEF F
  <2> QED
    BY <1>2 DEF Upstream
<1> QED
  BY <1>3

(* A plan is ordered: whatever a task needs comes before it.               *)
LEMMA UpstreamBefore == \A t \in Tasks : \A u \in Upstream[t] : u \in Tasks /\ u < t
<1> DEFINE Wrong == {t \in Tasks : \E u \in Upstream[t] : ~(u \in Tasks /\ u < t)}
<1> SUFFICES ASSUME Wrong # {} PROVE FALSE
  OBVIOUS
<1>1. Wrong \subseteq Nat /\ Tasks \subseteq Nat
  BY NTasksAssumption DEF Tasks
<1>2. PICK t \in Wrong : \A d \in Wrong : <<d, t>> \notin OpToRel(<, Nat)
  <2> HIDE DEF Wrong
  <2> QED
    BY <1>1, WFMin, NatLessThanWellFounded, Zenon
<1>3. \A d \in Deps[t] : d \in Tasks /\ d < t /\ d \notin Wrong
  <2>1. \A d \in Deps[t] : d \in Tasks /\ d < t
    BY PlanAssumption
  <2>2. ASSUME NEW d \in Deps[t], d \in Wrong PROVE FALSE
    BY <1>1, <1>2, <2>1, <2>2 DEF OpToRel
  <2> QED
    BY <2>1, <2>2
<1>4. ASSUME NEW u \in Upstream[t] PROVE u \in Tasks /\ u < t
  <2>1. CASE u \in Deps[t]
    BY <1>3, <2>1
  <2>2. CASE u \notin Deps[t]
    <3>1. PICK d \in Deps[t] : u \in Upstream[d]
      BY <2>2, UpstreamEquation
    <3>2. u \in Tasks /\ u < d
      BY <1>3, <3>1
    <3>3. d < t /\ u \in Nat /\ d \in Nat /\ t \in Nat
      BY <1>1, <1>3, <3>2
    <3> QED
      BY <3>2, <3>3
  <2> QED
    BY <2>1, <2>2
<1> QED
  BY <1>4
-----------------------------------------------------------------------------
(* The shape of a record of tasks.                                         *)

(* Nothing after the first task that has not passed has been reached.      *)
Linear(m) ==
  \A t, u \in Tasks : t < u /\ m.task[t] # "passed" => m.task[u] \in {"pending", "absent"}

(* Task k failed, and those after it are marked or will be.                *)
FailedAt(m, k) ==
  /\ k \in Tasks /\ m.task[k] = "failed"
  /\ \A t \in Tasks : t < k => m.task[t] = "passed"
  /\ \A t \in Tasks : t > k => m.task[t] \in {"pending", "blocked", "skipped"}

Shape(m) == Linear(m) \/ \E k \in Tasks : FailedAt(m, k)

(* The tasks after k are marked in order; those marked are blocked exactly *)
(* if they depend on k, and b has them and k.                              *)
Marked(m, k, b) ==
  /\ FailedAt(m, k)
  /\ b = {k} \cup TasksIn(m, "blocked")
  /\ \A t \in Tasks :
       t > k /\ m.task[t] # "pending" => (m.task[t] = "blocked" <=> k \in Upstream[t])
  /\ \A t, u \in Tasks : k < t /\ t < u /\ m.task[t] = "pending" => m.task[u] = "pending"

(* What a worker relies on at each label: how is its mode, ok its passed   *)
(* and b its blocked.                                                      *)
ShapeAt(label, how, i, m, ok, b) ==
  /\ Shape(m)
  /\ label \in {"idle", "create", "branch", "bind"} => \A t \in Tasks : m.task[t] = "absent"
  /\ label = "append" => \A t \in Tasks : m.task[t] = IF t < i THEN "pending" ELSE "absent"
  /\ label \in {"resume", "setup"} => how = "resume"
  /\ label = "approve" => m.task[i] = "waiting"
  /\ label \in LoopSteps => TasksIn(m, "absent") = {}
  /\ label = "dispatch" /\ how = "run" => Linear(m)
  /\ label \in TaskSteps => \A t \in Tasks : t > i => m.task[t] = "pending"
  /\ label = "undo" => FailedAt(m, i)
  /\ label = "mark" => Marked(m, i, b)
  /\ label \notin {"finalize", "finalizing", "release"} => ok
  /\ label \in {"finalize", "finalizing"} /\ ~ok => Marked(m, i, b) /\ TasksIn(m, "pending") = {}

WorkerShape(w) == ShapeAt(pc[w], mode[w], at[w], mem[w], passed[w], blocked[w])

ShapeInv ==
  /\ \A r \in Runs : Shape(disk[r])
  /\ \A w \in Workers : WorkerShape(w)

-----------------------------------------------------------------------------
(* What a mutator of RunState leaves of the tasks, and of their shape.     *)

LEMMA TasksOfMutated ==
  ASSUME NEW m \in RunRecord, NEW t \in Tasks, NEW u \in Tasks
  PROVE  /\ AddTask(m, t).task[u] = IF u = t THEN "pending" ELSE m.task[u]
         /\ MarkWaitingForApproval(m, t).task[u] = IF u = t THEN "waiting" ELSE m.task[u]
         /\ ApproveTask(m, t).task[u] = IF u = t THEN "pending" ELSE m.task[u]
         /\ \A s : MarkUnreached(m, t, s).task[u] = IF u = t THEN s ELSE m.task[u]
         /\ \A s : UpdateTask(m, t, s).task[u] = IF u = t THEN s ELSE m.task[u]
<1>1. m.task \in [Tasks -> TaskStatus \cup {"absent"}]
  BY DEF RunRecord
<1>2. AddTask(m, t).task[u] = IF u = t THEN "pending" ELSE m.task[u]
  BY <1>1 DEF AddTask, RunRecord
<1>3. MarkWaitingForApproval(m, t).task[u] = IF u = t THEN "waiting" ELSE m.task[u]
  BY <1>1 DEF MarkWaitingForApproval, RunRecord
<1>4. ApproveTask(m, t).task[u] = IF u = t THEN "pending" ELSE m.task[u]
  BY <1>1 DEF ApproveTask, RunRecord
<1>5. \A s : MarkUnreached(m, t, s).task[u] = IF u = t THEN s ELSE m.task[u]
  BY <1>1 DEF MarkUnreached, RunRecord
<1>6. ASSUME NEW s PROVE UpdateTask(m, t, s).task[u] = IF u = t THEN s ELSE m.task[u]
  <2>1. UpdateTask(m, t, s).task = [m.task EXCEPT ![t] = s]
    BY DEF UpdateTask, RunRecord
  <2> QED
    BY <1>1, <2>1
<1> QED
  BY <1>2, <1>3, <1>4, <1>5, <1>6

LEMMA TasksOfFinished ==
  ASSUME NEW m \in RunRecord
  PROVE  /\ \A ok : FinishRun(m, ok).task = m.task
         /\ [m EXCEPT !.status = "running"].task = m.task
         /\ \A b : [m EXCEPT !.branch = b].task = m.task
BY DEF FinishRun, RunRecord

(* Only the tasks of a record have a shape.                                *)
LEMMA SameTasks ==
  ASSUME NEW m, NEW n, n.task = m.task
  PROVE  /\ Shape(m) => Shape(n)
         /\ \A label, how, i, ok, b :
              ShapeAt(label, how, i, m, ok, b) => ShapeAt(label, how, i, n, ok, b)
BY DEF ShapeAt, Marked, Shape, FailedAt, Linear, TasksIn

(* The task at hand begins, passes or fails behind tasks that have passed  *)
(* and in front of tasks that are pending.                                 *)
LEMMA TaskShape ==
  ASSUME NEW m, NEW i \in Tasks,
         \A t \in Tasks : t < i => m.task[t] = "passed",
         \A t \in Tasks : t > i => m.task[t] = "pending"
  PROVE  /\ Linear(m)
         /\ m.task[i] = "failed" => FailedAt(m, i)
         /\ m.task[i] # "absent" => TasksIn(m, "absent") = {}
<1>1. \A t \in Tasks : t < i \/ t = i \/ t > i
  BY NTasksAssumption DEF Tasks
<1>2. \A t, u \in Tasks : t < u /\ ~(t < i) => u > i
  BY NTasksAssumption DEF Tasks
<1> QED
  BY <1>1, <1>2 DEF Linear, FailedAt, TasksIn

LEMMA SetTaskShape ==
  ASSUME TypeOK, DoneInv, ShapeInv, NEW w \in Workers, pc[w] \in TaskSteps, NEW s \in Begun
  PROVE  LET new == UpdateTask(mem[w], at[w], s)
         IN  /\ Linear(new) /\ TasksIn(new, "absent") = {}
             /\ \A t \in Tasks : t > at[w] => new.task[t] = "pending"
             /\ s = "failed" => FailedAt(new, at[w])
             /\ at[w] \in Tasks /\ mem[w] \in RunRecord /\ passed[w]
<1> DEFINE new == UpdateTask(mem[w], at[w], s)
<1>1. at[w] \in Tasks /\ mem[w] \in RunRecord
  BY DEF TypeOK, TaskSteps, PastTheEnd
<1>2. \A u \in Tasks : new.task[u] = IF u = at[w] THEN s ELSE mem[w].task[u]
  BY <1>1, TasksOfMutated
<1>3. \A t \in Tasks : t < at[w] => mem[w].task[t] = "passed"
  BY DEF DoneInv, DoneAt
<1>4. passed[w] /\ \A t \in Tasks : t > at[w] => mem[w].task[t] = "pending"
  BY DEF ShapeInv, WorkerShape, ShapeAt, TaskSteps
<1> HIDE DEF new
<1>5. /\ \A t \in Tasks : t < at[w] => new.task[t] = "passed"
      /\ \A t \in Tasks : t > at[w] => new.task[t] = "pending"
      /\ new.task[at[w]] = s
  <2>1. \A t \in Tasks : t < at[w] \/ t > at[w] => t # at[w]
    BY <1>1, NTasksAssumption DEF Tasks
  <2> QED
    BY <1>1, <1>2, <1>3, <1>4, <2>1
<1>6. s # "absent"
  BY DEF Begun
<1>7. Linear(new) /\ TasksIn(new, "absent") = {} /\ (s = "failed" => FailedAt(new, at[w]))
  BY <1>1, <1>5, <1>6, TaskShape
<1> QED
  BY <1>1, <1>4, <1>5, <1>7 DEF new

(* Before the first iteration only the failed task is blocked.             *)
LEMMA MarkBegins ==
  ASSUME NEW m, NEW i \in Tasks, FailedAt(m, i), \A t \in Tasks : t > i => m.task[t] = "pending"
  PROVE  Marked(m, i, {i})
<1>1. \A t \in Tasks : t < i \/ t = i \/ t > i
  BY NTasksAssumption DEF Tasks
<1>2. \A t, u \in Tasks : i < t /\ t < u => u > i
  BY NTasksAssumption DEF Tasks
<1>3. TasksIn(m, "blocked") = {}
  BY <1>1 DEF FailedAt, TasksIn
<1> QED
  BY <1>2, <1>3 DEF Marked

(* A worker moves, and may have saved what it has in memory.               *)
OthersShaped(w) ==
  \A v \in Workers \ {w} :
    /\ pc'[v] = pc[v] /\ mode'[v] = mode[v] /\ at'[v] = at[v] /\ mem'[v] = mem[v]
    /\ passed'[v] = passed[v] /\ blocked'[v] = blocked[v]

MovedTo(w, label, how, i, m, ok, b) ==
  /\ OthersShaped(w)
  /\ pc'[w] = label /\ mode'[w] = how /\ at'[w] = i /\ mem'[w] = m
  /\ passed'[w] = ok /\ blocked'[w] = b
  /\ \A r \in Runs : disk'[r] = disk[r] \/ disk'[r] = m

LEMMA ShapeMoved ==
  ASSUME ShapeInv, NEW w \in Workers,
         NEW label, NEW how, NEW i, NEW m, NEW ok, NEW b,
         MovedTo(w, label, how, i, m, ok, b), ShapeAt(label, how, i, m, ok, b)
  PROVE  ShapeInv'
<1>1. \A r \in Runs : Shape(disk'[r])
  BY DEF MovedTo, ShapeInv, ShapeAt
<1>2. ASSUME NEW v \in Workers
      PROVE  ShapeAt(pc'[v], mode'[v], at'[v], mem'[v], passed'[v], blocked'[v])
  <2>1. CASE v = w
    BY <2>1 DEF MovedTo
  <2>2. CASE v # w
    BY <2>2 DEF MovedTo, OthersShaped, ShapeInv, WorkerShape
  <2> QED
    BY <2>1, <2>2
<1> QED
  BY <1>1, <1>2 DEF ShapeInv, WorkerShape

LEMMA BlankShape ==
  \A m \in {NoRecord, NewRecord} : Shape(m) /\ \A t \in Tasks : m.task[t] = "absent"
BY BlankContent DEF Shape, Linear

LEMMA ShapeLeft ==
  ASSUME TypeOK, ShapeInv, NEW w \in Workers, Forget(w), \A r \in Runs : Shape(disk'[r])
  PROVE  ShapeInv'
<1>1. OthersShaped(w)
  BY DEF Forget, OthersShaped, TypeOK
<1>2. /\ pc'[w] = "idle" /\ mode'[w] = "run" /\ at'[w] = 1 /\ mem'[w] = NoRecord
      /\ passed'[w] = TRUE /\ blocked'[w] = {}
  BY DEF Forget, TypeOK
<1>3. ShapeAt("idle", "run", 1, NoRecord, TRUE, {})
  BY BlankShape DEF ShapeAt, LoopSteps, TaskSteps
<1> QED
  BY <1>1, <1>2, <1>3 DEF OthersShaped, ShapeInv, WorkerShape

-----------------------------------------------------------------------------
(* Every step keeps the shape: one step per action.                        *)

LEMMA ShapeStep == TypeOK /\ DoneInv /\ ShapeInv /\ [Next]_vars => ShapeInv'
<1> SUFFICES ASSUME TypeOK, DoneInv, ShapeInv, [Next]_vars PROVE ShapeInv'
  OBVIOUS
<1>u. ASSUME UNCHANGED vars PROVE ShapeInv'
  BY <1>u DEF ShapeInv, WorkerShape, vars, runVars
<1>1. ASSUME NEW w \in Workers, BindBranch(w) PROVE ShapeInv'
  <2>1. BindBranch(w) /\ WorkerShape(w)
    BY <1>1 DEF ShapeInv
  <2>2. MovedTo(w, "append", mode[w], at[w], mem[w], passed[w], blocked[w])
    BY <1>1 DEF BindBranch, MovedTo, OthersShaped, Save, Goto, Leave, slotVars, loopVars, NextTask,
       TypeOK
  <2>3. ShapeAt("append", mode[w], at[w], mem[w], passed[w], blocked[w])
    <3>1. at[w] = 1 /\ \A t \in Tasks : ~(t < 1)
      BY <2>1, NTasksAssumption DEF BindBranch, DoneInv, DoneAt, Tasks
    <3> QED
      BY <2>1, <3>1 DEF BindBranch, WorkerShape, ShapeAt, LoopSteps, TaskSteps
  <2> QED
    BY <2>2, <2>3, ShapeMoved
<1>2. ASSUME NEW w \in Workers, RefuseDirtyTree(w) PROVE ShapeInv'
  <2>1. RefuseDirtyTree(w) /\ WorkerShape(w)
    BY <1>2 DEF ShapeInv
  <2>2. MovedTo(w, "release", mode[w], at[w], mem[w], passed[w], blocked[w])
    BY <1>2 DEF RefuseDirtyTree, MovedTo, OthersShaped, Save, Goto, Leave, slotVars, loopVars,
       NextTask, TypeOK
  <2>3. ShapeAt("release", mode[w], at[w], mem[w], passed[w], blocked[w])
    BY <2>1 DEF RefuseDirtyTree, WorkerShape, ShapeAt, LoopSteps, TaskSteps
  <2> QED
    BY <2>2, <2>3, ShapeMoved
<1>3. ASSUME NEW w \in Workers, AcquireForResume(w) PROVE ShapeInv'
  <2>1. AcquireForResume(w) /\ WorkerShape(w)
    BY <1>3 DEF ShapeInv
  <2>2. MovedTo(w, "setup", mode[w], at[w], mem[w], passed[w], blocked[w])
    BY <1>3 DEF AcquireForResume, MovedTo, OthersShaped, Save, Goto, Leave, slotVars, loopVars,
       NextTask, TypeOK
  <2>3. ShapeAt("setup", mode[w], at[w], mem[w], passed[w], blocked[w])
    BY <2>1 DEF AcquireForResume, WorkerShape, ShapeAt, LoopSteps, TaskSteps
  <2> QED
    BY <2>2, <2>3, ShapeMoved
<1>4. ASSUME NEW w \in Workers, RefuseResume(w) PROVE ShapeInv'
  <2>1. RefuseResume(w) /\ WorkerShape(w)
    BY <1>4 DEF ShapeInv
  <2>2. MovedTo(w, "release", mode[w], at[w], mem[w], passed[w], blocked[w])
    BY <1>4 DEF RefuseResume, MovedTo, OthersShaped, Save, Goto, Leave, slotVars, loopVars,
       NextTask, TypeOK
  <2>3. ShapeAt("release", mode[w], at[w], mem[w], passed[w], blocked[w])
    BY <2>1 DEF RefuseResume, WorkerShape, ShapeAt, LoopSteps, TaskSteps
  <2> QED
    BY <2>2, <2>3, ShapeMoved
<1>5. ASSUME NEW w \in Workers, EndOfPlan(w) PROVE ShapeInv'
  <2>1. EndOfPlan(w) /\ WorkerShape(w)
    BY <1>5 DEF ShapeInv
  <2>2. MovedTo(w, "finalize", mode[w], at[w], mem[w], passed[w], blocked[w])
    BY <1>5 DEF EndOfPlan, MovedTo, OthersShaped, Save, Goto, Leave, slotVars, loopVars, NextTask,
       TypeOK
  <2>3. ShapeAt("finalize", mode[w], at[w], mem[w], passed[w], blocked[w])
    BY <2>1 DEF EndOfPlan, WorkerShape, ShapeAt, LoopSteps, TaskSteps
  <2> QED
    BY <2>2, <2>3, ShapeMoved
<1>6. ASSUME NEW w \in Workers, RefuseFinishedTask(w) PROVE ShapeInv'
  <2>1. RefuseFinishedTask(w) /\ WorkerShape(w)
    BY <1>6 DEF ShapeInv
  <2>2. MovedTo(w, "release", mode[w], at[w], mem[w], passed[w], blocked[w])
    BY <1>6 DEF RefuseFinishedTask, MovedTo, OthersShaped, Save, Goto, Leave, slotVars, loopVars,
       NextTask, TypeOK
  <2>3. ShapeAt("release", mode[w], at[w], mem[w], passed[w], blocked[w])
    BY <2>1 DEF RefuseFinishedTask, WorkerShape, ShapeAt, LoopSteps, TaskSteps
  <2> QED
    BY <2>2, <2>3, ShapeMoved
<1>7. ASSUME NEW w \in Workers, EditTree(w) PROVE ShapeInv'
  <2>1. EditTree(w) /\ WorkerShape(w)
    BY <1>7 DEF ShapeInv
  <2>2. MovedTo(w, "verify", mode[w], at[w], mem[w], passed[w], blocked[w])
    BY <1>7 DEF EditTree, MovedTo, OthersShaped, Save, Goto, Leave, slotVars, loopVars, NextTask,
       TypeOK
  <2>3. ShapeAt("verify", mode[w], at[w], mem[w], passed[w], blocked[w])
    BY <2>1 DEF EditTree, WorkerShape, ShapeAt, LoopSteps, TaskSteps
  <2> QED
    BY <2>2, <2>3, ShapeMoved
<1>8. ASSUME NEW w \in Workers, RejectAttempts(w) PROVE ShapeInv'
  <2>1. RejectAttempts(w) /\ WorkerShape(w)
    BY <1>8 DEF ShapeInv
  <2>2. MovedTo(w, "rejected", mode[w], at[w], mem[w], passed[w], blocked[w])
    BY <1>8 DEF RejectAttempts, MovedTo, OthersShaped, Save, Goto, Leave, slotVars, loopVars,
       NextTask, TypeOK
  <2>3. ShapeAt("rejected", mode[w], at[w], mem[w], passed[w], blocked[w])
    BY <2>1 DEF RejectAttempts, WorkerShape, ShapeAt, LoopSteps, TaskSteps
  <2> QED
    BY <2>2, <2>3, ShapeMoved
<1>9. ASSUME NEW w \in Workers, UndoAndRaise(w) PROVE ShapeInv'
  <2>1. UndoAndRaise(w) /\ WorkerShape(w)
    BY <1>9 DEF ShapeInv
  <2>2. MovedTo(w, "release", mode[w], at[w], mem[w], passed[w], blocked[w])
    BY <1>9 DEF UndoAndRaise, MovedTo, OthersShaped, Save, Goto, Leave, slotVars, loopVars,
       NextTask, TypeOK
  <2>3. ShapeAt("release", mode[w], at[w], mem[w], passed[w], blocked[w])
    BY <2>1 DEF UndoAndRaise, WorkerShape, ShapeAt, LoopSteps, TaskSteps
  <2> QED
    BY <2>2, <2>3, ShapeMoved
<1>10. ASSUME NEW w \in Workers, PassReview(w) PROVE ShapeInv'
  <2>1. PassReview(w) /\ WorkerShape(w)
    BY <1>10 DEF ShapeInv
  <2>2. MovedTo(w, "commit", mode[w], at[w], mem[w], passed[w], blocked[w])
    BY <1>10 DEF PassReview, MovedTo, OthersShaped, Save, Goto, Leave, slotVars, loopVars, NextTask,
       TypeOK
  <2>3. ShapeAt("commit", mode[w], at[w], mem[w], passed[w], blocked[w])
    BY <2>1 DEF PassReview, WorkerShape, ShapeAt, LoopSteps, TaskSteps
  <2> QED
    BY <2>2, <2>3, ShapeMoved
<1>11. ASSUME NEW w \in Workers, RunCheck(w) PROVE ShapeInv'
  <2>1. RunCheck(w) /\ WorkerShape(w)
    BY <1>11 DEF ShapeInv
  <2>2. MovedTo(w, "checked", mode[w], at[w], mem[w], passed[w], blocked[w])
    BY <1>11 DEF RunCheck, MovedTo, OthersShaped, Save, Goto, Leave, slotVars, loopVars, NextTask,
       TypeOK
  <2>3. ShapeAt("checked", mode[w], at[w], mem[w], passed[w], blocked[w])
    BY <2>1 DEF RunCheck, WorkerShape, ShapeAt, LoopSteps, TaskSteps
  <2> QED
    BY <2>2, <2>3, ShapeMoved
<1>12. ASSUME NEW w \in Workers, SkipPassed(w) PROVE ShapeInv'
  <2>1. SkipPassed(w) /\ WorkerShape(w)
    BY <1>12 DEF ShapeInv
  <2>2. MovedTo(w, "dispatch", mode[w], at[w] + 1, mem[w], passed[w], blocked[w])
    BY <1>12 DEF SkipPassed, MovedTo, OthersShaped, Save, Goto, Leave, slotVars, loopVars, NextTask,
       TypeOK
  <2>3. ShapeAt("dispatch", mode[w], at[w] + 1, mem[w], passed[w], blocked[w])
    BY <2>1 DEF SkipPassed, WorkerShape, ShapeAt, LoopSteps, TaskSteps
  <2> QED
    BY <2>2, <2>3, ShapeMoved
<1>13. ASSUME NEW w \in Workers, CommitTask(w) PROVE ShapeInv'
  <2>1. CommitTask(w) /\ WorkerShape(w)
    BY <1>13 DEF ShapeInv
  <2>2. MovedTo(w, "dispatch", mode[w], at[w] + 1, mem[w], passed[w], blocked[w])
    BY <1>13 DEF CommitTask, MovedTo, OthersShaped, Save, Goto, Leave, slotVars, loopVars, NextTask,
       TypeOK
  <2>3. ShapeAt("dispatch", mode[w], at[w] + 1, mem[w], passed[w], blocked[w])
    <3>1. /\ \A t \in Tasks : t < at[w] => mem[w].task[t] = "passed"
          /\ \A t \in Tasks : t > at[w] => mem[w].task[t] = "pending"
      BY <2>1 DEF CommitTask, WorkerShape, ShapeAt, DoneInv, DoneAt, TaskSteps
    <3>2. Linear(mem[w])
      BY <2>1, <3>1, TaskShape DEF CommitTask, TypeOK, PastTheEnd
    <3> QED
      BY <2>1, <3>2 DEF CommitTask, WorkerShape, ShapeAt, LoopSteps, TaskSteps
  <2> QED
    BY <2>2, <2>3, ShapeMoved
<1>14. ASSUME NEW w \in Workers, UndoTask(w) PROVE ShapeInv'
  <2>1. UndoTask(w) /\ WorkerShape(w)
    BY <1>14 DEF ShapeInv
  <2>2. MovedTo(w, "mark", mode[w], at[w], mem[w], passed[w], {at[w]})
    BY <1>14 DEF UndoTask, MovedTo, OthersShaped, Save, Goto, Leave, slotVars, loopVars, NextTask,
       TypeOK
  <2>3. ShapeAt("mark", mode[w], at[w], mem[w], passed[w], {at[w]})
    <3>1. FailedAt(mem[w], at[w]) /\ \A t \in Tasks : t > at[w] => mem[w].task[t] = "pending"
      BY <2>1 DEF UndoTask, WorkerShape, ShapeAt, TaskSteps
    <3>2. Marked(mem[w], at[w], {at[w]})
      BY <3>1, MarkBegins DEF FailedAt
    <3> QED
      BY <2>1, <3>2 DEF UndoTask, WorkerShape, ShapeAt, LoopSteps, TaskSteps
  <2> QED
    BY <2>2, <2>3, ShapeMoved
<1>15. ASSUME NEW w \in Workers, MarkDone(w) PROVE ShapeInv'
  <2>1. MarkDone(w) /\ WorkerShape(w)
    BY <1>15 DEF ShapeInv
  <2>2. MovedTo(w, "finalize", mode[w], at[w], mem[w], FALSE, blocked[w])
    BY <1>15 DEF MarkDone, MovedTo, OthersShaped, Save, Goto, Leave, slotVars, loopVars, NextTask,
       TypeOK
  <2>3. ShapeAt("finalize", mode[w], at[w], mem[w], FALSE, blocked[w])
    <3>1. Marked(mem[w], at[w], blocked[w])
      BY <2>1 DEF MarkDone, WorkerShape, ShapeAt
    <3>2. TasksIn(mem[w], "pending") = {}
      BY <2>1, <3>1 DEF MarkDone, Unmarked, Marked, FailedAt, TasksIn
    <3> QED
      BY <2>1, <3>1, <3>2 DEF MarkDone, WorkerShape, ShapeAt, LoopSteps, TaskSteps
  <2> QED
    BY <2>2, <2>3, ShapeMoved
<1>16. ASSUME NEW w \in Workers, StartCode(w) PROVE ShapeInv'
  <2>1. pc[w] \in TaskSteps /\ SetTask(w, "running")
    BY <1>16 DEF StartCode, TaskSteps
  <2> DEFINE new == UpdateTask(mem[w], at[w], "running")
  <2>2. mem' = [mem EXCEPT ![w] = new] /\ disk' = [disk EXCEPT ![run[w]] = new]
    BY <2>1 DEF SetTask, Save
  <2>3. /\ Linear(new) /\ TasksIn(new, "absent") = {} /\ passed[w]
        /\ \A t \in Tasks : t > at[w] => new.task[t] = "pending"
        /\ "running" = "failed" => FailedAt(new, at[w])
    BY <2>1, SetTaskShape DEF Begun
  <2> HIDE DEF new
  <2>4. MovedTo(w, "edit", mode[w], at[w], new, passed[w], blocked[w])
    BY <1>16, <2>2 DEF StartCode, MovedTo, OthersShaped, Save, Goto, Leave, slotVars, loopVars,
       NextTask, TypeOK
  <2>5. ShapeAt("edit", mode[w], at[w], new, passed[w], blocked[w])
    BY <2>3 DEF ShapeAt, Shape, LoopSteps, TaskSteps
  <2> QED
    BY <2>4, <2>5, ShapeMoved
<1>17. ASSUME NEW w \in Workers, RecordRejection(w) PROVE ShapeInv'
  <2>1. pc[w] \in TaskSteps /\ SetTask(w, "failed")
    BY <1>17 DEF RecordRejection, TaskSteps
  <2> DEFINE new == UpdateTask(mem[w], at[w], "failed")
  <2>2. mem' = [mem EXCEPT ![w] = new] /\ disk' = [disk EXCEPT ![run[w]] = new]
    BY <2>1 DEF SetTask, Save
  <2>3. /\ Linear(new) /\ TasksIn(new, "absent") = {} /\ passed[w]
        /\ \A t \in Tasks : t > at[w] => new.task[t] = "pending"
        /\ "failed" = "failed" => FailedAt(new, at[w])
    BY <2>1, SetTaskShape DEF Begun
  <2> HIDE DEF new
  <2>4. MovedTo(w, "undo", mode[w], at[w], new, passed[w], blocked[w])
    BY <1>17, <2>2 DEF RecordRejection, MovedTo, OthersShaped, Save, Goto, Leave, slotVars,
       loopVars, NextTask, TypeOK
  <2>5. ShapeAt("undo", mode[w], at[w], new, passed[w], blocked[w])
    BY <2>3 DEF ShapeAt, Shape, LoopSteps, TaskSteps
  <2> QED
    BY <2>4, <2>5, ShapeMoved
<1>18. ASSUME NEW w \in Workers, AcceptAttempt(w) PROVE ShapeInv'
  <2>1. pc[w] \in TaskSteps /\ SetTask(w, "passed")
    BY <1>18 DEF AcceptAttempt, TaskSteps
  <2> DEFINE new == UpdateTask(mem[w], at[w], "passed")
  <2>2. mem' = [mem EXCEPT ![w] = new] /\ disk' = [disk EXCEPT ![run[w]] = new]
    BY <2>1 DEF SetTask, Save
  <2>3. /\ Linear(new) /\ TasksIn(new, "absent") = {} /\ passed[w]
        /\ \A t \in Tasks : t > at[w] => new.task[t] = "pending"
        /\ "passed" = "failed" => FailedAt(new, at[w])
    BY <2>1, SetTaskShape DEF Begun
  <2> HIDE DEF new
  <2>4. MovedTo(w, "review", mode[w], at[w], new, passed[w], blocked[w])
    BY <1>18, <2>2 DEF AcceptAttempt, MovedTo, OthersShaped, Save, Goto, Leave, slotVars, loopVars,
       NextTask, TypeOK
  <2>5. ShapeAt("review", mode[w], at[w], new, passed[w], blocked[w])
    BY <2>3 DEF ShapeAt, Shape, LoopSteps, TaskSteps
  <2> QED
    BY <2>4, <2>5, ShapeMoved
<1>19. ASSUME NEW w \in Workers, AttemptRaises(w) PROVE ShapeInv'
  <2>1. pc[w] \in TaskSteps /\ SetTask(w, "failed")
    BY <1>19 DEF AttemptRaises, TaskSteps
  <2> DEFINE new == UpdateTask(mem[w], at[w], "failed")
  <2>2. mem' = [mem EXCEPT ![w] = new] /\ disk' = [disk EXCEPT ![run[w]] = new]
    BY <2>1 DEF SetTask, Save
  <2>3. /\ Linear(new) /\ TasksIn(new, "absent") = {} /\ passed[w]
        /\ \A t \in Tasks : t > at[w] => new.task[t] = "pending"
        /\ "failed" = "failed" => FailedAt(new, at[w])
    BY <2>1, SetTaskShape DEF Begun
  <2> HIDE DEF new
  <2>4. MovedTo(w, "reraise", mode[w], at[w], new, passed[w], blocked[w])
    BY <1>19, <2>2 DEF AttemptRaises, MovedTo, OthersShaped, Save, Goto, Leave, slotVars, loopVars,
       NextTask, TypeOK
  <2>5. ShapeAt("reraise", mode[w], at[w], new, passed[w], blocked[w])
    BY <2>3 DEF ShapeAt, Shape, LoopSteps, TaskSteps
  <2> QED
    BY <2>4, <2>5, ShapeMoved
<1>20. ASSUME NEW w \in Workers, FailReview(w) PROVE ShapeInv'
  <2>1. pc[w] \in TaskSteps /\ SetTask(w, "failed")
    BY <1>20 DEF FailReview, TaskSteps
  <2> DEFINE new == UpdateTask(mem[w], at[w], "failed")
  <2>2. mem' = [mem EXCEPT ![w] = new] /\ disk' = [disk EXCEPT ![run[w]] = new]
    BY <2>1 DEF SetTask, Save
  <2>3. /\ Linear(new) /\ TasksIn(new, "absent") = {} /\ passed[w]
        /\ \A t \in Tasks : t > at[w] => new.task[t] = "pending"
        /\ "failed" = "failed" => FailedAt(new, at[w])
    BY <2>1, SetTaskShape DEF Begun
  <2> HIDE DEF new
  <2>4. MovedTo(w, "undo", mode[w], at[w], new, passed[w], blocked[w])
    BY <1>20, <2>2 DEF FailReview, MovedTo, OthersShaped, Save, Goto, Leave, slotVars, loopVars,
       NextTask, TypeOK
  <2>5. ShapeAt("undo", mode[w], at[w], new, passed[w], blocked[w])
    BY <2>3 DEF ShapeAt, Shape, LoopSteps, TaskSteps
  <2> QED
    BY <2>4, <2>5, ShapeMoved
<1>21. ASSUME NEW w \in Workers, CommitFails(w) PROVE ShapeInv'
  <2>1. pc[w] \in TaskSteps /\ SetTask(w, "failed")
    BY <1>21 DEF CommitFails, TaskSteps
  <2> DEFINE new == UpdateTask(mem[w], at[w], "failed")
  <2>2. mem' = [mem EXCEPT ![w] = new] /\ disk' = [disk EXCEPT ![run[w]] = new]
    BY <2>1 DEF SetTask, Save
  <2>3. /\ Linear(new) /\ TasksIn(new, "absent") = {} /\ passed[w]
        /\ \A t \in Tasks : t > at[w] => new.task[t] = "pending"
        /\ "failed" = "failed" => FailedAt(new, at[w])
    BY <2>1, SetTaskShape DEF Begun
  <2> HIDE DEF new
  <2>4. MovedTo(w, "undo", mode[w], at[w], new, passed[w], blocked[w])
    BY <1>21, <2>2 DEF CommitFails, MovedTo, OthersShaped, Save, Goto, Leave, slotVars, loopVars,
       NextTask, TypeOK
  <2>5. ShapeAt("undo", mode[w], at[w], new, passed[w], blocked[w])
    BY <2>3 DEF ShapeAt, Shape, LoopSteps, TaskSteps
  <2> QED
    BY <2>4, <2>5, ShapeMoved
<1>22. ASSUME NEW w \in Workers, StartCheck(w) PROVE ShapeInv'
  <2>1. pc[w] \in TaskSteps /\ SetTask(w, "running")
    BY <1>22 DEF StartCheck, TaskSteps
  <2> DEFINE new == UpdateTask(mem[w], at[w], "running")
  <2>2. mem' = [mem EXCEPT ![w] = new] /\ disk' = [disk EXCEPT ![run[w]] = new]
    BY <2>1 DEF SetTask, Save
  <2>3. /\ Linear(new) /\ TasksIn(new, "absent") = {} /\ passed[w]
        /\ \A t \in Tasks : t > at[w] => new.task[t] = "pending"
        /\ "running" = "failed" => FailedAt(new, at[w])
    BY <2>1, SetTaskShape DEF Begun
  <2> HIDE DEF new
  <2>4. MovedTo(w, "checking", mode[w], at[w], new, passed[w], blocked[w])
    BY <1>22, <2>2 DEF StartCheck, MovedTo, OthersShaped, Save, Goto, Leave, slotVars, loopVars,
       NextTask, TypeOK
  <2>5. ShapeAt("checking", mode[w], at[w], new, passed[w], blocked[w])
    BY <2>3 DEF ShapeAt, Shape, LoopSteps, TaskSteps
  <2> QED
    BY <2>4, <2>5, ShapeMoved
<1>23. ASSUME NEW w \in Workers, CheckPasses(w) PROVE ShapeInv'
  <2>1. pc[w] \in TaskSteps /\ SetTask(w, "passed")
    BY <1>23 DEF CheckPasses, TaskSteps
  <2> DEFINE new == UpdateTask(mem[w], at[w], "passed")
  <2>2. mem' = [mem EXCEPT ![w] = new] /\ disk' = [disk EXCEPT ![run[w]] = new]
    BY <2>1 DEF SetTask, Save
  <2>3. /\ Linear(new) /\ TasksIn(new, "absent") = {} /\ passed[w]
        /\ \A t \in Tasks : t > at[w] => new.task[t] = "pending"
        /\ "passed" = "failed" => FailedAt(new, at[w])
    BY <2>1, SetTaskShape DEF Begun
  <2> HIDE DEF new
  <2>4. MovedTo(w, "dispatch", mode[w], at[w] + 1, new, passed[w], blocked[w])
    BY <1>23, <2>2 DEF CheckPasses, MovedTo, OthersShaped, Save, Goto, Leave, slotVars, loopVars,
       NextTask, TypeOK
  <2>5. ShapeAt("dispatch", mode[w], at[w] + 1, new, passed[w], blocked[w])
    BY <2>3 DEF ShapeAt, Shape, LoopSteps, TaskSteps
  <2> QED
    BY <2>4, <2>5, ShapeMoved
<1>24. ASSUME NEW w \in Workers, CheckFails(w) PROVE ShapeInv'
  <2>1. pc[w] \in TaskSteps /\ SetTask(w, "failed")
    BY <1>24 DEF CheckFails, TaskSteps
  <2> DEFINE new == UpdateTask(mem[w], at[w], "failed")
  <2>2. mem' = [mem EXCEPT ![w] = new] /\ disk' = [disk EXCEPT ![run[w]] = new]
    BY <2>1 DEF SetTask, Save
  <2>3. /\ Linear(new) /\ TasksIn(new, "absent") = {} /\ passed[w]
        /\ \A t \in Tasks : t > at[w] => new.task[t] = "pending"
        /\ "failed" = "failed" => FailedAt(new, at[w])
    BY <2>1, SetTaskShape DEF Begun
  <2> HIDE DEF new
  <2>4. MovedTo(w, "mark", mode[w], at[w], new, passed[w], {at[w]})
    BY <1>24, <2>2 DEF CheckFails, MovedTo, OthersShaped, Save, Goto, Leave, slotVars, loopVars,
       NextTask, TypeOK
  <2>5. ShapeAt("mark", mode[w], at[w], new, passed[w], {at[w]})
    <3>1. Marked(new, at[w], {at[w]})
      BY <2>3, MarkBegins DEF FailedAt
    <3> QED
      BY <2>3, <3>1 DEF ShapeAt, Shape, LoopSteps, TaskSteps
  <2> QED
    BY <2>4, <2>5, ShapeMoved
<1>25. ASSUME NEW w \in Workers, CreateRun(w) PROVE ShapeInv'
  <2>1. passed[w]
    BY <1>25 DEF CreateRun, ShapeInv, WorkerShape, ShapeAt
  <2>2. MovedTo(w, "branch", mode[w], at[w], NewRecord, passed[w], blocked[w])
    BY <1>25 DEF CreateRun, MovedTo, OthersShaped, Save, Goto, Leave, slotVars, loopVars, NextTask,
       TypeOK
  <2>3. ShapeAt("branch", mode[w], at[w], NewRecord, passed[w], blocked[w])
    BY <2>1, BlankShape DEF ShapeAt, LoopSteps, TaskSteps
  <2> QED
    BY <2>2, <2>3, ShapeMoved
<1>26. ASSUME NEW w \in Workers, PrepareBranch(w) PROVE ShapeInv'
  <2>1. PrepareBranch(w) /\ WorkerShape(w) /\ mem[w] \in RunRecord
    BY <1>26 DEF ShapeInv, TypeOK
  <2> DEFINE new == [mem[w] EXCEPT !.branch = AgentBranchFor(run[w])]
  <2>2. mem' = [mem EXCEPT ![w] = new] /\ new.task = mem[w].task
    BY <2>1, TasksOfFinished DEF PrepareBranch
  <2> HIDE DEF new
  <2>3. MovedTo(w, "bind", mode[w], at[w], new, passed[w], blocked[w])
    BY <2>1, <2>2 DEF PrepareBranch, MovedTo, OthersShaped, Save, Goto, Leave, slotVars, loopVars,
       NextTask, TypeOK
  <2>4. ShapeAt("bind", mode[w], at[w], mem[w], passed[w], blocked[w])
    BY <2>1 DEF PrepareBranch, WorkerShape, ShapeAt, LoopSteps, TaskSteps
  <2>5. ShapeAt("bind", mode[w], at[w], new, passed[w], blocked[w])
    BY <2>2, <2>4, SameTasks
  <2> QED
    BY <2>3, <2>5, ShapeMoved
<1>27. ASSUME NEW w \in Workers, BeginFinalize(w) PROVE ShapeInv'
  <2>1. BeginFinalize(w) /\ WorkerShape(w) /\ mem[w] \in RunRecord
    BY <1>27 DEF ShapeInv, TypeOK
  <2> DEFINE new == [mem[w] EXCEPT !.status = "running"]
  <2>2. mem' = [mem EXCEPT ![w] = new] /\ disk' = [disk EXCEPT ![run[w]] = new]
    BY <1>27 DEF BeginFinalize, Save
  <2>3. new.task = mem[w].task
    BY <2>1, TasksOfFinished
  <2> HIDE DEF new
  <2>4. MovedTo(w, "finalizing", mode[w], at[w], new, passed[w], blocked[w])
    BY <1>27, <2>2 DEF BeginFinalize, MovedTo, OthersShaped, Save, Goto, Leave, slotVars, loopVars,
       NextTask, TypeOK
  <2>5. ShapeAt("finalizing", mode[w], at[w], mem[w], passed[w], blocked[w])
    BY <2>1 DEF BeginFinalize, WorkerShape, ShapeAt, LoopSteps, TaskSteps
  <2>6. ShapeAt("finalizing", mode[w], at[w], new, passed[w], blocked[w])
    BY <2>3, <2>5, SameTasks
  <2> QED
    BY <2>4, <2>6, ShapeMoved
<1>28. ASSUME NEW w \in Workers, EndFinalize(w) PROVE ShapeInv'
  <2>1. EndFinalize(w) /\ WorkerShape(w) /\ mem[w] \in RunRecord
    BY <1>28 DEF ShapeInv, TypeOK
  <2>0. PICK finalized \in BOOLEAN : Save(w, FinishRun(mem[w], passed[w] /\ finalized))
    BY <1>28 DEF EndFinalize
  <2> DEFINE new == FinishRun(mem[w], passed[w] /\ finalized)
  <2>2. mem' = [mem EXCEPT ![w] = new] /\ disk' = [disk EXCEPT ![run[w]] = new]
    BY <1>28, <2>0 DEF EndFinalize, Save
  <2>3. new.task = mem[w].task
    BY <2>1, TasksOfFinished
  <2> HIDE DEF new
  <2>4. MovedTo(w, "release", mode[w], at[w], new, passed[w], blocked[w])
    BY <1>28, <2>2 DEF EndFinalize, MovedTo, OthersShaped, Save, Goto, Leave, slotVars, loopVars,
       NextTask, TypeOK
  <2>5. ShapeAt("release", mode[w], at[w], mem[w], passed[w], blocked[w])
    BY <2>1 DEF EndFinalize, WorkerShape, ShapeAt, LoopSteps, TaskSteps
  <2>6. ShapeAt("release", mode[w], at[w], new, passed[w], blocked[w])
    BY <2>3, <2>5, SameTasks
  <2> QED
    BY <2>4, <2>6, ShapeMoved
<1>29. ASSUME NEW w \in Workers, AppendTask(w) PROVE ShapeInv'
  <2>1. AppendTask(w) /\ WorkerShape(w) /\ mem[w] \in RunRecord
    BY <1>29 DEF ShapeInv, TypeOK
  <2> DEFINE new == AddTask(mem[w], at[w])
  <2>2. mem' = [mem EXCEPT ![w] = new] /\ disk' = [disk EXCEPT ![run[w]] = new]
    BY <1>29 DEF AppendTask, Save
  <2> DEFINE next == IF at[w] = NTasks THEN "dispatch" ELSE "append"
             i == IF at[w] = NTasks THEN 1 ELSE at[w] + 1
  <2>3. /\ at[w] \in Tasks /\ passed[w]
        /\ \A t \in Tasks : mem[w].task[t] = IF t < at[w] THEN "pending" ELSE "absent"
    BY <2>1 DEF AppendTask, WorkerShape, ShapeAt, TypeOK, PastTheEnd
  <2>4. \A t \in Tasks : new.task[t] = IF t = at[w] THEN "pending" ELSE mem[w].task[t]
    BY <2>1, <2>3, TasksOfMutated
  <2> HIDE DEF new
  <2>5. \A t \in Tasks : new.task[t] = IF t < at[w] + 1 THEN "pending" ELSE "absent"
    <3>1. \A t \in Tasks : t < at[w] + 1 <=> t < at[w] \/ t = at[w]
      BY <2>3, NTasksAssumption DEF Tasks
    <3> QED
      BY <2>3, <2>4, <3>1
  <2>6. Linear(new)
    BY <2>5 DEF Linear
  <2>7. MovedTo(w, next, mode[w], i, new, passed[w], blocked[w])
    BY <1>29, <2>2 DEF AppendTask, MovedTo, OthersShaped, Save, Goto, Leave, slotVars, loopVars,
       NextTask, TypeOK
  <2>8. CASE at[w] = NTasks
    <3>1. \A t \in Tasks : t < at[w] + 1
      BY <2>8, NTasksAssumption DEF Tasks
    <3>2. TasksIn(new, "absent") = {}
      BY <2>5, <3>1 DEF TasksIn
    <3>3. ShapeAt("dispatch", mode[w], 1, new, passed[w], blocked[w])
      BY <2>3, <2>6, <3>2 DEF ShapeAt, Shape, LoopSteps, TaskSteps
    <3>4. MovedTo(w, "dispatch", mode[w], 1, new, passed[w], blocked[w])
      BY <2>7, <2>8
    <3> QED
      BY <3>3, <3>4, ShapeMoved
  <2>9. CASE at[w] # NTasks
    <3>1. ShapeAt("append", mode[w], at[w] + 1, new, passed[w], blocked[w])
      BY <2>3, <2>5, <2>6 DEF ShapeAt, Shape, LoopSteps, TaskSteps
    <3>2. MovedTo(w, "append", mode[w], at[w] + 1, new, passed[w], blocked[w])
      BY <2>7, <2>9
    <3> QED
      BY <3>1, <3>2, ShapeMoved
  <2> QED
    BY <2>8, <2>9
<1>30. ASSUME NEW w \in Workers, SetupResume(w) PROVE ShapeInv'
  <2>1. SetupResume(w) /\ WorkerShape(w)
    BY <1>30 DEF ShapeInv
  <2> DEFINE next == IF TasksIn(mem[w], "absent") = {} THEN "dispatch" ELSE "release"
  <2>2. MovedTo(w, next, mode[w], at[w], mem[w], passed[w], blocked[w])
    BY <1>30 DEF SetupResume, MovedTo, OthersShaped, Save, Goto, Leave, slotVars, loopVars,
       NextTask, TypeOK
  <2>3. ShapeAt(next, mode[w], at[w], mem[w], passed[w], blocked[w])
    BY <2>1 DEF SetupResume, WorkerShape, ShapeAt, LoopSteps, TaskSteps
  <2> HIDE DEF next
  <2> QED
    BY <2>2, <2>3, ShapeMoved
<1>31. ASSUME NEW w \in Workers, DispatchTask(w) PROVE ShapeInv'
  <2>1. /\ DispatchTask(w) /\ WorkerShape(w) /\ mem[w] \in RunRecord /\ at[w] \in Tasks
        /\ mode[w] \in {"run", "resume"}
    BY <1>31 DEF DispatchTask, ShapeInv, TypeOK
  <2>2. \A t \in Tasks : t < at[w] => mem[w].task[t] = "passed"
    BY <2>1 DEF DispatchTask, DoneInv, DoneAt
  <2>3. Linear(mem[w])
    <3>1. CASE mode[w] = "run"
      BY <2>1, <3>1 DEF DispatchTask, WorkerShape, ShapeAt
    <3>2. CASE mode[w] = "resume"
      <4> SUFFICES ASSUME NEW k \in Tasks, FailedAt(mem[w], k) PROVE FALSE
        BY <2>1 DEF WorkerShape, ShapeAt, Shape
      <4>1. k < at[w] \/ k = at[w] \/ k > at[w]
        BY <2>1, NTasksAssumption DEF Tasks
      <4>2. mem[w].task[at[w]] \notin {"passed", "failed"}
        BY <2>1, <3>2 DEF DispatchTask, Done, Refused
      <4> QED
        BY <2>1, <2>2, <4>1, <4>2 DEF FailedAt
    <3> QED
      BY <2>1, <3>1, <3>2
  <2>4. \A t \in Tasks : t > at[w] => mem[w].task[t] = "pending"
    <3>1. TasksIn(mem[w], "absent") = {} /\ mem[w].task[at[w]] # "passed"
      BY <2>1 DEF DispatchTask, Done, WorkerShape, ShapeAt, LoopSteps
    <3>2. \A t \in Tasks : t > at[w] => at[w] < t
      BY <2>1, NTasksAssumption DEF Tasks
    <3> QED
      BY <2>1, <2>3, <3>1, <3>2 DEF Linear, TasksIn
  <2>5. MissingDeps(w) = {}
    BY <2>1, <2>2, PlanAssumption DEF MissingDeps, Done
  <2>6. passed[w]
    BY <2>1 DEF DispatchTask, WorkerShape, ShapeAt
  <2>7. CASE MustWait(mem[w], at[w])
    <3> DEFINE new == MarkWaitingForApproval(mem[w], at[w])
    <3>1. mem' = [mem EXCEPT ![w] = new] /\ disk' = [disk EXCEPT ![run[w]] = new]
      BY <2>1, <2>5, <2>7 DEF DispatchTask, Save
    <3>2. \A u \in Tasks : new.task[u] = IF u = at[w] THEN "waiting" ELSE mem[w].task[u]
      BY <2>1, TasksOfMutated
    <3> HIDE DEF new
    <3>3. \A t \in Tasks : t < at[w] \/ t > at[w] => t # at[w]
      BY <2>1, NTasksAssumption DEF Tasks
    <3>4. Linear(new)
      BY <2>1, <2>2, <2>4, <3>2, <3>3, TaskShape
    <3>5. MovedTo(w, "release", mode[w], at[w], new, passed[w], blocked[w])
      BY <2>1, <2>5, <2>7, <3>1 DEF DispatchTask, MovedTo, OthersShaped, Save, Goto, Leave,
         slotVars, loopVars, NextTask, TypeOK
    <3>6. ShapeAt("release", mode[w], at[w], new, passed[w], blocked[w])
      BY <3>4 DEF ShapeAt, Shape, LoopSteps, TaskSteps
    <3> QED
      BY <3>5, <3>6, ShapeMoved
  <2>8. CASE ~MustWait(mem[w], at[w])
    <3>1. PICK label \in {"code", "check"} :
            MovedTo(w, label, mode[w], at[w], mem[w], passed[w], blocked[w])
      BY <2>1, <2>5, <2>8 DEF DispatchTask, MovedTo, OthersShaped, Save, Goto, Leave, slotVars,
         loopVars, NextTask, TypeOK
    <3>2. ShapeAt(label, mode[w], at[w], mem[w], passed[w], blocked[w])
      BY <2>1, <2>4 DEF DispatchTask, WorkerShape, ShapeAt, LoopSteps, TaskSteps
    <3> QED
      BY <3>1, <3>2, ShapeMoved
  <2> QED
    BY <2>7, <2>8
<1>32. ASSUME NEW w \in Workers, MarkNext(w) PROVE ShapeInv'
  <2>1. MarkNext(w) /\ WorkerShape(w) /\ mem[w] \in RunRecord
    BY <1>32 DEF ShapeInv, TypeOK
  <2>2. PICK t \in Unmarked(w) : (\A u \in Unmarked(w) : t <= u) /\ MarkTask(w, t)
    BY <2>1 DEF MarkNext
  <2>3. Marked(mem[w], at[w], blocked[w]) /\ passed[w] /\ TasksIn(mem[w], "absent") = {}
    BY <2>1 DEF MarkNext, WorkerShape, ShapeAt, LoopSteps
  <2>4. /\ t \in Tasks /\ mem[w].task[t] = "pending" /\ t > at[w] /\ at[w] \in Tasks
        /\ \A u \in Tasks : u < t => mem[w].task[u] # "pending"
    <3>1. t \in Tasks /\ mem[w].task[t] = "pending" /\ at[w] \in Tasks
      BY <2>3 DEF Unmarked, TasksIn, Marked, FailedAt
    <3>2. ~(t < at[w]) /\ t # at[w]
      BY <2>3, <3>1 DEF Marked, FailedAt
    <3>3. t > at[w]
      BY <3>1, <3>2, NTasksAssumption DEF Tasks
    <3>4. Unmarked(w) = TasksIn(mem[w], "pending")
      BY <2>3 DEF Marked, FailedAt, Unmarked, TasksIn
    <3>5. \A u \in Tasks : u < t => ~(t <= u)
      BY <3>1, NTasksAssumption DEF Tasks
    <3> QED
      BY <2>2, <3>1, <3>3, <3>4, <3>5 DEF TasksIn
  <2>5. DependsOnBlocked(w, t) <=> at[w] \in Upstream[t]
    <3>1. \A d \in Deps[t] : d \in Tasks /\ d < t /\ mem[w].task[d] # "pending"
      BY <2>4, PlanAssumption
    <3>2. ASSUME NEW d \in Deps[t] PROVE d \in blocked[w] <=> d = at[w] \/ at[w] \in Upstream[d]
      <4>1. d < at[w] \/ d = at[w] \/ d > at[w]
        BY <2>4, <3>1, NTasksAssumption DEF Tasks
      <4>2. CASE d < at[w]
        <5>1. mem[w].task[d] = "passed"
          BY <2>3, <3>1, <4>2 DEF Marked, FailedAt
        <5>2. d # at[w] /\ d \notin blocked[w]
          BY <2>3, <2>4, <3>1, <4>2, <5>1, NTasksAssumption DEF Marked, TasksIn, Tasks
        <5>3. at[w] \notin Upstream[d]
          <6>1. ~(at[w] < d)
            BY <2>4, <3>1, <4>2, NTasksAssumption DEF Tasks
          <6> QED
            BY <3>1, <6>1, UpstreamBefore
        <5> QED
          BY <5>2, <5>3
      <4>3. CASE d = at[w]
        BY <2>3, <4>3 DEF Marked
      <4>4. CASE d > at[w]
        <5>1. mem[w].task[d] = "blocked" <=> at[w] \in Upstream[d]
          BY <2>3, <3>1, <4>4 DEF Marked
        <5>2. d # at[w]
          BY <2>4, <3>1, <4>4, NTasksAssumption DEF Tasks
        <5>3. d \in blocked[w] <=> mem[w].task[d] = "blocked"
          BY <2>3, <3>1, <5>2 DEF Marked, TasksIn
        <5> QED
          BY <5>1, <5>2, <5>3
      <4> QED
        BY <4>1, <4>2, <4>3, <4>4
    <3>3. at[w] \in Upstream[t] <=> at[w] \in Deps[t] \/ \E d \in Deps[t] : at[w] \in Upstream[d]
      BY <2>4, UpstreamEquation
    <3> QED
      BY <3>2, <3>3 DEF DependsOnBlocked
  <2>6. PICK s \in {"blocked", "skipped"} :
          /\ Save(w, MarkUnreached(mem[w], t, s))
          /\ s = "blocked" <=> at[w] \in Upstream[t]
          /\ blocked' = IF s = "blocked" THEN [blocked EXCEPT ![w] = blocked[w] \cup {t}]
                                        ELSE blocked
    <3>1. CASE DependsOnBlocked(w, t)
      BY <2>2, <2>5, <3>1 DEF MarkTask
    <3>2. CASE ~DependsOnBlocked(w, t)
      BY <2>2, <2>5, <3>2 DEF MarkTask
    <3> QED
      BY <3>1, <3>2
  <2> DEFINE new == MarkUnreached(mem[w], t, s)
             b == IF s = "blocked" THEN blocked[w] \cup {t} ELSE blocked[w]
  <2>7. mem' = [mem EXCEPT ![w] = new] /\ disk' = [disk EXCEPT ![run[w]] = new]
    BY <2>6 DEF Save
  <2>8. \A u \in Tasks : new.task[u] = IF u = t THEN s ELSE mem[w].task[u]
    BY <2>1, <2>4, TasksOfMutated
  <2> HIDE DEF new
  <2>9. MovedTo(w, "mark", mode[w], at[w], new, passed[w], b)
    BY <2>1, <2>6, <2>7 DEF MarkNext, MovedTo, OthersShaped, Save, Goto, Leave, slotVars, loopVars,
       NextTask, TypeOK
  <2>10. FailedAt(new, at[w])
    <3>1. t # at[w] /\ ~(t < at[w])
      BY <2>4, NTasksAssumption DEF Tasks
    <3> QED
      BY <2>3, <2>4, <2>8, <3>1 DEF Marked, FailedAt
  <2>11. b = {at[w]} \cup TasksIn(new, "blocked")
    <3>1. TasksIn(new, "blocked") = IF s = "blocked" THEN TasksIn(mem[w], "blocked") \cup {t}
                                                    ELSE TasksIn(mem[w], "blocked")
      BY <2>4, <2>8 DEF TasksIn
    <3> QED
      BY <2>3, <3>1 DEF Marked
  <2>12. \A u \in Tasks : u > at[w] /\ new.task[u] # "pending"
                             => (new.task[u] = "blocked" <=> at[w] \in Upstream[u])
    BY <2>3, <2>6, <2>8 DEF Marked
  <2>13. \A u, v \in Tasks : at[w] < u /\ u < v /\ new.task[u] = "pending"
                                => new.task[v] = "pending"
    <3> SUFFICES ASSUME NEW u \in Tasks, NEW v \in Tasks, at[w] < u, u < v,
                        new.task[u] = "pending"
                 PROVE  new.task[v] = "pending"
      OBVIOUS
    <3>1. u # t /\ mem[w].task[u] = "pending"
      BY <2>8
    <3>2. mem[w].task[v] = "pending"
      BY <2>3, <3>1 DEF Marked
    <3>3. ~(u < t)
      BY <2>4, <3>1
    <3>4. v # t
      BY <2>4, <3>3, NTasksAssumption DEF Tasks
    <3> QED
      BY <2>8, <3>2, <3>4
  <2>14. Marked(new, at[w], b)
    BY <2>10, <2>11, <2>12, <2>13 DEF Marked
  <2>15. TasksIn(new, "absent") = {}
    BY <2>3, <2>8 DEF TasksIn
  <2>16. Shape(new)
    BY <2>4, <2>10 DEF Shape
  <2> HIDE DEF b
  <2>17. ShapeAt("mark", mode[w], at[w], new, passed[w], b)
    BY <2>3, <2>14, <2>15, <2>16 DEF ShapeAt, TaskSteps
  <2> QED
    BY <2>9, <2>17, ShapeMoved
<1>33. ASSUME NEW w \in Workers, SaveApproval(w) PROVE ShapeInv'
  <2>1. /\ SaveApproval(w) /\ WorkerShape(w) /\ mem[w] \in RunRecord /\ at[w] \in Tasks
        /\ run[w] \in Runs
    BY <1>33 DEF SaveApproval, ShapeInv, TypeOK, PastTheEnd
  <2> DEFINE new == ApproveTask(mem[w], at[w])
  <2>2. \A u \in Tasks : new.task[u] = IF u = at[w] THEN "pending" ELSE mem[w].task[u]
    BY <2>1, TasksOfMutated
  <2>3. \A r \in Runs : disk'[r] = IF r = run[w] THEN new ELSE disk[r]
    BY <2>1 DEF SaveApproval, TypeOK
  <2> HIDE DEF new
  <2>4. mem[w].task[at[w]] = "waiting" /\ Shape(mem[w])
    BY <2>1 DEF SaveApproval, WorkerShape, ShapeAt
  <2>5. Linear(mem[w])
    <3> SUFFICES ASSUME NEW k \in Tasks, FailedAt(mem[w], k) PROVE FALSE
      BY <2>4 DEF Shape
    <3>1. at[w] < k \/ at[w] = k \/ at[w] > k
      BY <2>1, NTasksAssumption DEF Tasks
    <3> QED
      BY <2>1, <2>4, <3>1 DEF FailedAt
  <2>6. Linear(new)
    <3> SUFFICES ASSUME NEW t \in Tasks, NEW u \in Tasks, t < u, new.task[t] # "passed"
                 PROVE  new.task[u] \in {"pending", "absent"}
      BY DEF Linear
    <3>1. mem[w].task[t] # "passed"
      BY <2>2, <2>4
    <3> QED
      BY <2>2, <2>5, <3>1 DEF Linear
  <2>7. \A r \in Runs : Shape(disk'[r])
    BY <2>3, <2>6 DEF ShapeInv, Shape
  <2> QED
    BY <2>1, <2>7, ShapeLeft DEF SaveApproval
<1>34. ASSUME NEW w \in Workers, ReleaseLease(w) PROVE ShapeInv'
  <2>1. Forget(w) /\ disk' = disk
    BY <1>34 DEF ReleaseLease
  <2> QED
    BY <2>1, ShapeLeft DEF ShapeInv
<1>35. ASSUME NEW w \in Workers, SlotTaken(w) PROVE ShapeInv'
  <2>1. Forget(w) /\ disk' = disk
    BY <1>35 DEF SlotTaken
  <2> QED
    BY <2>1, ShapeLeft DEF ShapeInv
<1>36. ASSUME NEW w \in Workers, Fault(w) PROVE ShapeInv'
  <2>1. Forget(w) /\ disk' = disk
    BY <1>36 DEF Fault, Interrupt, Kill
  <2> QED
    BY <2>1, ShapeLeft DEF ShapeInv
<1>37. ASSUME NEW w \in Workers, NEW r \in Runs, StartRun(w, r) PROVE ShapeInv'
  <2>1. StartRun(w, r) /\ WorkerShape(w)
    BY <1>37 DEF ShapeInv
  <2>2. MovedTo(w, "create", mode[w], at[w], mem[w], passed[w], blocked[w])
    BY <2>1 DEF StartRun, MovedTo, OthersShaped, Save, Goto, Leave, slotVars, loopVars, NextTask,
       TypeOK
  <2>3. ShapeAt("create", mode[w], at[w], mem[w], passed[w], blocked[w])
    BY <2>1 DEF StartRun, WorkerShape, ShapeAt, LoopSteps, TaskSteps
  <2> QED
    BY <2>2, <2>3, ShapeMoved
<1>38. ASSUME NEW w \in Workers, NEW r \in Runs, LoadForResume(w, r) PROVE ShapeInv'
  <2>1. LoadForResume(w, r) /\ WorkerShape(w) /\ Shape(disk[r])
    BY <1>38 DEF ShapeInv
  <2>2. MovedTo(w, "resume", "resume", at[w], disk[r], passed[w], blocked[w])
    BY <2>1 DEF LoadForResume, MovedTo, OthersShaped, Save, Goto, Leave, slotVars, loopVars,
       NextTask, TypeOK
  <2>3. ShapeAt("resume", "resume", at[w], disk[r], passed[w], blocked[w])
    BY <2>1 DEF LoadForResume, WorkerShape, ShapeAt, LoopSteps, TaskSteps
  <2> QED
    BY <2>2, <2>3, ShapeMoved
<1>39. ASSUME NEW w \in Workers, NEW r \in Runs, NEW t \in Tasks,
            LoadForApproval(w, r, t) PROVE ShapeInv'
  <2>1. LoadForApproval(w, r, t) /\ WorkerShape(w) /\ Shape(disk[r])
    BY <1>39 DEF ShapeInv
  <2>2. MovedTo(w, "approve", mode[w], t, disk[r], passed[w], blocked[w])
    BY <2>1 DEF LoadForApproval, MovedTo, OthersShaped, Save, Goto, Leave, slotVars, loopVars,
       NextTask, TypeOK
  <2>3. ShapeAt("approve", mode[w], t, disk[r], passed[w], blocked[w])
    BY <2>1 DEF LoadForApproval, WorkerShape, ShapeAt, LoopSteps, TaskSteps
  <2> QED
    BY <2>2, <2>3, ShapeMoved
<1>40. ASSUME User PROVE ShapeInv'
  BY <1>40 DEF User, UserCleansTree, UserSwitchesTo, runVars, ShapeInv, WorkerShape
<1> QED
  BY <1>u, <1>1, <1>2, <1>3, <1>4, <1>5, <1>6, <1>7, <1>8, <1>9, <1>10, <1>11, <1>12, <1>13, <1>14,
     <1>15, <1>16, <1>17, <1>18, <1>19, <1>20, <1>21, <1>22, <1>23, <1>24, <1>25, <1>26, <1>27,
     <1>28, <1>29, <1>30, <1>31, <1>32, <1>33, <1>34, <1>35, <1>36, <1>37, <1>38, <1>39, <1>40
     DEF Next, Step, Call

LEMMA ShapeInvariant == Spec => []ShapeInv
<1>1. Init => ShapeInv
  <2> SUFFICES ASSUME Init PROVE ShapeInv
    OBVIOUS
  <2>1. ShapeAt("idle", "run", 1, NoRecord, TRUE, {})
    BY BlankShape DEF ShapeAt, LoopSteps, TaskSteps
  <2> QED
    BY <2>1, BlankShape DEF Init, ShapeInv, WorkerShape
<1>2. TaskInv => DoneInv
  BY DEF TaskInv
<1> QED
  BY <1>1, <1>2, TypeCorrect, TaskInvariant, ShapeStep, PTL DEF Spec

(* Whatever was interrupted, overwritten and resumed: when a plan ends in  *)
(* failure every unreached task is BLOCKED or SKIPPED, for the right       *)
(* reason (_mark_remaining_after_failure, finalize_plan_run).              *)
THEOREM FailureExplained == Spec => []UnreachedExplained
<1>1. TypeOK /\ ShapeInv => UnreachedExplained
  <2> SUFFICES ASSUME TypeOK, ShapeInv, NEW w \in Workers, pc[w] \in {"finalize", "finalizing"},
                      ~passed[w], NEW t \in Tasks \ {at[w]}
               PROVE  /\ mem[w].task[t] \in {"passed", "blocked", "skipped"}
                      /\ mem[w].task[t] = "blocked" <=> at[w] \in Upstream[t]
    BY DEF UnreachedExplained
  <2>1. Marked(mem[w], at[w], blocked[w]) /\ TasksIn(mem[w], "pending") = {}
    BY DEF ShapeInv, WorkerShape, ShapeAt
  <2>2. at[w] \in Tasks /\ FailedAt(mem[w], at[w])
    BY <2>1 DEF Marked, FailedAt
  <2>3. CASE t < at[w]
    <3>1. mem[w].task[t] = "passed"
      BY <2>2, <2>3 DEF FailedAt
    <3>2. ~(at[w] < t)
      BY <2>2, <2>3, NTasksAssumption DEF Tasks
    <3> QED
      BY <3>1, <3>2, UpstreamBefore
  <2>4. CASE t > at[w]
    <3>1. mem[w].task[t] \in {"blocked", "skipped"}
      BY <2>1, <2>2, <2>4 DEF FailedAt, TasksIn
    <3> QED
      BY <2>1, <2>4, <3>1 DEF Marked
  <2> QED
    BY <2>2, <2>3, <2>4, NTasksAssumption DEF Tasks
<1> QED
  BY <1>1, TypeCorrect, ShapeInvariant, PTL

-----------------------------------------------------------------------------
(* Work committed task by task, in behaviours without faults in which no   *)
(* call begins before the last one has returned.  Without either premise   *)
(* the properties fail: a worker killed between its last save and its      *)
(* commit, and one that resumes a copy of a record that has moved on.      *)

Undisturbed ==
  /\ faults = 0
  /\ \A v, w \in Workers : pc[v] # "idle" /\ pc[w] # "idle" => v = w

(* A run that has no agent branch yet.                                     *)
Unstarted(r) == disk[r].status = "none" \/ \E w \in Workers : run[w] = r /\ pc[w] = "branch"

(* The branch that it may create is nobody's.                              *)
FreshInv == \A r \in Runs : Unstarted(r) => head # r /\ \A q \in Runs : disk[q].branch # r

(* A worker works on the record that is on disk.                           *)
SyncAt(label, i, m, d) ==
  /\ label = "create" => d.status = "none"
  /\ label \notin {"idle", "create", "bind"} => m = d
  /\ label \notin {"idle", "create", "approve"} => m.status # "none"
  /\ label \in {"check", "checking", "checked"} => Kind[i] \notin AutoExecutableKinds

SyncInv == \A w \in Workers : pc[w] # "idle" => SyncAt(pc[w], at[w], mem[w], disk[run[w]])

(* What passed in record m of run r is committed in the branches b, or is  *)
(* the task i under review.                                                *)
CommittedAt(r, m, label, i, b) ==
  \A t \in Tasks : m.task[t] = "passed" =>
    /\ m.branch \in Branches
    /\ Kind[t] \in AutoExecutableKinds =>
         <<r, t>> \in b[m.branch] \/ (label \in {"review", "commit"} /\ i = t)

CommittedInv ==
  /\ \A r \in Runs : (\A w \in Workers : run[w] # r) => CommittedAt(r, disk[r], "idle", 1, log)
  /\ \A w \in Workers : pc[w] # "idle" => CommittedAt(run[w], disk[run[w]], pc[w], at[w], log)

SerialInv == FreshInv /\ SyncInv /\ CommittedInv

LEMMA OthersIdle ==
  ASSUME Undisturbed, NEW w \in Workers, pc[w] # "idle"
  PROVE  \A v \in Workers \ {w} : pc[v] = "idle"
BY DEF Undisturbed

LEMMA MutatorsKeepStatus ==
  ASSUME NEW m \in RunRecord, NEW t \in Tasks
  PROVE  /\ AddTask(m, t).status = m.status
         /\ MarkWaitingForApproval(m, t).status = "waiting"
         /\ ApproveTask(m, t).status = "pending"
         /\ \A s : MarkUnreached(m, t, s).status = "failed"
         /\ \A s : UpdateTask(m, t, s).status # "none"
BY DEF AddTask, MarkWaitingForApproval, ApproveTask, MarkUnreached, UpdateTask, RunRecord

LEMMA BranchOfFinished ==
  ASSUME NEW m \in RunRecord
  PROVE  /\ \A ok : FinishRun(m, ok).branch = m.branch
         /\ [m EXCEPT !.status = "running"].branch = m.branch
BY DEF FinishRun, RunRecord

LEMMA StatusOfFinished ==
  ASSUME NEW m \in RunRecord
  PROVE  /\ \A ok : FinishRun(m, ok).status # "none"
         /\ [m EXCEPT !.status = "running"].status = "running"
BY DEF FinishRun, RunRecord

(* The only worker that is called moves on with m on disk and in memory.   *)
SerialMoved(w, label, i, m) ==
  /\ OthersKept(w)
  /\ pc'[w] = label /\ run'[w] = run[w] /\ at'[w] = i /\ mem'[w] = m
  /\ \A r \in Runs : disk'[r] = IF r = run[w] THEN m ELSE disk[r]

GrowingLog == \A b \in Branches : log[b] \subseteq log'[b]

LEMMA SerialKeeps ==
  ASSUME TypeOK, Undisturbed, SerialInv, NEW w \in Workers, pc[w] # "idle",
         NEW label, NEW i, NEW m, SerialMoved(w, label, i, m),
         label \notin {"idle", "create", "branch", "bind"},
         label \in {"check", "checking", "checked"} => Kind[i] \notin AutoExecutableKinds,
         m.status # "none", m.branch \in {disk[run[w]].branch, head},
         CommittedAt(run[w], m, label, i, log'), head' = head, GrowingLog
  PROVE  SerialInv'
<1>1. /\ run[w] \in Runs
      /\ \A v \in Workers \ {w} : pc[v] = "idle" /\ pc'[v] = "idle" /\ run'[v] = None
  BY OthersIdle DEF TypeOK, SerialMoved, OthersKept
<1>2. FreshInv'
  <2> SUFFICES ASSUME NEW r \in Runs, Unstarted(r)'
               PROVE  head' # r /\ \A q \in Runs : disk'[q].branch # r
    BY DEF FreshInv
  <2>1. r # run[w] /\ disk[r].status = "none"
    BY <1>1 DEF SerialMoved, Unstarted
  <2>2. head # r /\ \A q \in Runs : disk[q].branch # r
    BY <2>1 DEF SerialInv, FreshInv, Unstarted
  <2> QED
    BY <1>1, <2>2 DEF SerialMoved
<1>3. SyncInv'
  BY <1>1 DEF SerialMoved, SyncInv, SyncAt
<1>4. CommittedInv'
  <2>1. ASSUME NEW r \in Runs, \A v \in Workers : run'[v] # r
        PROVE  CommittedAt(r, disk'[r], "idle", 1, log')
    <3>1. r # run[w] /\ disk'[r] = disk[r] /\ \A v \in Workers : run[v] # r
      BY <2>1, <1>1, NamesAssumption DEF SerialMoved, TypeOK
    <3>2. CommittedAt(r, disk[r], "idle", 1, log)
      BY <3>1 DEF SerialInv, CommittedInv
    <3> QED
      BY <3>1, <3>2 DEF CommittedAt, GrowingLog
  <2>2. ASSUME NEW v \in Workers, pc'[v] # "idle"
        PROVE  CommittedAt(run'[v], disk'[run'[v]], pc'[v], at'[v], log')
    BY <1>1, <2>2 DEF SerialMoved
  <2>3. \A r, m1, l, i1 : CommittedAt(r, m1, l, i1, log)' <=> CommittedAt(r, m1', l, i1', log')
    BY DEF CommittedAt
  <2> QED
    BY <2>1, <2>2 DEF CommittedInv, CommittedAt
<1> QED
  BY <1>2, <1>3, <1>4 DEF SerialInv

(* A step that passes no task and is not the end of a review.              *)
LEMMA CommittedKept ==
  ASSUME TypeOK, SerialInv, NEW w \in Workers,
         pc[w] \notin {"idle", "create", "bind", "review", "commit"},
         NEW label, NEW i, NEW m, m.branch = mem[w].branch,
         \A t \in Tasks : m.task[t] = "passed" => mem[w].task[t] = "passed", GrowingLog
  PROVE  CommittedAt(run[w], m, label, i, log') /\ m.branch = disk[run[w]].branch
<1>1. CommittedAt(run[w], mem[w], pc[w], at[w], log) /\ mem[w] = disk[run[w]]
  BY DEF SerialInv, CommittedInv, SyncInv, SyncAt
<1> QED
  BY <1>1 DEF CommittedAt, GrowingLog

(* A step of a call that leaves its record as it is.                       *)
LEMMA PlainKeeps ==
  ASSUME TypeOK, Undisturbed, SerialInv, NEW w \in Workers,
         pc[w] \notin {"idle", "create", "bind", "review", "commit", "approve"},
         NEW label,
         label \notin {"idle", "create", "branch", "bind", "check", "checking", "checked"},
         NEW i, OthersKept(w), pc'[w] = label, at'[w] = i, run'[w] = run[w],
         mem'[w] = mem[w], disk' = disk, head' = head, GrowingLog
  PROVE  SerialInv'
<1>1. mem[w] = disk[run[w]] /\ mem[w].status # "none" /\ run[w] \in Runs
  BY DEF SerialInv, SyncInv, SyncAt, TypeOK
<1>2. SerialMoved(w, label, i, mem[w])
  BY <1>1 DEF SerialMoved
<1>3. CommittedAt(run[w], mem[w], label, i, log')
  BY CommittedKept
<1> QED
  BY <1>1, <1>2, <1>3, SerialKeeps

(* The call is over, with m as the last it saved.                          *)
LEMMA SerialLeft ==
  ASSUME TypeOK, Undisturbed, SerialInv, NEW w \in Workers,
         pc[w] \in {"release", "resume", "approve"},
         Forget(w), UNCHANGED gitVars, NEW m, m.status # "none",
         m.branch = disk[run[w]].branch,
         \A t \in Tasks : m.task[t] = "passed" => disk[run[w]].task[t] = "passed",
         \A r \in Runs : disk'[r] = IF r = run[w] THEN m ELSE disk[r]
  PROVE  SerialInv'
<1>1. /\ run[w] \in Runs
      /\ \A v \in Workers : pc'[v] = "idle" /\ run'[v] = None
      /\ \A v \in Workers \ {w} : run[v] = None
  <2>1. \A v \in Workers \ {w} : pc[v] = "idle" /\ run[v] = None
    BY OthersIdle DEF TypeOK
  <2> QED
    BY <2>1 DEF TypeOK, Forget
<1>2. FreshInv'
  <2> SUFFICES ASSUME NEW r \in Runs, Unstarted(r)'
               PROVE  head' # r /\ \A q \in Runs : disk'[q].branch # r
    BY DEF FreshInv
  <2>1. r # run[w] /\ disk[r].status = "none"
    BY <1>1 DEF Unstarted
  <2>2. head # r /\ \A q \in Runs : disk[q].branch # r
    BY <2>1 DEF SerialInv, FreshInv, Unstarted
  <2> QED
    BY <1>1, <2>2 DEF gitVars
<1>3. SyncInv'
  BY <1>1 DEF SyncInv
<1>4. ASSUME NEW r \in Runs PROVE CommittedAt(r, disk'[r], "idle", 1, log')
  <2>1. CASE r = run[w]
    <3>1. CommittedAt(r, disk[r], pc[w], at[w], log)
      BY <2>1 DEF SerialInv, CommittedInv
    <3> QED
      BY <2>1, <3>1 DEF CommittedAt, gitVars
  <2>2. CASE r # run[w]
    <3>1. \A v \in Workers : run[v] # r
      BY <1>1, <2>2, NamesAssumption
    <3>2. CommittedAt(r, disk[r], "idle", 1, log)
      BY <3>1 DEF SerialInv, CommittedInv
    <3> QED
      BY <2>2, <3>2 DEF CommittedAt, gitVars
  <2> QED
    BY <2>1, <2>2
<1>5. CommittedInv'
  BY <1>1, <1>4 DEF CommittedInv, CommittedAt
<1> QED
  BY <1>2, <1>3, <1>5 DEF SerialInv

(* A call begins: w takes m into memory for run r.                         *)
LEMMA SerialCalled ==
  ASSUME TypeOK, Undisturbed', SerialInv, NEW w \in Workers, pc[w] = "idle",
         NEW r \in Runs, NEW label \in {"create", "resume", "approve"},
         OthersKept(w), pc'[w] = label, run'[w] = r, UNCHANGED <<disk, gitVars>>,
         SyncAt(label, at'[w], mem'[w], disk[r])
  PROVE  SerialInv'
<1>1. \A v \in Workers \ {w} : pc[v] = "idle" /\ pc'[v] = "idle" /\ run[v] = None /\ run'[v] = None
  BY DEF Undisturbed, OthersKept, TypeOK
<1>2. \A v \in Workers : run[v] = None
  BY <1>1 DEF TypeOK
<1>3. FreshInv'
  BY <1>1 DEF SerialInv, FreshInv, Unstarted, gitVars
<1>4. SyncInv'
  BY <1>1 DEF SyncInv
<1>5. ASSUME NEW q \in Runs PROVE CommittedAt(q, disk[q], "idle", 1, log)
  BY <1>2, NamesAssumption DEF SerialInv, CommittedInv
<1>6. CommittedInv'
  <2>1. \A q \in Runs : \A l, i : CommittedAt(q, disk[q], l, i, log)
    BY <1>5 DEF CommittedAt
  <2>2. \A v \in Workers : pc'[v] # "idle" => run'[v] \in Runs
    BY <1>1
  <2> QED
    BY <2>1, <2>2 DEF CommittedInv, CommittedAt, gitVars
<1> QED
  BY <1>3, <1>4, <1>6 DEF SerialInv

-----------------------------------------------------------------------------
(* Every step keeps it: one step per action.                               *)

LEMMA SerialStep ==
  ASSUME TypeOK, BranchInv, TaskInv, ShapeInv, SerialInv, Undisturbed, Undisturbed', [Next]_vars
  PROVE  SerialInv'
<1>u. ASSUME UNCHANGED vars PROVE SerialInv'
  BY <1>u DEF SerialInv, FreshInv, Unstarted, SyncInv, SyncAt, CommittedInv, CommittedAt, vars,
     runVars,
     gitVars
<1>1. ASSUME NEW w \in Workers, RefuseDirtyTree(w) PROVE SerialInv'
  <2>1. /\ OthersKept(w) /\ pc'[w] = "release" /\ at'[w] = at[w] /\ run'[w] = run[w]
        /\ mem'[w] = mem[w] /\ disk' = disk /\ head' = head /\ GrowingLog
    BY <1>1 DEF RefuseDirtyTree, OthersKept, GrowingLog, Save, Goto, Leave, slotVars, loopVars,
       NextTask, TypeOK, gitVars
  <2> QED
    BY <1>1, <2>1, PlainKeeps DEF RefuseDirtyTree
<1>2. ASSUME NEW w \in Workers, AcquireForResume(w) PROVE SerialInv'
  <2>1. /\ OthersKept(w) /\ pc'[w] = "setup" /\ at'[w] = at[w] /\ run'[w] = run[w]
        /\ mem'[w] = mem[w] /\ disk' = disk /\ head' = head /\ GrowingLog
    BY <1>2 DEF AcquireForResume, OthersKept, GrowingLog, Save, Goto, Leave, slotVars, loopVars,
       NextTask, TypeOK, gitVars
  <2> QED
    BY <1>2, <2>1, PlainKeeps DEF AcquireForResume
<1>3. ASSUME NEW w \in Workers, RefuseResume(w) PROVE SerialInv'
  <2>1. /\ OthersKept(w) /\ pc'[w] = "release" /\ at'[w] = at[w] /\ run'[w] = run[w]
        /\ mem'[w] = mem[w] /\ disk' = disk /\ head' = head /\ GrowingLog
    BY <1>3 DEF RefuseResume, OthersKept, GrowingLog, Save, Goto, Leave, slotVars, loopVars,
       NextTask, TypeOK, gitVars
  <2> QED
    BY <1>3, <2>1, PlainKeeps DEF RefuseResume
<1>4. ASSUME NEW w \in Workers, EndOfPlan(w) PROVE SerialInv'
  <2>1. /\ OthersKept(w) /\ pc'[w] = "finalize" /\ at'[w] = at[w] /\ run'[w] = run[w]
        /\ mem'[w] = mem[w] /\ disk' = disk /\ head' = head /\ GrowingLog
    BY <1>4 DEF EndOfPlan, OthersKept, GrowingLog, Save, Goto, Leave, slotVars, loopVars, NextTask,
       TypeOK, gitVars
  <2> QED
    BY <1>4, <2>1, PlainKeeps DEF EndOfPlan
<1>5. ASSUME NEW w \in Workers, RefuseFinishedTask(w) PROVE SerialInv'
  <2>1. /\ OthersKept(w) /\ pc'[w] = "release" /\ at'[w] = at[w] /\ run'[w] = run[w]
        /\ mem'[w] = mem[w] /\ disk' = disk /\ head' = head /\ GrowingLog
    BY <1>5 DEF RefuseFinishedTask, OthersKept, GrowingLog, Save, Goto, Leave, slotVars, loopVars,
       NextTask, TypeOK, gitVars
  <2> QED
    BY <1>5, <2>1, PlainKeeps DEF RefuseFinishedTask
<1>6. ASSUME NEW w \in Workers, SkipPassed(w) PROVE SerialInv'
  <2>1. /\ OthersKept(w) /\ pc'[w] = "dispatch" /\ at'[w] = at[w] + 1 /\ run'[w] = run[w]
        /\ mem'[w] = mem[w] /\ disk' = disk /\ head' = head /\ GrowingLog
    BY <1>6 DEF SkipPassed, OthersKept, GrowingLog, Save, Goto, Leave, slotVars, loopVars, NextTask,
       TypeOK, gitVars
  <2> QED
    BY <1>6, <2>1, PlainKeeps DEF SkipPassed
<1>7. ASSUME NEW w \in Workers, EditTree(w) PROVE SerialInv'
  <2>1. /\ OthersKept(w) /\ pc'[w] = "verify" /\ at'[w] = at[w] /\ run'[w] = run[w]
        /\ mem'[w] = mem[w] /\ disk' = disk /\ head' = head /\ GrowingLog
    BY <1>7 DEF EditTree, OthersKept, GrowingLog, WriteTree, Save, Goto, Leave, slotVars, loopVars,
       NextTask, TypeOK, gitVars
  <2> QED
    BY <1>7, <2>1, PlainKeeps DEF EditTree
<1>8. ASSUME NEW w \in Workers, RejectAttempts(w) PROVE SerialInv'
  <2>1. /\ OthersKept(w) /\ pc'[w] = "rejected" /\ at'[w] = at[w] /\ run'[w] = run[w]
        /\ mem'[w] = mem[w] /\ disk' = disk /\ head' = head /\ GrowingLog
    BY <1>8 DEF RejectAttempts, OthersKept, GrowingLog, Rollback, Save, Goto, Leave, slotVars,
       loopVars, NextTask, TypeOK, gitVars
  <2> QED
    BY <1>8, <2>1, PlainKeeps DEF RejectAttempts
<1>9. ASSUME NEW w \in Workers, UndoAndRaise(w) PROVE SerialInv'
  <2>1. /\ OthersKept(w) /\ pc'[w] = "release" /\ at'[w] = at[w] /\ run'[w] = run[w]
        /\ mem'[w] = mem[w] /\ disk' = disk /\ head' = head /\ GrowingLog
    BY <1>9 DEF UndoAndRaise, OthersKept, GrowingLog, Rollback, Save, Goto, Leave, slotVars,
       loopVars, NextTask, TypeOK, gitVars
  <2> QED
    BY <1>9, <2>1, PlainKeeps DEF UndoAndRaise
<1>10. ASSUME NEW w \in Workers, UndoTask(w) PROVE SerialInv'
  <2>1. /\ OthersKept(w) /\ pc'[w] = "mark" /\ at'[w] = at[w] /\ run'[w] = run[w]
        /\ mem'[w] = mem[w] /\ disk' = disk /\ head' = head /\ GrowingLog
    BY <1>10 DEF UndoTask, OthersKept, GrowingLog, Rollback, Save, Goto, Leave, slotVars, loopVars,
       NextTask, TypeOK, gitVars
  <2> QED
    BY <1>10, <2>1, PlainKeeps DEF UndoTask
<1>11. ASSUME NEW w \in Workers, MarkDone(w) PROVE SerialInv'
  <2>1. /\ OthersKept(w) /\ pc'[w] = "finalize" /\ at'[w] = at[w] /\ run'[w] = run[w]
        /\ mem'[w] = mem[w] /\ disk' = disk /\ head' = head /\ GrowingLog
    BY <1>11 DEF MarkDone, OthersKept, GrowingLog, Save, Goto, Leave, slotVars, loopVars, NextTask,
       TypeOK, gitVars
  <2> QED
    BY <1>11, <2>1, PlainKeeps DEF MarkDone
<1>12. ASSUME NEW w \in Workers, StartCode(w) PROVE SerialInv'
  <2>1. /\ pc[w] \in TaskSteps /\ SetTask(w, "running") /\ at[w] \in Tasks
        /\ mem[w] \in RunRecord /\ run[w] \in Runs /\ UNCHANGED gitVars
    BY <1>12 DEF StartCode, TaskSteps, TypeOK, PastTheEnd
  <2> DEFINE new == UpdateTask(mem[w], at[w], "running")
  <2>2. /\ \A u \in Tasks : new.task[u] = IF u = at[w] THEN "running" ELSE mem[w].task[u]
        /\ new.branch = mem[w].branch /\ new.status # "none"
    BY <2>1, TasksOfMutated, MutatorsKeepBranch, MutatorsKeepStatus
  <2>3. mem' = [mem EXCEPT ![w] = new] /\ disk' = [disk EXCEPT ![run[w]] = new]
    BY <2>1 DEF SetTask, Save
  <2> HIDE DEF new
  <2>4. SerialMoved(w, "edit", at[w], new) /\ head' = head /\ GrowingLog
    BY <1>12, <2>1, <2>3 DEF StartCode, SerialMoved, OthersKept, GrowingLog, Save, Goto, Leave,
       slotVars, loopVars, NextTask, TypeOK, gitVars
  <2>5. CommittedAt(run[w], new, "edit", at[w], log') /\ new.branch = disk[run[w]].branch
    BY <1>12, <2>2, <2>4, CommittedKept DEF StartCode
  <2> QED
    BY <1>12, <2>2, <2>4, <2>5, SerialKeeps DEF StartCode
<1>13. ASSUME NEW w \in Workers, RecordRejection(w) PROVE SerialInv'
  <2>1. /\ pc[w] \in TaskSteps /\ SetTask(w, "failed") /\ at[w] \in Tasks
        /\ mem[w] \in RunRecord /\ run[w] \in Runs /\ UNCHANGED gitVars
    BY <1>13 DEF RecordRejection, TaskSteps, TypeOK, PastTheEnd
  <2> DEFINE new == UpdateTask(mem[w], at[w], "failed")
  <2>2. /\ \A u \in Tasks : new.task[u] = IF u = at[w] THEN "failed" ELSE mem[w].task[u]
        /\ new.branch = mem[w].branch /\ new.status # "none"
    BY <2>1, TasksOfMutated, MutatorsKeepBranch, MutatorsKeepStatus
  <2>3. mem' = [mem EXCEPT ![w] = new] /\ disk' = [disk EXCEPT ![run[w]] = new]
    BY <2>1 DEF SetTask, Save
  <2> HIDE DEF new
  <2>4. SerialMoved(w, "undo", at[w], new) /\ head' = head /\ GrowingLog
    BY <1>13, <2>1, <2>3 DEF RecordRejection, SerialMoved, OthersKept, GrowingLog, Save, Goto,
       Leave, slotVars, loopVars, NextTask, TypeOK, gitVars
  <2>5. CommittedAt(run[w], new, "undo", at[w], log') /\ new.branch = disk[run[w]].branch
    BY <1>13, <2>2, <2>4, CommittedKept DEF RecordRejection
  <2> QED
    BY <1>13, <2>2, <2>4, <2>5, SerialKeeps DEF RecordRejection
<1>14. ASSUME NEW w \in Workers, AttemptRaises(w) PROVE SerialInv'
  <2>1. /\ pc[w] \in TaskSteps /\ SetTask(w, "failed") /\ at[w] \in Tasks
        /\ mem[w] \in RunRecord /\ run[w] \in Runs /\ UNCHANGED gitVars
    BY <1>14 DEF AttemptRaises, TaskSteps, TypeOK, PastTheEnd
  <2> DEFINE new == UpdateTask(mem[w], at[w], "failed")
  <2>2. /\ \A u \in Tasks : new.task[u] = IF u = at[w] THEN "failed" ELSE mem[w].task[u]
        /\ new.branch = mem[w].branch /\ new.status # "none"
    BY <2>1, TasksOfMutated, MutatorsKeepBranch, MutatorsKeepStatus
  <2>3. mem' = [mem EXCEPT ![w] = new] /\ disk' = [disk EXCEPT ![run[w]] = new]
    BY <2>1 DEF SetTask, Save
  <2> HIDE DEF new
  <2>4. SerialMoved(w, "reraise", at[w], new) /\ head' = head /\ GrowingLog
    BY <1>14, <2>1, <2>3 DEF AttemptRaises, SerialMoved, OthersKept, GrowingLog, Save, Goto, Leave,
       slotVars, loopVars, NextTask, TypeOK, gitVars
  <2>5. CommittedAt(run[w], new, "reraise", at[w], log') /\ new.branch = disk[run[w]].branch
    BY <1>14, <2>2, <2>4, CommittedKept DEF AttemptRaises
  <2> QED
    BY <1>14, <2>2, <2>4, <2>5, SerialKeeps DEF AttemptRaises
<1>15. ASSUME NEW w \in Workers, CheckFails(w) PROVE SerialInv'
  <2>1. /\ pc[w] \in TaskSteps /\ SetTask(w, "failed") /\ at[w] \in Tasks
        /\ mem[w] \in RunRecord /\ run[w] \in Runs /\ UNCHANGED gitVars
    BY <1>15 DEF CheckFails, TaskSteps, TypeOK, PastTheEnd
  <2> DEFINE new == UpdateTask(mem[w], at[w], "failed")
  <2>2. /\ \A u \in Tasks : new.task[u] = IF u = at[w] THEN "failed" ELSE mem[w].task[u]
        /\ new.branch = mem[w].branch /\ new.status # "none"
    BY <2>1, TasksOfMutated, MutatorsKeepBranch, MutatorsKeepStatus
  <2>3. mem' = [mem EXCEPT ![w] = new] /\ disk' = [disk EXCEPT ![run[w]] = new]
    BY <2>1 DEF SetTask, Save
  <2> HIDE DEF new
  <2>4. SerialMoved(w, "mark", at[w], new) /\ head' = head /\ GrowingLog
    BY <1>15, <2>1, <2>3 DEF CheckFails, SerialMoved, OthersKept, GrowingLog, Save, Goto, Leave,
       slotVars, loopVars, NextTask, TypeOK, gitVars
  <2>5. CommittedAt(run[w], new, "mark", at[w], log') /\ new.branch = disk[run[w]].branch
    BY <1>15, <2>2, <2>4, CommittedKept DEF CheckFails
  <2> QED
    BY <1>15, <2>2, <2>4, <2>5, SerialKeeps DEF CheckFails
<1>16. ASSUME NEW w \in Workers, StartCheck(w) PROVE SerialInv'
  <2>1. /\ pc[w] \in TaskSteps /\ SetTask(w, "running") /\ at[w] \in Tasks
        /\ mem[w] \in RunRecord /\ run[w] \in Runs /\ UNCHANGED gitVars
    BY <1>16 DEF StartCheck, TaskSteps, TypeOK, PastTheEnd
  <2> DEFINE new == UpdateTask(mem[w], at[w], "running")
  <2>2. /\ \A u \in Tasks : new.task[u] = IF u = at[w] THEN "running" ELSE mem[w].task[u]
        /\ new.branch = mem[w].branch /\ new.status # "none"
    BY <2>1, TasksOfMutated, MutatorsKeepBranch, MutatorsKeepStatus
  <2>3. mem' = [mem EXCEPT ![w] = new] /\ disk' = [disk EXCEPT ![run[w]] = new]
    BY <2>1 DEF SetTask, Save
  <2> HIDE DEF new
  <2>4. SerialMoved(w, "checking", at[w], new) /\ head' = head /\ GrowingLog
    BY <1>16, <2>1, <2>3 DEF StartCheck, SerialMoved, OthersKept, GrowingLog, Save, Goto, Leave,
       slotVars, loopVars, NextTask, TypeOK, gitVars
  <2>5. CommittedAt(run[w], new, "checking", at[w], log') /\ new.branch = disk[run[w]].branch
    BY <1>16, <2>2, <2>4, CommittedKept DEF StartCheck
  <2>6. Kind[at[w]] \notin AutoExecutableKinds
    BY <1>16 DEF StartCheck, SerialInv, SyncInv, SyncAt
  <2> QED
    BY <1>16, <2>2, <2>4, <2>5, <2>6, SerialKeeps DEF StartCheck
<1>17. ASSUME NEW w \in Workers, FailReview(w) PROVE SerialInv'
  <2>1. /\ pc[w] \in TaskSteps /\ SetTask(w, "failed") /\ at[w] \in Tasks
        /\ mem[w] \in RunRecord /\ run[w] \in Runs /\ UNCHANGED gitVars
    BY <1>17 DEF FailReview, TaskSteps, TypeOK, PastTheEnd
  <2> DEFINE new == UpdateTask(mem[w], at[w], "failed")
  <2>2. /\ \A u \in Tasks : new.task[u] = IF u = at[w] THEN "failed" ELSE mem[w].task[u]
        /\ new.branch = mem[w].branch /\ new.status # "none"
    BY <2>1, TasksOfMutated, MutatorsKeepBranch, MutatorsKeepStatus
  <2>3. mem' = [mem EXCEPT ![w] = new] /\ disk' = [disk EXCEPT ![run[w]] = new]
    BY <2>1 DEF SetTask, Save
  <2> HIDE DEF new
  <2>4. SerialMoved(w, "undo", at[w], new) /\ head' = head /\ GrowingLog
    BY <1>17, <2>1, <2>3 DEF FailReview, SerialMoved, OthersKept, GrowingLog, Save, Goto, Leave,
       slotVars, loopVars, NextTask, TypeOK, gitVars
  <2>5. /\ CommittedAt(run[w], mem[w], pc[w], at[w], log) /\ mem[w] = disk[run[w]]
        /\ head = mem[w].branch /\ head \in Branches
    BY <1>17 DEF FailReview, SerialInv, CommittedInv, SyncInv, SyncAt, BranchInv, BranchSteps,
       LoopSteps, TaskSteps,
       TypeOK, GitTypeOK
  <2>6. CommittedAt(run[w], new, "undo", at[w], log')
    BY <2>1, <2>2, <2>5 DEF CommittedAt, gitVars
  <2> QED
    BY <1>17, <2>2, <2>4, <2>5, <2>6, SerialKeeps DEF FailReview
<1>18. ASSUME NEW w \in Workers, CommitFails(w) PROVE SerialInv'
  <2>1. /\ pc[w] \in TaskSteps /\ SetTask(w, "failed") /\ at[w] \in Tasks
        /\ mem[w] \in RunRecord /\ run[w] \in Runs /\ UNCHANGED gitVars
    BY <1>18 DEF CommitFails, TaskSteps, TypeOK, PastTheEnd
  <2> DEFINE new == UpdateTask(mem[w], at[w], "failed")
  <2>2. /\ \A u \in Tasks : new.task[u] = IF u = at[w] THEN "failed" ELSE mem[w].task[u]
        /\ new.branch = mem[w].branch /\ new.status # "none"
    BY <2>1, TasksOfMutated, MutatorsKeepBranch, MutatorsKeepStatus
  <2>3. mem' = [mem EXCEPT ![w] = new] /\ disk' = [disk EXCEPT ![run[w]] = new]
    BY <2>1 DEF SetTask, Save
  <2> HIDE DEF new
  <2>4. SerialMoved(w, "undo", at[w], new) /\ head' = head /\ GrowingLog
    BY <1>18, <2>1, <2>3 DEF CommitFails, SerialMoved, OthersKept, GrowingLog, Save, Goto, Leave,
       slotVars, loopVars, NextTask, TypeOK, gitVars
  <2>5. /\ CommittedAt(run[w], mem[w], pc[w], at[w], log) /\ mem[w] = disk[run[w]]
        /\ head = mem[w].branch /\ head \in Branches
    BY <1>18 DEF CommitFails, SerialInv, CommittedInv, SyncInv, SyncAt, BranchInv, BranchSteps,
       LoopSteps, TaskSteps,
       TypeOK, GitTypeOK
  <2>6. CommittedAt(run[w], new, "undo", at[w], log')
    BY <2>1, <2>2, <2>5 DEF CommittedAt, gitVars
  <2> QED
    BY <1>18, <2>2, <2>4, <2>5, <2>6, SerialKeeps DEF CommitFails
<1>19. ASSUME NEW w \in Workers, AcceptAttempt(w) PROVE SerialInv'
  <2>1. /\ pc[w] \in TaskSteps /\ SetTask(w, "passed") /\ at[w] \in Tasks
        /\ mem[w] \in RunRecord /\ run[w] \in Runs /\ UNCHANGED gitVars
    BY <1>19 DEF AcceptAttempt, TaskSteps, TypeOK, PastTheEnd
  <2> DEFINE new == UpdateTask(mem[w], at[w], "passed")
  <2>2. /\ \A u \in Tasks : new.task[u] = IF u = at[w] THEN "passed" ELSE mem[w].task[u]
        /\ new.branch = mem[w].branch /\ new.status # "none"
    BY <2>1, TasksOfMutated, MutatorsKeepBranch, MutatorsKeepStatus
  <2>3. mem' = [mem EXCEPT ![w] = new] /\ disk' = [disk EXCEPT ![run[w]] = new]
    BY <2>1 DEF SetTask, Save
  <2> HIDE DEF new
  <2>4. SerialMoved(w, "review", at[w], new) /\ head' = head /\ GrowingLog
    BY <1>19, <2>1, <2>3 DEF AcceptAttempt, SerialMoved, OthersKept, GrowingLog, Save, Goto, Leave,
       slotVars, loopVars, NextTask, TypeOK, gitVars
  <2>5. /\ CommittedAt(run[w], mem[w], pc[w], at[w], log) /\ mem[w] = disk[run[w]]
        /\ head = mem[w].branch /\ head \in Branches
    BY <1>19 DEF AcceptAttempt, SerialInv, CommittedInv, SyncInv, SyncAt, BranchInv, BranchSteps,
       LoopSteps, TaskSteps,
       TypeOK, GitTypeOK
  <2>6. CommittedAt(run[w], new, "review", at[w], log')
    BY <1>19, <2>1, <2>2, <2>5 DEF AcceptAttempt, CommittedAt, gitVars
  <2> QED
    BY <1>19, <2>2, <2>4, <2>5, <2>6, SerialKeeps DEF AcceptAttempt
<1>20. ASSUME NEW w \in Workers, CheckPasses(w) PROVE SerialInv'
  <2>1. /\ pc[w] \in TaskSteps /\ SetTask(w, "passed") /\ at[w] \in Tasks
        /\ mem[w] \in RunRecord /\ run[w] \in Runs /\ UNCHANGED gitVars
    BY <1>20 DEF CheckPasses, TaskSteps, TypeOK, PastTheEnd
  <2> DEFINE new == UpdateTask(mem[w], at[w], "passed")
  <2>2. /\ \A u \in Tasks : new.task[u] = IF u = at[w] THEN "passed" ELSE mem[w].task[u]
        /\ new.branch = mem[w].branch /\ new.status # "none"
    BY <2>1, TasksOfMutated, MutatorsKeepBranch, MutatorsKeepStatus
  <2>3. mem' = [mem EXCEPT ![w] = new] /\ disk' = [disk EXCEPT ![run[w]] = new]
    BY <2>1 DEF SetTask, Save
  <2> HIDE DEF new
  <2>4. SerialMoved(w, "dispatch", at[w] + 1, new) /\ head' = head /\ GrowingLog
    BY <1>20, <2>1, <2>3 DEF CheckPasses, SerialMoved, OthersKept, GrowingLog, Save, Goto, Leave,
       slotVars, loopVars, NextTask, TypeOK, gitVars
  <2>5. /\ CommittedAt(run[w], mem[w], pc[w], at[w], log) /\ mem[w] = disk[run[w]]
        /\ head = mem[w].branch /\ head \in Branches
    BY <1>20 DEF CheckPasses, SerialInv, CommittedInv, SyncInv, SyncAt, BranchInv, BranchSteps,
       LoopSteps, TaskSteps,
       TypeOK, GitTypeOK
  <2>6. Kind[at[w]] \notin AutoExecutableKinds
    BY <1>20 DEF CheckPasses, SerialInv, SyncInv, SyncAt
  <2>7. CommittedAt(run[w], new, "dispatch", at[w] + 1, log')
    BY <1>20, <2>1, <2>2, <2>5, <2>6 DEF CheckPasses, CommittedAt, gitVars
  <2> QED
    BY <1>20, <2>2, <2>4, <2>5, <2>7, SerialKeeps DEF CheckPasses
<1>21. ASSUME NEW w \in Workers, PassReview(w) PROVE SerialInv'
  <2>1. /\ mem[w] = disk[run[w]] /\ mem[w].status # "none" /\ run[w] \in Runs
        /\ CommittedAt(run[w], mem[w], "review", at[w], log)
    BY <1>21 DEF PassReview, SerialInv, CommittedInv, SyncInv, SyncAt, TypeOK
  <2>2. SerialMoved(w, "commit", at[w], mem[w]) /\ head' = head /\ log' = log
    BY <1>21, <2>1 DEF PassReview, SerialMoved, OthersKept, WriteTree, Save, Goto, Leave, slotVars,
       loopVars, NextTask, TypeOK, gitVars
  <2>3. CommittedAt(run[w], mem[w], "commit", at[w], log')
    BY <2>1, <2>2 DEF CommittedAt
  <2> QED
    BY <1>21, <2>1, <2>2, <2>3, SerialKeeps DEF PassReview, GrowingLog
<1>22. ASSUME NEW w \in Workers, RunCheck(w) PROVE SerialInv'
  <2>1. /\ mem[w] = disk[run[w]] /\ mem[w].status # "none" /\ run[w] \in Runs
        /\ CommittedAt(run[w], mem[w], "checking", at[w], log)
    BY <1>22 DEF RunCheck, SerialInv, CommittedInv, SyncInv, SyncAt, TypeOK
  <2>2. SerialMoved(w, "checked", at[w], mem[w]) /\ head' = head /\ log' = log
    BY <1>22, <2>1 DEF RunCheck, SerialMoved, OthersKept, WriteTree, Save, Goto, Leave, slotVars,
       loopVars, NextTask, TypeOK, gitVars
  <2>3. CommittedAt(run[w], mem[w], "checked", at[w], log')
    BY <2>1, <2>2 DEF CommittedAt
  <2>4. Kind[at[w]] \notin AutoExecutableKinds
    BY <1>22 DEF RunCheck, SerialInv, SyncInv, SyncAt
  <2> QED
    BY <1>22, <2>1, <2>2, <2>3, <2>4, SerialKeeps DEF RunCheck, GrowingLog
<1>23. ASSUME NEW w \in Workers, CommitTask(w) PROVE SerialInv'
  <2>1. /\ mem[w] = disk[run[w]] /\ mem[w].status # "none" /\ run[w] \in Runs
        /\ CommittedAt(run[w], mem[w], "commit", at[w], log)
    BY <1>23 DEF CommitTask, SerialInv, CommittedInv, SyncInv, SyncAt, TypeOK
  <2>2. head = mem[w].branch /\ head \in Branches /\ dirty = {<<run[w], at[w]>>}
    BY <1>23 DEF CommitTask, BranchInv, BranchSteps, LoopSteps, TaskSteps, TypeOK, GitTypeOK,
       TaskInv, TreeInv,
       TreeAt, OwnSteps
  <2>3. SerialMoved(w, "dispatch", at[w] + 1, mem[w])
    BY <1>23, <2>1 DEF CommitTask, SerialMoved, OthersKept, Save, Goto, Leave, slotVars, loopVars,
       NextTask, TypeOK, gitVars
  <2>4. head' = head /\ GrowingLog /\ log'[head] = log[head] \cup {<<run[w], at[w]>>}
    BY <1>23, <2>2 DEF CommitTask, Checkpoint, GrowingLog, TypeOK, GitTypeOK
  <2>5. CommittedAt(run[w], mem[w], "dispatch", at[w] + 1, log')
    BY <2>1, <2>2, <2>4 DEF CommittedAt
  <2> QED
    BY <1>23, <2>1, <2>3, <2>4, <2>5, SerialKeeps DEF CommitTask
<1>24. ASSUME NEW w \in Workers, BeginFinalize(w) PROVE SerialInv'
  <2>1. /\ mem[w] = disk[run[w]] /\ mem[w].status # "none" /\ run[w] \in Runs
        /\ mem[w] \in RunRecord
    BY <1>24 DEF BeginFinalize, SerialInv, SyncInv, SyncAt, TypeOK, PastTheEnd
  <2> DEFINE new == [mem[w] EXCEPT !.status = "running"]
  <2>2. /\ \A u \in Tasks : new.task[u] = "passed" => mem[w].task[u] = "passed"
        /\ new.branch = mem[w].branch /\ new.status # "none"
    BY <2>1, TasksOfFinished, BranchOfFinished, StatusOfFinished
  <2>3. mem' = [mem EXCEPT ![w] = new] /\ disk' = [disk EXCEPT ![run[w]] = new]
    BY <1>24 DEF BeginFinalize, Save
  <2> HIDE DEF new
  <2>4. SerialMoved(w, "finalizing", at[w], new) /\ head' = head /\ GrowingLog
    BY <1>24, <2>1, <2>3 DEF BeginFinalize, SerialMoved, OthersKept, GrowingLog, Save, Goto, Leave,
       slotVars, loopVars, NextTask, TypeOK, gitVars
  <2>5. CommittedAt(run[w], new, "finalizing", at[w], log') /\ new.branch = disk[run[w]].branch
    BY <1>24, <2>2, <2>4, CommittedKept DEF BeginFinalize
  <2> QED
    BY <1>24, <2>2, <2>4, <2>5, SerialKeeps DEF BeginFinalize
<1>25. ASSUME NEW w \in Workers, EndFinalize(w) PROVE SerialInv'
  <2>1. /\ mem[w] = disk[run[w]] /\ mem[w].status # "none" /\ run[w] \in Runs
        /\ mem[w] \in RunRecord
    BY <1>25 DEF EndFinalize, SerialInv, SyncInv, SyncAt, TypeOK, PastTheEnd
  <2>0. PICK finalized \in BOOLEAN : Save(w, FinishRun(mem[w], passed[w] /\ finalized))
    BY <1>25 DEF EndFinalize
  <2> DEFINE new == FinishRun(mem[w], passed[w] /\ finalized)
  <2>2. /\ \A u \in Tasks : new.task[u] = "passed" => mem[w].task[u] = "passed"
        /\ new.branch = mem[w].branch /\ new.status # "none"
    BY <2>1, TasksOfFinished, BranchOfFinished, StatusOfFinished
  <2>3. mem' = [mem EXCEPT ![w] = new] /\ disk' = [disk EXCEPT ![run[w]] = new]
    BY <2>0 DEF EndFinalize, Save
  <2> HIDE DEF new
  <2>4. SerialMoved(w, "release", at[w], new) /\ head' = head /\ GrowingLog
    BY <1>25, <2>1, <2>3 DEF EndFinalize, SerialMoved, OthersKept, GrowingLog, Save, Goto, Leave,
       slotVars, loopVars, NextTask, TypeOK, gitVars
  <2>5. CommittedAt(run[w], new, "release", at[w], log') /\ new.branch = disk[run[w]].branch
    BY <1>25, <2>2, <2>4, CommittedKept DEF EndFinalize
  <2> QED
    BY <1>25, <2>2, <2>4, <2>5, SerialKeeps DEF EndFinalize
<1>26. ASSUME NEW w \in Workers, AppendTask(w) PROVE SerialInv'
  <2>1. /\ mem[w] = disk[run[w]] /\ mem[w].status # "none" /\ run[w] \in Runs
        /\ mem[w] \in RunRecord /\ at[w] \in Tasks
    BY <1>26 DEF AppendTask, SerialInv, SyncInv, SyncAt, TypeOK, PastTheEnd
  <2> DEFINE next == IF at[w] = NTasks THEN "dispatch" ELSE "append"
             i == IF at[w] = NTasks THEN 1 ELSE at[w] + 1
             new == AddTask(mem[w], at[w])
  <2>2. /\ \A u \in Tasks : new.task[u] = "passed" => mem[w].task[u] = "passed"
        /\ new.branch = mem[w].branch /\ new.status # "none"
    BY <2>1, TasksOfMutated, MutatorsKeepBranch, MutatorsKeepStatus
  <2>3. mem' = [mem EXCEPT ![w] = new] /\ disk' = [disk EXCEPT ![run[w]] = new]
    BY <1>26 DEF AppendTask, Save
  <2> HIDE DEF new
  <2>4. SerialMoved(w, next, i, new) /\ head' = head /\ GrowingLog
    BY <1>26, <2>1, <2>3 DEF AppendTask, SerialMoved, OthersKept, GrowingLog, Save, Goto, Leave,
       slotVars, loopVars, NextTask, TypeOK, gitVars
  <2>5. CommittedAt(run[w], new, next, i, log') /\ new.branch = disk[run[w]].branch
    BY <1>26, <2>2, <2>4, CommittedKept DEF AppendTask
  <2> QED
    <3>1. next \in {"dispatch", "append"}
      OBVIOUS
    <3> HIDE DEF next
    <3> QED
      BY <1>26, <2>2, <2>4, <2>5, <3>1, SerialKeeps DEF AppendTask
<1>27. ASSUME NEW w \in Workers, MarkNext(w) PROVE SerialInv'
  <2>1. /\ mem[w] = disk[run[w]] /\ mem[w].status # "none" /\ run[w] \in Runs
        /\ mem[w] \in RunRecord
    BY <1>27 DEF MarkNext, SerialInv, SyncInv, SyncAt, TypeOK, PastTheEnd
  <2>0. PICK t \in Tasks, s \in {"blocked", "skipped"} : Save(w, MarkUnreached(mem[w], t, s))
    BY <1>27 DEF MarkNext, MarkTask, Unmarked, TasksIn
  <2> DEFINE new == MarkUnreached(mem[w], t, s)
  <2>2. /\ \A u \in Tasks : new.task[u] = "passed" => mem[w].task[u] = "passed"
        /\ new.branch = mem[w].branch /\ new.status # "none"
    BY <2>1, <2>0, TasksOfMutated, MutatorsKeepBranch, MutatorsKeepStatus
  <2>3. mem' = [mem EXCEPT ![w] = new] /\ disk' = [disk EXCEPT ![run[w]] = new]
    BY <2>0 DEF MarkNext, Save
  <2> HIDE DEF new
  <2>4. SerialMoved(w, "mark", at[w], new) /\ head' = head /\ GrowingLog
    BY <1>27, <2>1, <2>3 DEF MarkNext, SerialMoved, OthersKept, GrowingLog, Save, Goto, Leave,
       slotVars, loopVars, NextTask, TypeOK, gitVars
  <2>5. CommittedAt(run[w], new, "mark", at[w], log') /\ new.branch = disk[run[w]].branch
    BY <1>27, <2>2, <2>4, CommittedKept DEF MarkNext
  <2> QED
    BY <1>27, <2>2, <2>4, <2>5, SerialKeeps DEF MarkNext
<1>28. ASSUME NEW w \in Workers, DispatchTask(w) PROVE SerialInv'
  <2>1. /\ mem[w] = disk[run[w]] /\ mem[w].status # "none" /\ run[w] \in Runs
        /\ mem[w] \in RunRecord /\ at[w] \in Tasks
    BY <1>28 DEF DispatchTask, SerialInv, SyncInv, SyncAt, TypeOK, PastTheEnd
  <2>2. MissingDeps(w) = {}
    BY <1>28, PlanAssumption DEF DispatchTask, TaskInv, DoneInv, DoneAt, MissingDeps, Done
  <2>3. CASE MustWait(mem[w], at[w])
    <3> DEFINE new == MarkWaitingForApproval(mem[w], at[w])
    <3>1. /\ \A u \in Tasks : new.task[u] = "passed" => mem[w].task[u] = "passed"
          /\ new.branch = mem[w].branch /\ new.status # "none"
      BY <2>1, TasksOfMutated, MutatorsKeepBranch, MutatorsKeepStatus
    <3>2. mem' = [mem EXCEPT ![w] = new] /\ disk' = [disk EXCEPT ![run[w]] = new]
      BY <1>28, <2>2, <2>3 DEF DispatchTask, Save
    <3> HIDE DEF new
    <3>3. SerialMoved(w, "release", at[w], new) /\ head' = head /\ GrowingLog
      BY <1>28, <2>1, <2>2, <2>3, <3>2 DEF DispatchTask, SerialMoved, OthersKept, GrowingLog, Save,
         Goto, Leave, slotVars, loopVars, NextTask, TypeOK, gitVars
    <3>4. CommittedAt(run[w], new, "release", at[w], log') /\ new.branch = disk[run[w]].branch
      BY <1>28, <3>1, <3>3, CommittedKept DEF DispatchTask
    <3> QED
      BY <1>28, <3>1, <3>3, <3>4, SerialKeeps DEF DispatchTask
  <2>4. CASE ~MustWait(mem[w], at[w])
    <3> DEFINE label == IF Kind[at[w]] \in AutoExecutableKinds THEN "code" ELSE "check"
    <3>1. SerialMoved(w, label, at[w], mem[w]) /\ head' = head /\ GrowingLog
      BY <1>28, <2>1, <2>2, <2>4 DEF DispatchTask, SerialMoved, OthersKept, GrowingLog, Save, Goto,
         Leave, slotVars, loopVars, NextTask, TypeOK, gitVars
    <3>2. /\ label \in {"code", "check"}
          /\ label = "check" => Kind[at[w]] \notin AutoExecutableKinds
      OBVIOUS
    <3> HIDE DEF label
    <3>3. CommittedAt(run[w], mem[w], label, at[w], log')
      BY <1>28, <3>1, CommittedKept DEF DispatchTask
    <3> QED
      BY <1>28, <2>1, <3>1, <3>2, <3>3, SerialKeeps DEF DispatchTask
  <2> QED
    BY <2>3, <2>4
<1>29. ASSUME NEW w \in Workers, CreateRun(w) PROVE SerialInv'
  <2>1. /\ pc[w] = "create" /\ run[w] \in Runs /\ disk[run[w]].status = "none"
        /\ \A v \in Workers \ {w} :
              pc[v] = "idle" /\ pc'[v] = "idle" /\ run'[v] = None /\ run[v] = None
        /\ pc'[w] = "branch" /\ run'[w] = run[w] /\ mem'[w] = NewRecord /\ UNCHANGED gitVars
        /\ \A r \in Runs : disk'[r] = IF r = run[w] THEN NewRecord ELSE disk[r]
    BY <1>29, OthersIdle DEF CreateRun, SerialInv, SyncInv, SyncAt, Save, Goto, Leave, slotVars,
       loopVars, NextTask, TypeOK, gitVars
  <2>2. /\ NewRecord.branch = None /\ NewRecord.status = "pending"
        /\ \A t \in Tasks : NewRecord.task[t] = "absent"
    BY BlankContent DEF NewRecord, NoRecord
  <2>3. FreshInv'
    <3> SUFFICES ASSUME NEW r \in Runs, Unstarted(r)'
                 PROVE  head' # r /\ \A q \in Runs : disk'[q].branch # r
      BY DEF FreshInv
    <3>1. disk[r].status = "none"
      BY <2>1 DEF Unstarted
    <3> QED
      BY <2>1, <2>2, <3>1, NamesAssumption DEF SerialInv, FreshInv, Unstarted, gitVars
  <2>4. SyncInv'
    BY <2>1, <2>2 DEF SyncInv, SyncAt
  <2>5. CommittedInv'
    <3>1. ASSUME NEW r \in Runs, r # run[w] PROVE CommittedAt(r, disk[r], "idle", 1, log)
      BY <2>1, <3>1, NamesAssumption DEF SerialInv, CommittedInv
    <3>2. \A label, i : CommittedAt(run[w], NewRecord, label, i, log)
      BY <2>2 DEF CommittedAt
    <3> QED
      BY <2>1, <3>1, <3>2 DEF CommittedInv, CommittedAt, gitVars
  <2> QED
    BY <2>3, <2>4, <2>5 DEF SerialInv
<1>30. ASSUME NEW w \in Workers, PrepareBranch(w) PROVE SerialInv'
  <2> DEFINE new == [mem[w] EXCEPT !.branch = AgentBranchFor(run[w])]
  <2>1. /\ pc[w] = "branch" /\ run[w] \in Runs /\ mem[w] = disk[run[w]] /\ mem[w].status # "none"
        /\ \A v \in Workers \ {w} :
              pc[v] = "idle" /\ pc'[v] = "idle" /\ run'[v] = None /\ run[v] = None
        /\ \A t \in Tasks : mem[w].task[t] = "absent"
    BY <1>30, OthersIdle DEF PrepareBranch, SerialInv, SyncInv, SyncAt, ShapeInv, WorkerShape,
       ShapeAt, Save, Goto, Leave, slotVars, loopVars, NextTask, TypeOK, gitVars
  <2>2. pc'[w] = "bind" /\ run'[w] = run[w] /\ mem'[w] = new /\ disk' = disk
    BY <1>30 DEF PrepareBranch, Save, Goto, Leave, slotVars, loopVars, NextTask, TypeOK, gitVars
  <2>3. new.status = mem[w].status
    BY <1>30 DEF TypeOK, RunRecord
  <2> HIDE DEF new
  <2>4. /\ head' = AgentBranchFor(run[w]) /\ Main \in Branches
        /\ \A b \in Branches \ {run[w]} : log'[b] = log[b]
    BY <1>30 DEF PrepareBranch, CreateAgentBranch, TypeOK, GitTypeOK, Branches
  <2>5. head # run[w] /\ \A q \in Runs : disk[q].branch # run[w]
    BY <2>1 DEF SerialInv, FreshInv, Unstarted
  <2>6. FreshInv'
    <3> SUFFICES ASSUME NEW r \in Runs, Unstarted(r)'
                 PROVE  head' # r /\ \A q \in Runs : disk'[q].branch # r
      BY DEF FreshInv
    <3>1. disk[r].status = "none" /\ r # run[w]
      BY <2>1, <2>2 DEF Unstarted
    <3> QED
      BY <2>2, <2>4, <3>1 DEF SerialInv, FreshInv, Unstarted, AgentBranchFor
  <2>7. SyncInv'
    BY <2>1, <2>2, <2>3 DEF SyncInv, SyncAt
  <2>8. CommittedInv'
    <3>1. ASSUME NEW r \in Runs PROVE CommittedAt(r, disk[r], "idle", 1, log')
      <4>1. CASE r = run[w]
        BY <2>1, <4>1 DEF CommittedAt
      <4>2. CASE r # run[w]
        <5>1. CommittedAt(r, disk[r], "idle", 1, log)
          BY <2>1, <4>2, NamesAssumption DEF SerialInv, CommittedInv
        <5> QED
          BY <2>4, <2>5, <5>1 DEF CommittedAt
      <4> QED
        BY <4>1, <4>2
    <3> QED
      BY <2>1, <2>2, <3>1 DEF CommittedInv, CommittedAt
  <2> QED
    BY <2>6, <2>7, <2>8 DEF SerialInv
<1>31. ASSUME NEW w \in Workers, BindBranch(w) PROVE SerialInv'
  <2>1. /\ pc[w] = "bind" /\ run[w] \in Runs /\ mem[w].status # "none" /\ mem[w].branch = head
        /\ \A t \in Tasks : mem[w].task[t] = "absent"
    BY <1>31 DEF BindBranch, SerialInv, SyncInv, SyncAt, ShapeInv, WorkerShape, ShapeAt, BranchInv,
       BranchSteps,
       TypeOK
  <2>2. SerialMoved(w, "append", at[w], mem[w]) /\ head' = head /\ GrowingLog
    BY <1>31 DEF BindBranch, SerialMoved, OthersKept, GrowingLog, Save, Goto, Leave, slotVars,
       loopVars, NextTask, TypeOK, gitVars
  <2>3. CommittedAt(run[w], mem[w], "append", at[w], log')
    BY <2>1 DEF CommittedAt
  <2> QED
    BY <2>1, <2>2, <2>3, SerialKeeps
<1>32. ASSUME NEW w \in Workers, SetupResume(w) PROVE SerialInv'
  <2> DEFINE label == IF TasksIn(mem[w], "absent") = {} THEN "dispatch" ELSE "release"
  <2>1. /\ pc[w] = "setup" /\ run[w] \in Runs /\ mem[w] = disk[run[w]] /\ mem[w].status # "none"
        /\ CommittedAt(run[w], mem[w], "setup", at[w], log)
        /\ \A v \in Workers \ {w} : pc[v] = "idle" /\ run[v] = None
    BY <1>32, OthersIdle DEF SetupResume, SerialInv, SyncInv, SyncAt, CommittedInv, TypeOK
  <2>2. /\ OthersKept(w) /\ pc'[w] = label /\ run' = run /\ at' = at /\ mem' = mem /\ disk' = disk
        /\ head' = mem[w].branch /\ log' = log
    BY <1>32 DEF SetupResume, SwitchBranch, OthersKept, Save, Goto, Leave, slotVars, loopVars,
       NextTask, TypeOK, gitVars
  <2>3. label \in {"dispatch", "release"}
    OBVIOUS
  <2> HIDE DEF label
  <2>4. FreshInv'
    <3> SUFFICES ASSUME NEW r \in Runs, Unstarted(r)'
                 PROVE  head' # r /\ \A q \in Runs : disk'[q].branch # r
      BY DEF FreshInv
    <3>1. Unstarted(r)
      BY <2>1, <2>2, <2>3 DEF Unstarted, OthersKept
    <3> QED
      BY <2>1, <2>2, <3>1 DEF SerialInv, FreshInv
  <2>5. SyncInv'
    BY <2>1, <2>2, <2>3 DEF SyncInv, SyncAt, OthersKept
  <2>6. CommittedInv'
    <3>1. CommittedAt(run[w], mem[w], label, at[w], log)
      BY <2>1 DEF CommittedAt
    <3> QED
      BY <2>1, <2>2, <3>1 DEF SerialInv, CommittedInv, CommittedAt, OthersKept
  <2> QED
    BY <2>4, <2>5, <2>6 DEF SerialInv
<1>33. ASSUME NEW w \in Workers, SaveApproval(w) PROVE SerialInv'
  <2>1. /\ pc[w] = "approve" /\ run[w] \in Runs /\ mem[w] = disk[run[w]] /\ mem[w] \in RunRecord
        /\ at[w] \in Tasks
    BY <1>33 DEF SaveApproval, SerialInv, SyncInv, SyncAt, TypeOK, PastTheEnd
  <2> DEFINE new == ApproveTask(mem[w], at[w])
  <2>2. /\ \A u \in Tasks : new.task[u] = "passed" => mem[w].task[u] = "passed"
        /\ new.branch = mem[w].branch /\ new.status # "none"
    BY <2>1, TasksOfMutated, MutatorsKeepBranch, MutatorsKeepStatus
  <2>3. \A r \in Runs : disk'[r] = IF r = run[w] THEN new ELSE disk[r]
    BY <1>33 DEF SaveApproval, TypeOK
  <2> HIDE DEF new
  <2> QED
    BY <1>33, <2>1, <2>2, <2>3, SerialLeft DEF SaveApproval
<1>34. ASSUME NEW w \in Workers, ReleaseLease(w) PROVE SerialInv'
  <2>1. /\ pc[w] \in {"release", "resume"} /\ Forget(w) /\ UNCHANGED gitVars /\ disk' = disk
        /\ mem[w] = disk[run[w]] /\ mem[w].status # "none"
    BY <1>34 DEF ReleaseLease, SerialInv, SyncInv, SyncAt
  <2> QED
    BY <2>1, SerialLeft
<1>35. ASSUME NEW w \in Workers, SlotTaken(w) PROVE SerialInv'
  <2>1. /\ pc[w] \in {"release", "resume"} /\ Forget(w) /\ UNCHANGED gitVars /\ disk' = disk
        /\ mem[w] = disk[run[w]] /\ mem[w].status # "none"
    BY <1>35 DEF SlotTaken, SerialInv, SyncInv, SyncAt
  <2> QED
    BY <2>1, SerialLeft
<1>36. ASSUME NEW w \in Workers, Fault(w) PROVE SerialInv'
  BY <1>36 DEF Fault, Interrupt, Kill, Undisturbed
<1>37. ASSUME NEW w \in Workers, NEW r \in Runs, StartRun(w, r) PROVE SerialInv'
  BY <1>37, SerialCalled DEF StartRun, SyncAt, OthersKept, Goto, loopVars, TypeOK
<1>38. ASSUME NEW w \in Workers, NEW r \in Runs, LoadForResume(w, r) PROVE SerialInv'
  BY <1>38, SerialCalled DEF LoadForResume, SyncAt, OthersKept, Goto, loopVars, TypeOK
<1>39. ASSUME NEW w \in Workers, NEW r \in Runs, NEW t \in Tasks,
            LoadForApproval(w, r, t) PROVE SerialInv'
  BY <1>39, SerialCalled DEF LoadForApproval, SyncAt, OthersKept, Goto, loopVars, TypeOK
<1>40. ASSUME User PROVE SerialInv'
  <2>1. UNCHANGED runVars /\ log' = log
    BY <1>40 DEF User, UserCleansTree, UserSwitchesTo
  <2>2. head' \in {head, Main} \/ \E q \in Runs : head' = disk[q].branch
    BY <1>40 DEF User, UserCleansTree, UserSwitchesTo
  <2>3. FreshInv'
    BY <2>1, <2>2, NamesAssumption DEF SerialInv, FreshInv, Unstarted, runVars
  <2> QED
    BY <2>1, <2>3 DEF SerialInv, SyncInv, SyncAt, CommittedInv, CommittedAt, runVars
<1> QED
  BY <1>u, <1>1, <1>2, <1>3, <1>4, <1>5, <1>6, <1>7, <1>8, <1>9, <1>10, <1>11, <1>12, <1>13, <1>14,
     <1>15, <1>16, <1>17, <1>18, <1>19, <1>20, <1>21, <1>22, <1>23, <1>24, <1>25, <1>26, <1>27,
     <1>28, <1>29, <1>30, <1>31, <1>32, <1>33, <1>34, <1>35, <1>36, <1>37, <1>38, <1>39, <1>40
     DEF Next, Step, Call

LEMMA SerialInvariant == Spec /\ []Undisturbed => []SerialInv
<1>1. Init => SerialInv
  <2> SUFFICES ASSUME Init PROVE SerialInv
    OBVIOUS
  <2>1. \A r \in Runs : disk[r].branch = None /\ \A t \in Tasks : disk[r].task[t] = "absent"
    BY DEF Init, NoRecord
  <2>2. FreshInv
    BY <2>1, NamesAssumption DEF Init, GitInit, FreshInv
  <2>3. SyncInv
    BY DEF Init, SyncInv
  <2>4. CommittedInv
    BY <2>1 DEF Init, CommittedInv, CommittedAt
  <2> QED
    BY <2>2, <2>3, <2>4 DEF SerialInv
<1>2. TypeOK /\ BranchInv /\ TaskInv /\ ShapeInv /\ SerialInv /\ Undisturbed /\ Undisturbed'
      /\ [Next]_vars => SerialInv'
  BY SerialStep
<1> QED
  BY <1>1, <1>2, TypeCorrect, BranchInvariant, TaskInvariant, ShapeInvariant, PTL DEF Spec

(* When calls do not overlap and none is interrupted, a code or docs task  *)
(* recorded PASSED in a run that nobody executes is committed on the run's *)
(* branch.                                                                 *)
THEOREM CheckpointsKept == Spec /\ []Undisturbed => []PassedHasCheckpoint
<1>1. SerialInv => PassedHasCheckpoint
  BY DEF SerialInv, CommittedInv, CommittedAt, PassedHasCheckpoint
<1> QED
  BY <1>1, SerialInvariant, PTL

(* Under the same premise a task is edited on top of the committed work of *)
(* what it depends on.                                                     *)
THEOREM CheckpointsBuiltUpon == Spec /\ []Undisturbed => []BuildsOnCheckpoints
<1>1. TypeOK /\ BranchInv /\ TaskInv /\ SerialInv => BuildsOnCheckpoints
  <2> SUFFICES ASSUME TypeOK, BranchInv, TaskInv, SerialInv, NEW w \in Workers, pc[w] = "edit",
                      NEW d \in Deps[at[w]], Kind[d] \in AutoExecutableKinds
               PROVE  <<run[w], d>> \in log[head]
    BY DEF BuildsOnCheckpoints
  <2>1. at[w] \in Tasks /\ d \in Tasks /\ d < at[w]
    BY PlanAssumption DEF TypeOK, PastTheEnd
  <2>2. mem[w].task[d] = "passed"
    BY <2>1 DEF TaskInv, DoneInv, DoneAt, TaskSteps
  <2>3. head = mem[w].branch /\ mem[w] = disk[run[w]]
    BY DEF BranchInv, BranchSteps, LoopSteps, TaskSteps, SerialInv, SyncInv, SyncAt
  <2>4. CommittedAt(run[w], mem[w], "edit", at[w], log)
    BY <2>3 DEF SerialInv, CommittedInv
  <2> QED
    BY <2>1, <2>2, <2>3, <2>4 DEF CommittedAt
<1> QED
  BY <1>1, TypeCorrect, BranchInvariant, TaskInvariant, SerialInvariant, PTL
=============================================================================
