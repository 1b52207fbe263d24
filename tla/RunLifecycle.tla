---------------------------- MODULE RunLifecycle ----------------------------
(***************************************************************************)
(* The life of the runs of one project: starting a run, executing its plan *)
(* task by task, stopping at approval gates, approving, resuming and       *)
(* finalizing (services/plan_runner.py, resume.py, tracked_executor.py,    *)
(* checkpointed_executor.py, and the lease of run_state.py).               *)
(*                                                                         *)
(* A worker is a thread or a process that serves one call at a time:       *)
(* run_execution_plan, resume_execution_plan or approve_waiting_task.      *)
(* Between two of its steps any other worker may move, the process may be  *)
(* interrupted (KeyboardInterrupt: finally clauses run, except Exception   *)
(* clauses do not) or killed.  One step is one durable effect, a save of   *)
(* state.json, a change of the lease or a git command, with the            *)
(* computation that leads to it.                                           *)
(*                                                                         *)
(* A definition named Seeded... is the one after it with a bug, as in      *)
(* GitWorkspace.                                                           *)
(***************************************************************************)
EXTENDS GitWorkspace, FiniteSets

CONSTANTS
  Workers,
  Orphan,      \* the lease file of a process that was killed
  Kind,        \* Kind[t]: the kind of task t
  Deps,        \* Deps[t]: depends_on
  Risky,       \* tasks with requires_approval, or of high or critical risk
  MaxFaults    \* how many interrupts and kills a behaviour has

AutoExecutableKinds == {"code", "docs"}
ExplicitExecutableKinds == {"test", "review"}
ApprovalOnlyKinds == {"deploy", "manual"}

ASSUME WorkersAssumption == None \notin Workers /\ Orphan \notin Workers /\ Orphan # None
(* What validate_plan returns: an order in which dependencies come first.  *)
ASSUME PlanAssumption ==
  /\ Kind \in [Tasks -> AutoExecutableKinds \cup ExplicitExecutableKinds \cup ApprovalOnlyKinds]
  /\ Deps \in [Tasks -> SUBSET Tasks]
  /\ \A t \in Tasks : \A d \in Deps[t] : d < t
  /\ Risky \subseteq Tasks
ASSUME FaultsAssumption == MaxFaults \in Nat

VARIABLES
  disk,        \* disk[r]: state.json of run r
  lease,       \* who created runs/.execution.lock, None when there is no file
  pc,          \* pc[w]: where worker w is
  run,         \* run[w]: the run it works for
  mode,        \* mode[w]: "run" or "resume"
  mem,         \* mem[w]: its RunState object
  at,          \* at[w]: the task the loop over validated.order is at
  passed,      \* passed[w]: the local variable of that name
  blocked,     \* blocked[w]: blocked_ids of _mark_remaining_after_failure
  approvals,   \* history: the gates a human has opened
  faults       \* history: interrupts and kills so far

runVars == <<disk, lease, pc, run, mode, mem, at, passed, blocked, approvals, faults>>
vars == <<runVars, gitVars>>

TaskSteps == {"code", "edit", "verify", "rejected", "review", "commit", "undo", "reraise",
              "check", "checking", "checked"}
LoopSteps == TaskSteps \cup {"dispatch", "mark", "finalize", "finalizing"}
SetupSteps == {"create", "branch", "bind", "append", "setup"}
Executing == SetupSteps \cup LoopSteps \cup {"release"}
PastTheEnd == {"dispatch", "finalize", "finalizing", "release"}
Labels == Executing \cup {"idle", "resume", "approve"}

TypeOK ==
  /\ GitTypeOK
  /\ disk \in [Runs -> RunRecord]
  /\ lease \in Workers \cup {None, Orphan}
  /\ pc \in [Workers -> Labels]
  /\ run \in [Workers -> Runs \cup {None}]
  /\ \A w \in Workers : (run[w] = None) <=> (pc[w] = "idle")
  /\ mode \in [Workers -> {"run", "resume"}]
  /\ mem \in [Workers -> RunRecord]
  /\ at \in [Workers -> 1 .. NTasks + 1]
  /\ \A w \in Workers : pc[w] \notin PastTheEnd => at[w] \in Tasks
  /\ passed \in [Workers -> BOOLEAN]
  /\ blocked \in [Workers -> SUBSET Tasks]
  /\ approvals \in SUBSET Work
  /\ faults \in 0 .. MaxFaults

Init ==
  /\ GitInit
  /\ disk = [r \in Runs |-> NoRecord]
  /\ lease = None
  /\ pc = [w \in Workers |-> "idle"]
  /\ run = [w \in Workers |-> None]
  /\ mode = [w \in Workers |-> "run"]
  /\ mem = [w \in Workers |-> NoRecord]
  /\ at = [w \in Workers |-> 1]
  /\ passed = [w \in Workers |-> TRUE]
  /\ blocked = [w \in Workers |-> {}]
  /\ approvals = {}
  /\ faults = 0

-----------------------------------------------------------------------------
(* Moves of one worker that most actions share.                            *)

Goto(w, label) == pc' = [pc EXCEPT ![w] = label]

(* manager.save after the mutator that made m of the in-memory record.     *)
Save(w, m) ==
  /\ mem' = [mem EXCEPT ![w] = m]
  /\ disk' = [disk EXCEPT ![run[w]] = m]

(* The call returns or raises: nothing of the worker's memory is left.     *)
Forget(w) ==
  /\ pc' = [pc EXCEPT ![w] = "idle"]
  /\ run' = [run EXCEPT ![w] = None]
  /\ mode' = [mode EXCEPT ![w] = "run"]
  /\ mem' = [mem EXCEPT ![w] = NoRecord]
  /\ at' = [at EXCEPT ![w] = 1]
  /\ passed' = [passed EXCEPT ![w] = TRUE]
  /\ blocked' = [blocked EXCEPT ![w] = {}]

slotVars == <<lease, run, mode, approvals, faults>>
loopVars == <<at, passed, blocked>>

(* Raise to the finally clause that releases the lease.                    *)
Leave(w) == Goto(w, "release") /\ UNCHANGED <<disk, mem, slotVars, loopVars>>

SetTask(w, s) == Save(w, UpdateTask(mem[w], at[w], s))

NextTask(w) == at' = [at EXCEPT ![w] = @ + 1] /\ UNCHANGED <<passed, blocked>>

-----------------------------------------------------------------------------
(* The execution slot of the project.                                      *)

SeededSlotIgnored == TRUE

(* os.open(O_CREAT | O_EXCL) succeeds exactly when the file is not there.  *)
SlotFree == lease = None

(* run_execution_plan: a new run id, then the lease.                       *)
StartRun(w, r) ==
  /\ pc[w] = "idle"
  /\ disk[r].status = "none" /\ \A v \in Workers : run[v] # r
  /\ SlotFree
  /\ lease' = w
  /\ run' = [run EXCEPT ![w] = r]
  /\ Goto(w, "create")
  /\ UNCHANGED <<disk, mode, mem, approvals, faults, loopVars, gitVars>>

SeededNoFinally(w) ==
  /\ pc[w] = "release"
  /\ Forget(w)
  /\ UNCHANGED <<disk, lease, approvals, faults, gitVars>>

(* ExecutionLease.release compares run id and token before the unlink.     *)
ReleaseLease(w) ==
  /\ pc[w] = "release"
  /\ lease' = IF lease = w THEN None ELSE lease
  /\ Forget(w)
  /\ UNCHANGED <<disk, approvals, faults, gitVars>>

-----------------------------------------------------------------------------
(* The start of a new run.                                                 *)

(* create_run, the plan's digests and plan.json.                           *)
CreateRun(w) ==
  /\ pc[w] = "create"
  /\ Save(w, NewRecord)
  /\ Goto(w, "branch")
  /\ UNCHANGED <<slotVars, loopVars, gitVars>>

(* assert_clean, current_branch and create_agent_branch.                   *)
PrepareBranch(w) ==
  /\ pc[w] = "branch"
  /\ Clean
  /\ CreateAgentBranch(run[w])
  /\ mem' = [mem EXCEPT ![w].branch = AgentBranchFor(run[w])]
  /\ Goto(w, "bind")
  /\ UNCHANGED <<disk, slotVars, loopVars>>

BindBranch(w) ==
  /\ pc[w] = "bind"
  /\ Save(w, mem[w])
  /\ Goto(w, "append")
  /\ UNCHANGED <<slotVars, loopVars, gitVars>>

SeededAppendsPastEnd(w) ==
  /\ pc[w] = "append"
  /\ Save(w, AddTask(mem[w], at[w]))
  /\ Goto(w, IF at[w] > NTasks THEN "dispatch" ELSE "append")
  /\ at' = [at EXCEPT ![w] = IF @ > NTasks THEN 1 ELSE @ + 1]
  /\ UNCHANGED <<slotVars, passed, blocked, gitVars>>

AppendTask(w) ==
  /\ pc[w] = "append"
  /\ Save(w, AddTask(mem[w], at[w]))
  /\ Goto(w, IF at[w] = NTasks THEN "dispatch" ELSE "append")
  /\ at' = [at EXCEPT ![w] = IF @ = NTasks THEN 1 ELSE @ + 1]
  /\ UNCHANGED <<slotVars, passed, blocked, gitVars>>

(* assert_clean raises, before a branch is created and before an edit.     *)
RefuseDirtyTree(w) ==
  /\ pc[w] \in {"branch", "code"}
  /\ ~Clean
  /\ Leave(w)
  /\ UNCHANGED gitVars

-----------------------------------------------------------------------------
(* resume_execution_plan: the record is read before the lease is taken and *)
(* is not read again.                                                      *)

LoadForResume(w, r) ==
  /\ pc[w] = "idle"
  /\ disk[r].status \in {"pending", "running"}
  /\ mem' = [mem EXCEPT ![w] = disk[r]]
  /\ run' = [run EXCEPT ![w] = r]
  /\ mode' = [mode EXCEPT ![w] = "resume"]
  /\ Goto(w, "resume")
  /\ UNCHANGED <<disk, lease, approvals, faults, loopVars, gitVars>>

AcquireForResume(w) ==
  /\ pc[w] = "resume"
  /\ SlotFree
  /\ lease' = w
  /\ Goto(w, "setup")
  /\ UNCHANGED <<disk, mem, run, mode, approvals, faults, loopVars, gitVars>>

(* ExecutionLeaseError: the caller gives up, it does not wait.             *)
SlotTaken(w) ==
  /\ pc[w] = "resume"
  /\ ~SlotFree
  /\ Forget(w)
  /\ UNCHANGED <<disk, lease, approvals, faults, gitVars>>

(* No recorded branch, or assert_clean raises.                             *)
RefuseResume(w) ==
  /\ pc[w] = "setup"
  /\ mem[w].branch = None \/ ~Clean
  /\ Leave(w)
  /\ UNCHANGED gitVars

(* The branch is checked out before the number of tasks is compared.       *)
SetupResume(w) ==
  /\ pc[w] = "setup"
  /\ mem[w].branch # None /\ Clean
  /\ SwitchBranch(mem[w].branch)
  /\ Goto(w, IF TasksIn(mem[w], "absent") = {} THEN "dispatch" ELSE "release")
  /\ UNCHANGED <<disk, mem, slotVars, loopVars>>

-----------------------------------------------------------------------------
(* approve_waiting_task: no lease, a load and a save of the whole record.  *)

LoadForApproval(w, r, t) ==
  /\ pc[w] = "idle"
  /\ disk[r].task[t] = "waiting"
  /\ mem' = [mem EXCEPT ![w] = disk[r]]
  /\ run' = [run EXCEPT ![w] = r]
  /\ at' = [at EXCEPT ![w] = t]
  /\ Goto(w, "approve")
  /\ UNCHANGED <<disk, lease, mode, approvals, faults, passed, blocked, gitVars>>

SaveApproval(w) ==
  /\ pc[w] = "approve"
  /\ disk' = [disk EXCEPT ![run[w]] = ApproveTask(mem[w], at[w])]
  /\ approvals' = approvals \cup {<<run[w], at[w]>>}
  /\ Forget(w)
  /\ UNCHANGED <<lease, faults, gitVars>>

-----------------------------------------------------------------------------
(* The loop over validated.order.                                          *)

SeededStartedIsDone(m, t) == m.task[t] \in {"running", "passed"}

Done(m, t) == m.task[t] = "passed"

SkipPassed(w) ==
  /\ pc[w] = "dispatch"
  /\ at[w] \in Tasks /\ Done(mem[w], at[w])
  /\ NextTask(w)
  /\ UNCHANGED <<disk, pc, mem, slotVars, gitVars>>

EndOfPlan(w) ==
  /\ pc[w] = "dispatch"
  /\ at[w] = NTasks + 1
  /\ Goto(w, "finalize")
  /\ UNCHANGED <<disk, mem, slotVars, loopVars, gitVars>>

Refused(w) == mode[w] = "resume" /\ mem[w].task[at[w]] \in {"failed", "blocked", "skipped"}

(* "Cannot resume failed task": raised, not finalized.                     *)
RefuseFinishedTask(w) ==
  /\ pc[w] = "dispatch"
  /\ at[w] \in Tasks /\ Refused(w)
  /\ Leave(w)
  /\ UNCHANGED gitVars

MissingDeps(w) == {d \in Deps[at[w]] : ~Done(mem[w], d)}

ApprovalRequired(t) == t \in Risky \/ Kind[t] \in ApprovalOnlyKinds

SeededGateForgotten(m, t) == Kind[t] \in ApprovalOnlyKinds

(* A task of an approval-only kind has no executor: it waits again after   *)
(* every approval.                                                         *)
MustWait(m, t) ==
  \/ ApprovalRequired(t) /\ t \notin m.granted
  \/ Kind[t] \in ApprovalOnlyKinds

BlockOnMissing(w) ==
  /\ Save(w, MarkUnreached(mem[w], at[w], "blocked"))
  /\ IF mode[w] = "run"
       THEN /\ \E d \in MissingDeps(w) : blocked' = [blocked EXCEPT ![w] = {d}]
            /\ Goto(w, "mark")
            /\ UNCHANGED passed
       ELSE /\ passed' = [passed EXCEPT ![w] = FALSE]
            /\ Goto(w, "finalize")
            /\ UNCHANGED blocked
  /\ UNCHANGED at

DispatchTask(w) ==
  /\ pc[w] = "dispatch"
  /\ at[w] \in Tasks /\ ~Done(mem[w], at[w]) /\ ~Refused(w)
  /\ IF MissingDeps(w) # {} THEN BlockOnMissing(w)
     ELSE IF MustWait(mem[w], at[w])
       THEN /\ Save(w, MarkWaitingForApproval(mem[w], at[w]))
            /\ Goto(w, "release")
            /\ UNCHANGED loopVars
       ELSE /\ Goto(w, IF Kind[at[w]] \in AutoExecutableKinds THEN "code" ELSE "check")
            /\ UNCHANGED <<disk, mem, loopVars>>
  /\ UNCHANGED <<slotVars, gitVars>>

-----------------------------------------------------------------------------
(* execute_checkpointed_task and, inside it, execute_tracked_task.  The    *)
(* attempts of execute_task_with_retries are one edit of the tree here     *)
(* (TaskAttempts has them all); it need not have rolled back the tree when *)
(* it gives up: a baseline command that times out leaves its files.        *)

StartCode(w) ==
  /\ pc[w] = "code"
  /\ Clean
  /\ SetTask(w, "running")
  /\ Goto(w, "edit")
  /\ UNCHANGED <<slotVars, loopVars, gitVars>>

EditTree(w) ==
  /\ pc[w] = "edit"
  /\ WriteTree(<<run[w], at[w]>>)
  /\ Goto(w, "verify")
  /\ UNCHANGED <<disk, mem, slotVars, loopVars>>

RejectAttempts(w) ==
  /\ pc[w] \in {"edit", "verify"}
  /\ Rollback \/ UNCHANGED gitVars
  /\ Goto(w, "rejected")
  /\ UNCHANGED <<disk, mem, slotVars, loopVars>>

RecordRejection(w) ==
  /\ pc[w] = "rejected"
  /\ SetTask(w, "failed")
  /\ Goto(w, "undo")
  /\ UNCHANGED <<slotVars, loopVars, gitVars>>

(* execute_tracked_task records PASSED before any review or checkpoint.    *)
AcceptAttempt(w) ==
  /\ pc[w] = "verify"
  /\ SetTask(w, "passed")
  /\ Goto(w, "review")
  /\ UNCHANGED <<slotVars, loopVars, gitVars>>

AttemptRaises(w) ==
  /\ pc[w] \in {"edit", "verify"}
  /\ SetTask(w, "failed")
  /\ Goto(w, "reraise")
  /\ UNCHANGED <<slotVars, loopVars, gitVars>>

UndoAndRaise(w) ==
  /\ pc[w] = "reraise"
  /\ Rollback
  /\ Leave(w)

(* Security and optimization review with _set_attempts between them.       *)
PassReview(w) ==
  /\ pc[w] = "review"
  /\ Save(w, mem[w])
  /\ Goto(w, "commit")
  /\ UNCHANGED <<slotVars, loopVars, gitVars>>

(* A blocking finding, a fix that fails, or a reviewer that raises.  A fix *)
(* starts with assert_clean on the tree under review and always raises.    *)
FailReview(w) ==
  /\ pc[w] = "review"
  /\ SetTask(w, "failed")
  /\ Goto(w, "undo")
  /\ UNCHANGED <<slotVars, loopVars, gitVars>>

CommitTask(w) ==
  /\ pc[w] = "commit"
  /\ Checkpoint
  /\ Goto(w, "dispatch")
  /\ NextTask(w)
  /\ UNCHANGED <<disk, mem, slotVars>>

CommitFails(w) ==
  /\ pc[w] = "commit"
  /\ SetTask(w, "failed")
  /\ Goto(w, "undo")
  /\ UNCHANGED <<slotVars, loopVars, gitVars>>

(* The task has failed: roll back, then _mark_remaining_after_failure.     *)
UndoTask(w) ==
  /\ pc[w] = "undo"
  /\ Rollback
  /\ blocked' = [blocked EXCEPT ![w] = {at[w]}]
  /\ Goto(w, "mark")
  /\ UNCHANGED <<disk, mem, slotVars, at, passed>>

-----------------------------------------------------------------------------
(* _run_explicit_task: no assert_clean before it, no rollback after it.    *)

StartCheck(w) ==
  /\ pc[w] = "check"
  /\ SetTask(w, "running")
  /\ Goto(w, "checking")
  /\ UNCHANGED <<slotVars, loopVars, gitVars>>

(* The trusted test command may leave files in the tree.                   *)
RunCheck(w) ==
  /\ pc[w] = "checking"
  /\ \/ UNCHANGED gitVars
     \/ Kind[at[w]] = "test" /\ WriteTree(<<run[w], at[w]>>)
  /\ Save(w, mem[w])
  /\ Goto(w, "checked")
  /\ UNCHANGED <<slotVars, loopVars>>

CheckPasses(w) ==
  /\ pc[w] = "checked"
  /\ SetTask(w, "passed")
  /\ Goto(w, "dispatch")
  /\ NextTask(w)
  /\ UNCHANGED <<slotVars, gitVars>>

CheckFails(w) ==
  /\ pc[w] = "checked"
  /\ SetTask(w, "failed")
  /\ blocked' = [blocked EXCEPT ![w] = {at[w]}]
  /\ Goto(w, "mark")
  /\ UNCHANGED <<slotVars, at, passed, gitVars>>

-----------------------------------------------------------------------------
(* _mark_remaining_after_failure and finalize_plan_run.                    *)

SeededDirectOnly(w, t) == at[w] \in Deps[t]

DependsOnBlocked(w, t) == Deps[t] \cap blocked[w] # {}

MarkTask(w, t) ==
  \/ /\ DependsOnBlocked(w, t)
     /\ Save(w, MarkUnreached(mem[w], t, "blocked"))
     /\ blocked' = [blocked EXCEPT ![w] = @ \cup {t}]
  \/ /\ ~DependsOnBlocked(w, t)
     /\ Save(w, MarkUnreached(mem[w], t, "skipped"))
     /\ UNCHANGED blocked

Unmarked(w) == TasksIn(mem[w], "pending") \ blocked[w]

(* One iteration over the pending tasks, in the order of the plan.         *)
MarkNext(w) ==
  /\ pc[w] = "mark"
  /\ \E t \in Unmarked(w) : (\A u \in Unmarked(w) : t <= u) /\ MarkTask(w, t)
  /\ UNCHANGED <<pc, slotVars, at, passed, gitVars>>

MarkDone(w) ==
  /\ pc[w] = "mark"
  /\ Unmarked(w) = {}
  /\ passed' = [passed EXCEPT ![w] = FALSE]
  /\ Goto(w, "finalize")
  /\ UNCHANGED <<disk, mem, slotVars, at, blocked, gitVars>>

BeginFinalize(w) ==
  /\ pc[w] = "finalize"
  /\ Save(w, [mem[w] EXCEPT !.status = "running"])
  /\ Goto(w, "finalizing")
  /\ UNCHANGED <<slotVars, loopVars, gitVars>>

(* A finalizer that raises fails the run, whatever its tasks did.  passed  *)
(* implies that every task was counted: the loop ended without a break.    *)
EndFinalize(w) ==
  /\ pc[w] = "finalizing"
  /\ \E finalized \in BOOLEAN : Save(w, FinishRun(mem[w], passed[w] /\ finalized))
  /\ Goto(w, "release")
  /\ UNCHANGED <<slotVars, loopVars, gitVars>>

-----------------------------------------------------------------------------
(* The environment.                                                        *)

(* KeyboardInterrupt: the lease is released by finally, the tree stays.    *)
Interrupt(w) ==
  /\ pc[w] # "idle"
  /\ faults < MaxFaults
  /\ faults' = faults + 1
  /\ lease' = IF lease = w THEN None ELSE lease
  /\ Forget(w)
  /\ UNCHANGED <<disk, approvals, gitVars>>

(* SIGKILL or a power cut: nothing ever removes the lease file.            *)
Kill(w) ==
  /\ pc[w] \in Executing
  /\ faults < MaxFaults
  /\ faults' = faults + 1
  /\ lease' = IF lease = w THEN Orphan ELSE lease
  /\ Forget(w)
  /\ UNCHANGED <<disk, approvals, gitVars>>

(* Between executions the user cleans the tree and changes branches.       *)
UserCleansTree ==
  /\ lease \notin Workers
  /\ dirty # {} /\ dirty' = {}
  /\ UNCHANGED <<runVars, head, log>>

UserSwitchesTo(b) ==
  /\ lease \notin Workers
  /\ Clean /\ b # head
  /\ b = Main \/ \E r \in Runs : disk[r].branch = b
  /\ head' = b
  /\ UNCHANGED <<runVars, log, dirty>>

-----------------------------------------------------------------------------
(* The steps a worker takes by itself once it has been called.             *)
Step(w) ==
  \/ CreateRun(w) \/ PrepareBranch(w) \/ BindBranch(w) \/ AppendTask(w) \/ RefuseDirtyTree(w)
  \/ AcquireForResume(w) \/ SlotTaken(w) \/ RefuseResume(w) \/ SetupResume(w)
  \/ SaveApproval(w)
  \/ SkipPassed(w) \/ EndOfPlan(w) \/ RefuseFinishedTask(w) \/ DispatchTask(w)
  \/ StartCode(w) \/ EditTree(w) \/ RejectAttempts(w) \/ RecordRejection(w)
  \/ AcceptAttempt(w) \/ AttemptRaises(w) \/ UndoAndRaise(w)
  \/ PassReview(w) \/ FailReview(w) \/ CommitTask(w) \/ CommitFails(w) \/ UndoTask(w)
  \/ StartCheck(w) \/ RunCheck(w) \/ CheckPasses(w) \/ CheckFails(w)
  \/ MarkNext(w) \/ MarkDone(w) \/ BeginFinalize(w) \/ EndFinalize(w)
  \/ ReleaseLease(w)

Call(w) ==
  \/ \E r \in Runs : StartRun(w, r) \/ LoadForResume(w, r)
  \/ \E r \in Runs, t \in Tasks : LoadForApproval(w, r, t)

Fault(w) == Interrupt(w) \/ Kill(w)

User == UserCleansTree \/ \E b \in Branches : UserSwitchesTo(b)

Next == User \/ \E w \in Workers : Step(w) \/ Call(w) \/ Fault(w)

Spec == Init /\ [][Next]_vars

(* Every model, git and test call has a timeout or ends: a worker that was *)
(* called keeps moving until it returns.                                   *)
FairSpec == Spec /\ \A w \in Workers : WF_vars(Step(w))
=============================================================================
