--------------------------- MODULE RunProperties ----------------------------
(***************************************************************************)
(* What the runs of a project are expected to satisfy.                     *)
(***************************************************************************)
EXTENDS RunLifecycle

(* The execution slot excludes: two workers never execute plans in the     *)
(* workspace at once (ExecutionLease, "Another run owns this project's     *)
(* workspace execution slot.").                                            *)
AtMostOneExecution ==
  \A v, w \in Workers : pc[v] \in Executing /\ pc[w] \in Executing => v = w

(* From the moment a plan's tasks are looked at until the lease is         *)
(* released the checked-out branch is the agent branch of the record in    *)
(* memory, and no agent work is ever committed on the user's branch        *)
(* (create_agent_branch, switch_branch, checkpoint).                       *)
WorksOnAgentBranch ==
  /\ log[Main] = {}
  /\ \A w \in Workers : pc[w] \in LoopSteps => head = mem[w].branch /\ head # Main

(* What is verified, reviewed and committed for a task is the work of that *)
(* task alone: nothing an earlier task, another run or an interrupted      *)
(* execution left in the tree gets into its checkpoint (assert_clean,      *)
(* rollback, git add -A).                                                  *)
TreeIsOwnWork ==
  \A w \in Workers :
    /\ pc[w] = "edit" => Clean
    /\ pc[w] \in {"verify", "review", "commit"} => dirty = {<<run[w], at[w]>>}

(* A task that needs approval is executed, and its work is in the tree or  *)
(* in a commit, only if a human approved it in that run, whatever was      *)
(* loaded, overwritten and resumed since (_approval_required,              *)
(* approval_granted).                                                      *)
GateHeld ==
  /\ \A r \in Runs, t \in Tasks :
       ApprovalRequired(t) /\ disk[r].task[t] \in {"running", "passed", "failed"}
         => <<r, t>> \in approvals
  /\ \A work \in dirty \cup UNION {log[b] : b \in Branches} :
       ApprovalRequired(work[2]) => work \in approvals

(* The tasks a task depends on, directly or not.                           *)
Upstream[t \in Tasks] == Deps[t] \cup UNION {Upstream[d] : d \in Deps[t]}

(* When a plan has failed, a task that was not reached is BLOCKED exactly  *)
(* if it depends on the failed task, directly or through others, and       *)
(* SKIPPED otherwise (_mark_remaining_after_failure makes one pass).       *)
UnreachedExplained ==
  \A w \in Workers :
    pc[w] \in {"finalize", "finalizing"} /\ ~passed[w] =>
      \A t \in Tasks \ {at[w]} :
        /\ mem[w].task[t] \in {"passed", "blocked", "skipped"}
        /\ mem[w].task[t] = "blocked" <=> at[w] \in Upstream[t]

(* When the loop considers a task, everything before it in the order has   *)
(* passed, so no dependency is missing (missing_dependencies is empty: its *)
(* branch is a defence that no history reaches).                           *)
DependenciesDone ==
  \A w \in Workers :
    pc[w] \in TaskSteps \cup {"dispatch"} =>
      \A t \in Tasks : t < at[w] => mem[w].task[t] = "passed"

(* Every step keeps the promise of GitIsolation to the repository's owner. *)
Isolation == INSTANCE GitIsolation WITH slot <- lease
IsolationSpec == Isolation!Spec

(* A code or docs task recorded PASSED in a run nobody executes has its    *)
(* work committed on the run's branch ("Successful checkpoint olmadan task *)
(* PASS sayılmaz").                                                        *)
PassedHasCheckpoint ==
  \A r \in Runs, t \in Tasks :
    /\ disk[r].task[t] = "passed" /\ Kind[t] \in AutoExecutableKinds
    /\ \A w \in Workers : run[w] # r
    => <<r, t>> \in log[disk[r].branch]

(* A task is edited on top of the committed work of what it depends on.    *)
BuildsOnCheckpoints ==
  \A w \in Workers : pc[w] = "edit" =>
    \A d \in Deps[at[w]] : Kind[d] \in AutoExecutableKinds => <<run[w], d>> \in log[head]

(* An execution that is not killed ends and gives the slot back, whatever  *)
(* fails on the way (the finally clauses of run_execution_plan and         *)
(* resume_execution_plan, and the loops between them).                     *)
SlotReleased == \A w \in Workers : lease = w ~> lease # w

(* resume_execution_plan: "Run must be approved and pending, or be an      *)
(* interrupted running run, before it can be resumed."                     *)
ResumesOnlyResumable ==
  \A w \in Workers : pc[w] = "setup" => disk[run[w]].status \in {"pending", "running"}
=============================================================================
