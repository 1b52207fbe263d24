# Workestra in TLA+

Workestra (`local_agent_orchestrator`) executes an approved plan of small tasks in a
git repository with models that run on the local machine. This directory holds TLA+ models
of it, translated from the source under `src/local_agent_orchestrator/`, TLC runs on small
instances, and TLAPS proofs. Line numbers of everything below are in `PROJECT.json`.

## 1. Inventory

| Part | State it keeps | Operations | Correct when | Status |
|---|---|---|---|---|
| Run state store (`services/run_state.py`, `models/task.py`) | `runs/<id>/state.json`, written whole by an atomic replace; `runs/.execution.lock` | create, add task, wait, approve, mark, update, finish; acquire and release the lease | one execution per project; a gate opens only by approval | modelled |
| Git workspace (`services/git_workspace.py`) | current branch, commits, working tree of the target repository | assert clean, create and switch agent branch, checkpoint, rollback | agent work only on agent branches, one task per commit | modelled |
| Plan execution (`services/plan_runner.py`) | its `RunState` object and the position in `validated.order` | run, dispatch, wait, mark blocked and skipped, finalize | order, gates, an explanation for each task not reached, the lease given back | modelled |
| Approval and resume (`services/resume.py`) | a record loaded before the lease is taken | approve a waiting task, resume a run | resumes only what may be resumed, where its work is | modelled |
| Checkpointed and tracked tasks (`checkpointed_executor.py`, `tracked_executor.py`) | none of its own | execute, record, review, checkpoint, rollback | PASSED means committed | modelled |
| Task attempts (`task_executor.py`, `scope_review.py`) | budgets and flags of one call, the working tree | bootstrap, baseline, fresh attempts, scope repairs, diagnosis, fallback | bounded, nothing left behind, nothing accepted unreviewed | modelled |
| Explicit tasks (`plan_task_executor.py`) | none | test command, review | no leftover enters a commit | partly |
| Plan validation (`plan_validation.py`) | none | check a plan, order its tasks | accepts the executable plans and no other, dependencies first | modelled |
| Plan compilation (`control_application.py`) | plan records, numbered compiled revisions | import, view, compile, start a run, create the project | revisions immutable, only active ones run, no attempt and no good revision lost | modelled |
| Model server (`adapters/llama_server.py`, `resource_guard.py`) | flock on a file that names a pid, a child process, free memory | start, clean up after a dead owner, chat, stop, wait for memory | one model at a time, only an abandoned model of ours is stopped, the lock is given back | modelled |
| Project registry (`project_registry.py`, `project_bootstrap.py`) | one JSON file, directories of new projects | register, update, delete, bootstrap | no settled project lost, unique ids, unique workspaces for one call at a time, a bootstrap is all or nothing | modelled |
| Run history (`run_history.py`) | run directories and `.archive` | archive, delete | only a deletion that had it open changes an archived run, a removed run stays removed | modelled |
| Control application and API (`control_application.py`, `control_api/server.py`) | pool of 4 threads, its queue, a thread per request | change the index, preflight, submit, approve, resume, clean up | executions share a workspace only where the index lets them, every accepted job ends | partly (no reads, routing, event stream) |
| Verification triage (`verification_triage.py`) | none | summarise and compare test runs, guard a baseline | nothing passes with a failure that is new | modelled |
| Task scope, edit operations, patches (`task_scope.py`, `edit_operations.py`, `diff_patch.py`) | the working tree for one call | match paths, validate and apply a batch | all edits of a batch or none | partly |
| Agents, prompts, repository explorer, analytics, parsers, command lines, web panel | logs and reports no transition reads | | | not modelled |

How they interact. The control server or a command line calls plan execution or resume in
a thread. Both take the lease file of the project with an exclusive create, then load and
save `state.json` and change the repository. A `code` or `docs` task goes through
`execute_checkpointed_task`, which calls `execute_tracked_task`, which calls
`execute_task_with_retries`, which calls the models; then come reviews and the checkpoint.
`approve_waiting_task` loads and saves the record without the lease. Readers (history, API)
look at `state.json` at any time. Nothing else synchronises.

The hard behaviours are the interleavings of callers that hold a record across the lease,
interrupts and kills between two saves, exceptions on any level with `finally` and
rollback below them, files left by test commands, and the retry loop with its two budgets.
`PROJECT.json` lists each as a hazard at its line, with the properties that cover it.

## 2. Modules

```
RunState  <-  GitWorkspace  <-  RunLifecycle  <-  RunProperties  <-  MCRunLifecycle
                                     |                 |   \-  RunLifecycle_proofs <- RunSafety_proofs
                                     |                 \-- INSTANCE GitIsolation
TaskAttempts  <-  AttemptProperties  <-  TaskAttempts_proofs
PlanStore     <-  PlanProperties     <-  PlanStore_proofs
ModelServer   <-  ModelProperties    <-  ModelServer_proofs
                   \-- INSTANCE ModelSlot
ProjectIndex  <-  ProjectRegistry    <-  RegistryProperties  <-  ProjectRegistry_proofs
      ^-------- ControlPlane         <-  ControlProperties   <-  ControlPlane_proofs
                                                             ^-- MCControlPlane
PlanValidation, VerificationTriage, TaskScope <- EditBatch  <-  Decisions  <-  DecisionProperties
                                                                          ^-- Decision_proofs
```

**RunState** is the record of a run and the pure part of each mutator: one operator per
method of `RunStateManager`. A task is its position in the validated order, which is the
order of `state.tasks`; `"absent"` is a task not appended yet. Texts, digests, attempt
counts and times are left out, no transition reads them.

**GitWorkspace** is the repository. Content is named by the task of the run that produced
it: `log[b]` is what is committed on branch `b`, `dirty` what is in the tree and not
committed. `head` is the branch checked out.

**RunLifecycle** composes them. Every worker is one caller with a program counter
`pc[w]`, its own `RunState` object `mem[w]`, and its loop variables. Each save of
`state.json` and each git command is one atomic step (`os.replace` is atomic, git holds its
index lock), and everything between two of them can interleave with other workers. The
labels are the places between such steps:

| Labels | Code |
|---|---|
| `create`, `branch`, `bind`, `append` | `_run_execution_plan` up to its loop |
| `resume`, `setup` | `resume_execution_plan` before and after it takes the lease |
| `approve` | `approve_waiting_task` between load and save |
| `dispatch` | head of the loop over `validated.order` |
| `code`, `edit`, `verify`, `review`, `commit`, `rejected`, `undo`, `reraise` | `execute_checkpointed_task` |
| `check`, `checking`, `checked` | `_run_explicit_task` |
| `mark` | `_mark_remaining_after_failure` |
| `finalize`, `finalizing`, `release` | `finalize_plan_run`, the `finally` clause |

Faults are `Interrupt` (KeyboardInterrupt: `finally` clauses run) and `Kill` (nothing
runs, the lease file stays as `Orphan`). `User...` is the owner of the repository, who
acts when no execution holds the slot. `approvals` and `faults` are history variables.

**GitIsolation** is the abstract promise to the owner of the repository: one holder of the
slot, changes only by the holder, work only on agent branches, commits of one task's work,
discards of all of it. `RunProperties!IsolationSpec` states that RunLifecycle implements
it, with the lease as the slot.

**TaskAttempts** is `execute_task_with_retries`. The tree is the set of scope classes of
its changed files: `primary`, `grey` (discouraged or unexpected) and `forbidden`. What a
model answers, a test reports or a reviewer decides is a choice. `pc = "loop"` is the head
of the `while`, `"exhausted"` the code after it. RunLifecycle sees the whole call as
`EditTree` followed by `AcceptAttempt`, `RejectAttempts` or `AttemptRaises`.
`RejectAttempts` may leave the tree as it is, because a baseline that times out does
(`BaselineFails`).

**PlanStore** is one stored plan of `ControlApplication`: the record file, the numbered
revision files, the Markdown source, and the calls of several threads of the control server.
A call keeps its copy of the record in `mem[c]` from a `_load_plan` to the save that follows.
Every call begins with `_ensure_compiled_revision` (`ensure`, `repair`), which a view runs
too and which may save the record, and goes on at the label of its operation (`op[c]`):

| Labels | Code |
|---|---|
| `view` | `_plan_view` of `get_plan` and `list_plans` |
| `compile`, `compiling` | `compile_plan` before and while the model compiles |
| `number`, `link`, `save` | its success: `_next_compiled_revision`, `_write_compiled_revision`, the save |
| `ensure` with `op[c] = "fail"`, `fail`, `save` | its failure, which ensures the re-read record again |
| `start`, `read` | `start_plan_run` |
| `create`, `eligible`, `bootstrap`, `rebind`, `bind` | `create_project_from_plan` with `project_creation_eligibility` |

The environment damages revisions (a schema change), edits the source and stops calls
(`Abort`, which also stands for refusals that change nothing: a foreign project, a verifier
that is not ready). `returned` and `active` are history variables, and `width`, chosen at the
start, is how many calls may be active at once: with it one run checks what any
interleaving keeps and what only a single caller can be promised.

**ModelServer** is the local model and its lock: owners (processes that use a
`LlamaServer` as a context manager), the file that is both flocked and names the last model
(`meta`), a process table in which pids are given out again, and the creation time that
tells a process from a later one with the same pid. An owner acquires the lock by polling,
examines what the file names and stops it if it is the same process and still a model,
passes the resource guard, spawns, records, loads, answers, stops, waits for memory.
`Crash` is the death of an owner at any step: the kernel gives its flock back and leaves
its model. Processes that are not ours come and go; a model may fail to die.

**ModelSlot** is what other parts rely on: turns in one slot, a model launched only by
the holder and only when none is alive. `ModelProperties!SlotSpec` states the refinement.

**ProjectIndex** is what the index of projects checks, on one list of entries.
**ProjectRegistry** is how its callers get that list: every reading and the replacement of
the file are steps of their own, and a bootstrap creates directory, files, repository,
lock file and commit one after another, each of which may fail, in a directory others may
be creating too. `width` is as in PlanStore; `given` and `settled` are history.

**ControlPlane** composes the index, the pool, the lease of each project, the run
directories and the cleanup. A request that starts or resumes checks and submits (`Post...`), a
pool thread looks everything up again and executes; of an execution only what it publishes is
left, its steps are RunLifecycle's. `LogEvent` is the trajectory, which creates the directory of
its run. Outside is a command line that holds the lease of a project and may never give it back.

The requests that change the index or clean up a run are carried out by `Clients`, the request
threads of the HTTP server, and nothing locks them against each other:

| Labels of `at[c]` | Code |
|---|---|
| `check`, `read`, `save` | `update`: lines 149, 150-152, 171, `_save`; `register`, with which a bootstrap ends, has one reading and `save` |
| `drop`, `save` | `delete` of a project: lines 176, 177 |
| `archive`, `rename` | `RunHistory.archive` after its checks, and before `source.rename` |
| `delete`, `unlink`, `rest`, `rmdir` | `RunHistory.delete` after its checks; `rmtree` with the directory open; its last `rmdir` |

`place[c]` is where the directory is that `rmtree` of `c` has open: it unlinks relative to
the descriptor, so a rename takes the deletion along into the archive. The contents of a run
directory are the status in its `state.json`, `"bare"` (other files only), `"empty"` or
`"gone"`. Two history variables keep what no file keeps: `raced` has the entries of updates
that were overtaken (another save took their workspace after their check), and `torn` the
directories that a deletion has had open. `left` is the budget of a behaviour.

**PlanValidation**, **VerificationTriage**, **TaskScope** and **EditBatch** are pure: one
operator per function of the code. **Decisions** asks them every question of a bounded
set, and **DecisionProperties** compares the answers with definitions of another kind: the
least closed set of prerequisites and all other orders for `validate_plan`, set inclusion for the
comparison of failures, and for a batch of edits its operations carried out one after
another on the tree as each finds it.

**RunProperties**, **AttemptProperties** and the other modules of that name state the
properties; definitions named `Seeded...` are the one after them with a bug a plausible
edit would introduce.

## 3. Runs

| Run | Instance | Shows |
|---|---|---|
| `lifecycle_faults` | 2 workers, 2 runs, plan of a test task and a risky document that needs it, 1 fault; symmetry on workers and runs; about 660,000 states | types, one execution at a time, agent branch, clean provenance of the tree, approval gates, order of tasks, refinement of GitIsolation |
| `lifecycle_serial` | 1 worker, 2 runs, 5 tasks of 4 kinds, no fault; about 12,000 states | PASSED tasks are committed, tasks build on what they depend on, each unreached task is explained, the slot is released |
| `attempts` | 3 fresh attempts, 2 repairs as in the code, tests that leave grey and forbidden files; about 860 states | budgets, rollback between attempts, the given tree, review before acceptance, hard failures, termination |
| `plan_store` | 2 clients, 2 compilations, 2 sources, 1 or 2 calls at once; symmetry on clients and sources; about 1,680,000 states | types, immutable revisions, names only of written ones, invalidation only of damaged ones, only active ones run; one call at a time: no attempt and no good revision lost |
| `model_server` | 2 owners, 2 pids that 4 processes get one after another, 2 deaths of owners; about 216,000 states | types, one model at a time, only abandoned models of ours are signalled, an abandoned model is on record, refinement of ModelSlot, the lock is given back |
| `registry` | 2 callers, 2 ids, 2 directories that are missing, empty or a user's repository; 1 or 2 calls at once; symmetry on callers and directories; about 2,000,000 states | unique ids, settled entries survive every save, nothing of a user's is lost; one call at a time: unique workspaces, a bootstrap is all or nothing |
| `control_plane` | 2 pool threads, 2 request threads, 2 projects, 2 workspaces; 2 jobs and 2 changes of the index, or 2 jobs and a cleanup, or a job with 2 or 3 cleanups; about 937,000 states | executions share a workspace only after a move, a deletion or an overtaken update, only a deletion that had it open changes an archived run, every accepted job ends |
| `decisions` | all graphs of 4 tasks of kinds code and test and of 3 tasks of any kind, 5,184 odd plans; 9 commands and all pairs of small results; all batches of one or two of 30 edits on 25 trees; 326,032 inputs | accepted plans and their order, no new failure passes, batches are all or nothing |
| `doc_checkpoint` | violated: `PassedHasCheckpoint` | an interrupt between the save of PASSED and the commit; the resumed run skips the task |
| `doc_resume` | violated: `ResumesOnlyResumable` | resume does not look again after it has the lease |
| `doc_compile` | violated: `SuccessNotOverwritten` | a failed compilation saves over a success of another one |
| `doc_history` | violated: `RemovedStaysRemoved` | a run is removed while it executes, and its trajectory brings the directory back |

Bounds. Two workers and two runs are the smallest instance in which a stale record, a second
start, an approval during an execution and a shared branch occur; a third worker could only
be refused by the lease or repeat what the second does to a record. A plan of two tasks has
one whose leftovers can reach the other and one gate. One fault suffices for a record or a
tree left in the middle; the slot it leaves is taken up by the other worker, so a second
fault starts from a state the first already leads to. These are arguments of plausibility,
which is why the properties that matter most are also proved for all values. The five tasks
of `lifecycle_serial` have a direct dependent, two transitive ones and an independent task
after the first; without faults and with one worker the states are few and no symmetry is
used, as its run checks liveness. A third fresh attempt is the default `retry_limit = 2`,
and `MAX_SCOPE_REPAIRS = 2`. Two clients and two compilations (`MaxAttempts`) are the least
with a stale copy, two revisions, a number chosen twice and a success beside a failure;
views, starts and creations are not bounded. Two pids and four processes let a pid be given
to another process while a stale file still names it, with the model of the other owner
beside it, and two deaths are a death of each owner or one whose cleanup is cut short. Two
callers of the registry, two ids and two directories are the least for a lost update, a
duplicate and two bootstraps of one directory. In `control_plane` two threads, projects and
jobs are the least for two executions, and two workspaces for a move; the pool has four
threads in the code, but more than two only add executions that meet the same leases.
`Budgets` bounds the jobs (`MaxJobs`), the changes of the index and the cleanups of one
behaviour, each chosen so that its case happens: two changes of the index between which one
overtakes the other, an archive and a deletion of one run at once, and three cleanups of it,
of which the last meets what the others left. Approvals and command lines are unbounded.
`Indexes` are those a behaviour may begin with, up to the names of projects, so that no
change is spent on building one. A third request thread is needed to put another directory
in the place of an archived run that was emptied; that case is left to the theorem. Plans of
four tasks contain every shape of a chain, a diamond and a cycle beside an independent task;
texts of up to three characters hold no, one, two and overlapping occurrences, and the three
spellings of two paths give one path twice.

Deadlock is not checked where the system may stop: RunLifecycle, when all runs have ended or
a kill has left the lease; TaskAttempts, where a call ends; Decisions, where the one question
is answered. It is checked everywhere else: a call of the registry or of PlanStore never
waits, an owner of the model lock polls it, and a job never waits for a lease.

Fairness. `FairSpec` of RunLifecycle is weak fairness of each worker's own steps: git and
test commands, model starts and model calls have timeouts, and every loop has a fixed
range. Nothing is assumed of callers, faults or the user. `SlotReleased` needs it and holds
without faults; after a `Kill` it is false, since nothing reads the age or owner of the
lease. `FairSpec` of TaskAttempts is weak fairness of `Next` for the same reason; its
termination follows from the two budgets and not from any fairness among the choices.
`FairSpec` of ModelServer is weak fairness of the steps of each owner that do not begin a new
turn, which have timeouts in the code. In ControlPlane it is weak fairness of the steps of
each pool thread: an execution ends (`SlotReleased`, with the timeouts above), and nothing is
assumed of requests, cleanup or command lines: a request may stop at any of its steps.

## 4. Proofs

`RunLifecycle_proofs` holds for every set of workers and runs, every plan that satisfies
`PlanAssumption`, and every number of faults:

* `TypeCorrect`: `Spec => []TypeOK`. It includes two facts that are no mere types and that
  the later proofs use: a worker that is idle has no run, and the position is a task except
  at the labels that are reached past the end of the plan.
* `MutualExclusion`: `Spec => []AtMostOneExecution`. The exclusion alone is not inductive:
  nothing in it says that the one who executes has the file. `SlotInv` says that a worker is
  at an executing label exactly if the lease is its own, which the guard `SlotFree` and the
  two ways of losing the lease preserve.
* `AgentBranchIsolation`: `Spec => []WorksOnAgentBranch`. `BranchInv` adds the label between
  the creation of the branch and its being recorded (`bind`), where only `head` knows the
  branch, and that every branch in a record, on disk or in memory, is an agent branch or
  none. It rests on `SlotInv`: others that could move `head` are outside.

It goes on to what an execution does to the tree and to the gates. `TaskInv` adds three parts
to `SlotInv` and `BranchInv`, each a clause per group of labels:

* `TreeInv`: the tree is clean when a task begins to edit, and at `verify`, `review` and
  `commit` holds the work of the task at hand and nothing else. `OwnWork` follows.
* `GateInv`: every copy of every record, on disk or in a worker's memory, grants only what
  was approved, and no task in it that needs approval has begun without it. It must speak of
  copies, since a worker may save one it loaded long before. `GatesHold` follows for records,
  tree and branches.
* `DoneInv`: every task before the position has passed. `LoopInOrder` follows with
  `PlanAssumption`, which puts dependencies first.

`RunSafety_proofs` rests on these.

`ImplementsIsolation` is `Spec => IsolationSpec`: under the mapping of `RunProperties` each
action is a step of GitIsolation or a stutter. A checkpoint is one task's work by `TreeInv`,
and on the holder's agent branch by `SlotInv` and `BranchInv`.

`FailureExplained` is `Spec => []UnreachedExplained`. The code makes one pass over the tasks
after the failed one and looks at direct dependencies alone; that this gives the transitive
answer is because the order puts dependencies first. `UpstreamEquation` shows that the function
`Upstream` is defined (its recursion follows the order), and `ShapeInv` says of every record
what the pass relies on and what it has marked up to its position.

`CheckpointsKept` and `CheckpointsBuiltUpon` prove `PassedHasCheckpoint` and
`BuildsOnCheckpoints` from `Spec /\ []Undisturbed`: nothing has been interrupted or killed, and
no call begins before the last one has returned. Runs follow one another in any number, on one
branch or several, and the owner acts between them. Both halves of the premise are needed: a
kill between the save of PASSED and the commit is the run `doc_checkpoint`, and with two
workers one of them can resume from a copy of a record that has moved on. `SerialInv` is the
invariant: `SyncInv` (the copy in memory is the record on disk),
`FreshInv` (the branch a run may yet create is neither checked out nor in a record) and
`CommittedInv` (what has passed in a record is in the log, but for the task between its save
and its commit).

`TaskAttempts_proofs` holds for all budgets and all litter of test commands. Its inductive
invariant `IInv` has six parts besides `TypeOK`: `NotStarted` (before the loop nothing is
counted), `RepairsPaid` (a repair that is asked for is counted in `repairs` before `used`
grows), `OnlyRepairsKeepWork` (between attempts only a pending repair has work in the
tree), `GivenTreeKept`, `HardEndsLoop` and `ForbiddenFiltered` (what is verified or reviewed
has no forbidden edit). From it follow `AttemptTypes`, `AttemptBudget`, `AttemptRollback`,
`AttemptKeepsGivenTree` and the action properties `AttemptReviewed` and
`AttemptHardFailure`.

`PlanStore_proofs` holds for any finite set of clients, any sources and any number of
compilations. `NamesWrittenRevisions`, `InvalidatedAreDamaged` and `RunsWereActive` speak
of the record or of one label, and their induction needs what is carried between labels:
`NamesKnown` and `DamageKnown` say it of every copy in memory, since any copy may be saved
later, `ActiveKnown` follows the revision a call takes for the current one through its
repair, and `JobKnown` says that whoever compiles has its attempt. `PlanRevisionsImmutable`
rests on the exclusive `os.link` alone. `PlanAttempts` and `PlanLastGood` are for one call at
a time: `OneInv` says that with `width = 1` one call is active, and `CopiesInv` that the copy
it may still save has every attempt and the binding of the record and no older revision.

`ModelServer_proofs` holds for any owners, pids and number of processes. `ModelsRunSequentially`
needs to know that whoever holds the lock without having spawned is alone: `LockInv` ties
the labels to the lock, `OneModel` says where a living model may be relative to it, and
`ChildInv` that an owner's child is the process it recorded. `OnlyStaleReaped` rests on
`BirthInv` and `IdInv`: no two processes share pid and creation time, so the comparison in
the code identifies. `StraysAreKnown` says that what a dead owner leaves is in the file, but for
a death between Popen and the write and for a cleanup that found another executable and cleared
the file (`llama_server.py:232`), and `ImplementsSlot` that the server implements ModelSlot.

`ControlPlane_proofs` holds for any numbers of threads, clients, projects, workspaces and
requests. Its invariant has, besides types: a thread at work has a job (`JobInv`), an
execution holds the lease of its project (`LeaseInv`), and what a request is about at each
label (`RequestInv`). `IndexInv` says that the file and every list about to be saved are
`Sound`: each id once, and each workspace once but for entries in `raced`; this is inductive
because an update that has passed its check either still has its workspace free or is in
`raced`. From these `ControlWorkspaces`: of two executions in one workspace, the project of
one has left it in the index, or came into it by an overtaken update. `TornInv` says that a
deletion has left its mark on the directory it has open and on every directory that is
empty. From it `ControlArchive`: an archived run changes only by a deletion that had it
open, and is replaced only when that has emptied it.

`ProjectRegistry_proofs` holds for any finite set of callers, ids and directories. Ids are
unique in the file because they are in every list that is about to be saved (`IdsInv`).
`RegistrySettled` is about what callers read before others saved (`SettledInv`), and
`RegistryBootstrap` needs that a bootstrap works only where a user has nothing (`GivenInv`,
`RootsInv`) and that what it has made is its own (`WorkInv`, `MadeInv`). `OneInv` counts the active
calls where `width` is 1, and is why the callers must be finite.

`Decision_proofs` is about the functions, and about every argument they can have. A loop of the
code is a function over the number of its turns; that such a function is defined is
`LoopExists`, and what holds at every turn is shown with `SetInduction`, which speaks of the
set of the turns at which it holds.

* `EveryPlanDecided`: for a plan of any length, any ids and any lists of dependencies the
  verdict is right. The search for a code task ends because each turn lowers a weight
  (`ExamineCosts`), and finds what there is because the ids seen and the list pending
  together are closed (`Searching`). A degree of the sort is the number of entries not yet in the
  order (`Sorting`), so the order takes the first task that is ready each time
  (`FirstReady`). Hence it respects dependencies, shows that there is no cycle if it is
  complete (`OrderedIsAcyclic`), and is the first of its kind (`OrderIsFirst`). If it stops early,
  the least set of prerequisites of a task that is left belongs to a task on a cycle
  (`StuckIsCyclic`).
* `EveryRegressionStopped`: for any command and any two results, a failing run is let through only
  against a failing one that named all that fails.
* `EveryBatchAllOrNothing`: for any tree, and any batch with paths in the tree and texts to
  look for that are not empty, which the schema demands. Contents are computed from the tree
  before the batch; that the operations one after another see the same is because no
  path of a batch is resolved to twice.

`AcceptedIsExecutable` joins two components: the order of an accepted plan, with its tasks named by
their positions, satisfies the `PlanAssumption` of RunLifecycle (`Executable` repeats it), so the
proofs about executions rest on nothing that `validate_plan` does not check.

`PlansDecided`, `RegressionsStopped` and `EditsAtomic` are the invariants of the run
`decisions`, for the questions it asks.

`TypeOK` of ControlPlane and ProjectRegistry is proved and so is not an invariant of their runs.

Assumptions are the named ASSUMEs: that names are distinct, that budgets, bounds and counts
are natural numbers, that the clients of PlanStore and the callers of ProjectRegistry are
finite, that ControlPlane begins with an index such as single calls leave, that a validated
plan lists dependencies first, that `.env` is among the sensitive names, and that Decisions
has names for `NTasks` tasks. TLC evaluates them in every run.

Only model-checked is liveness (`SlotReleased`, `AttemptsEnd`, `LockReleased`, `JobsEnd`):
fairness and ENABLED are outside the prover. Every other property of a passing run is the
conclusion of a theorem.

## 5. What is not modelled, and limits of the models

* `git` failures inside `rollback` and a detached HEAD raise and end the execution like the
  dirty tree that is modelled; disk-full and unreadable state files are not modelled.
* Content of a tree is who wrote it, not what. A reverted edit counts as an edit, except in
  TaskAttempts, where an edit may bring the tree back to HEAD.
* Processes other than the workers do not touch the repository while an execution holds the
  slot. Between executions the owner may clean the tree or check out any branch of a run.
* PlanStore has one plan and one project: the slug and the workspace of its ProjectSpec do
  not change between revisions. Plans of the old format without revisions are left out, and
  so are the digests a record copies from its revision, which always agree with it.
* The run ids of `new_run_id` are taken to be fresh.
* ModelServer leaves out the HTTP request of a chat and the loading of weights: they end or
  fail. The memory a model takes is the model itself: the guard passes when no model runs.
* ControlPlane takes an execution as the statuses it publishes, and the names in a run
  directory as `state.json` and the rest. The checks of a cleanup read one file and are one step.
  Deleting a run that is archived already is offered by no request.
* EditBatch has texts of one line, no symbolic links and no binary files. Decisions trusts
  the schema of an answer (`models/edit.py`) and the regular expressions that read pytest's
  output.
* Pure string work (prompts, parsing of model answers) and reports: agents, plan intake,
  repository exploration, retrospective, diagnostics, metrics. They read what the models
  above write, and no transition reads what they write.

Observations made while modelling, beyond the runs that are violated:

* A finished status is readable before review, checkpoint and finalization
  (`run_state.py:294`); PROGRESS.md:117 says the contrary. `doc_history` is one consequence.
* A run that is started while an agent branch is checked out shares that branch
  (`git_workspace.py:116`), as a test expects; README.md:119 speaks of `agent/<run-id>`.
* A REVISE on the last fresh attempt leaves its repair unmade (`task_executor.py:409`).
* The coder's changes are classified before its tests run, and what the tests write is
  accepted without a class (`task_executor.py:569`).
* `_cleanup_failed_bootstrap` deletes by name: of two bootstraps of one empty directory the
  one that finds its file taken deletes what the other has made.
* `register`, `update` and `delete` lose entries written during the call, and the unique
  workspaces hold for one call at a time only.
* Two projects can get one workspace: a save between the check of `update` and its third
  reading (`project_registry.py:150`, 171) is kept, and both projects can then be executed at
  once, each under its own lease. `SharedOnlyByMove` names the case.
* A deletion and an archive of one run both pass their checks; `rmtree` goes on in the
  renamed directory and empties the archived run (`run_history.py:82`, 95). `ArchiveFrozen` names
  the case.
* A cleanup that finds another executable than the recorded one clears the file that names the
  process, also if it is a model of ours started by another path (`llama_server.py:232`).
* An update that moves a project leaves its lease in the control directory of its id: the old
  workspace can be registered again and executed in while the first execution goes on.
* The search of `validate_plan` raises KeyError for an unknown id of a task that it has not
  reached (`plan_validation.py:137`), where every other refusal is a PlanValidationError.
* A forbidden scope is compared with a path as it is written: `d` does not match `./d/b`.
* A baseline that raises (a timeout) is not rolled back by `establish_baseline`.
* `server.py:153` uses `payload` before it is assigned, so the POST of a Python bootstrap
  answers 500.
* `llama_server.py:243` says a process that resists `terminate` is left, while 240 kills it.

## 6. Plan

Done are all modules of section 2, in the order the inventory ranks them, with their runs
and the proofs of section 4. What is left, most useful first:

1. An abstract specification of PlanStore, an append-only sequence of revisions with one that
   is active, implemented by calls that do not overlap, and its proof from `CopiesInv`.
2. ControlPlane composed with RunLifecycle, so that an execution in it is more than the
   statuses it publishes. The product of the two is large; a refinement of an abstract
   execution, which RunLifecycle would implement, is the way.
3. Plan intake: the rules that repair and complete an answer of the compiling model.
