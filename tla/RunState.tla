------------------------------ MODULE RunState ------------------------------
(***************************************************************************)
(* The record RunStateManager keeps in runs/<run-id>/state.json, and the   *)
(* pure part of each of its mutators (services/run_state.py): every one of *)
(* them computes the next record in memory and then saves the whole        *)
(* record.  The save itself, a temporary file and an atomic replace, is an *)
(* action of RunLifecycle.                                                 *)
(*                                                                         *)
(* Tasks are numbered in the order validate_plan returns.  What a record   *)
(* says about error texts, attempt counts, digests and timestamps is left  *)
(* out: no transition reads them.                                          *)
(***************************************************************************)
EXTENDS Naturals

CONSTANTS
  Runs,      \* run ids that new_run_id() can return
  NTasks,    \* length of the plan every run executes
  Main,      \* the branch the user works on
  None       \* Python's None

ASSUME NTasksAssumption == NTasks \in Nat \ {0}
ASSUME NamesAssumption == Main \notin Runs /\ None \notin Runs /\ Main # None

Tasks == 1 .. NTasks
NoTask == 0

(* An agent branch agent/<run-id> is named by its run.                     *)
Branches == Runs \cup {Main}

FinishedStatus == {"passed", "failed"}
TaskStatus == {"pending", "running", "waiting", "passed", "failed", "blocked", "skipped"}

(* "absent" is a task that add_task has not appended yet, "none" a run     *)
(* directory that does not exist.                                          *)
RunRecord == [status: TaskStatus \cup {"none"},
              current: Tasks \cup {NoTask},
              task: [Tasks -> TaskStatus \cup {"absent"}],
              granted: SUBSET Tasks,
              branch: Branches \cup {None}]

NoRecord == [status |-> "none", current |-> NoTask,
             task |-> [t \in Tasks |-> "absent"], granted |-> {}, branch |-> None]

(* RunState(run_id, request): the defaults of the model class.             *)
NewRecord == [NoRecord EXCEPT !.status = "pending"]

TasksIn(m, s) == {t \in Tasks : m.task[t] = s}

AddTask(m, t) == [m EXCEPT !.task[t] = "pending"]

MarkWaitingForApproval(m, t) ==
  [m EXCEPT !.task[t] = "waiting", !.status = "waiting", !.current = t]

ApproveTask(m, t) ==
  [m EXCEPT !.granted = @ \cup {t}, !.task[t] = "pending",
            !.status = "pending", !.current = t]

(* mark_blocked and mark_skipped differ only in the status they write.     *)
MarkUnreached(m, t, s) == [m EXCEPT !.task[t] = s, !.status = "failed", !.current = t]

FinishRun(m, ok) ==
  [m EXCEPT !.status = IF ok THEN "passed" ELSE "failed", !.current = NoTask]

(* update_task with PASSED derives the status of the run from all of its   *)
(* tasks, and clears current_task when it declares the run passed.         *)
UpdateTask(m, t, s) ==
  LET task == [m.task EXCEPT ![t] = s]
      done == \A u \in Tasks : task[u] \in {"passed", "absent"}
  IN  [m EXCEPT !.task = task,
                !.status = IF s = "failed" THEN "failed"
                           ELSE IF done THEN "passed" ELSE "running",
                !.current = IF s # "failed" /\ done THEN NoTask ELSE t]
=============================================================================
