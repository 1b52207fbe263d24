---------------------------- MODULE TaskAttempts ----------------------------
(***************************************************************************)
(* execute_task_with_retries (services/task_executor.py): the attempts of  *)
(* the coder at one task, the scope repairs that keep the current attempt, *)
(* the diagnoses between them, and the fallback engineer after them, on    *)
(* the working tree of the target repository.  RunLifecycle sees all of it *)
(* as one edit that is accepted, given up, or ends in an exception.        *)
(*                                                                         *)
(* The tree is the set of scope classes its changed files fall into.  What *)
(* a model answers, what a test run reports and what a reviewer decides    *)
(* are choices.  Prompts, events and the figures in the result are left    *)
(* out.  A definition named Seeded... is the one after it with a bug.      *)
(***************************************************************************)
EXTENDS Naturals

CONSTANTS
  RetryLimit,       \* fresh attempts of the coder after the first
  MaxScopeRepairs,  \* MAX_SCOPE_REPAIRS
  ToolMess          \* classes of the files that test commands leave behind

(* "grey" is what the code calls discouraged or unexpected.                *)
Classes == {"primary", "grey", "forbidden"}
(* apply_edit_operations refuses forbidden paths before it writes.         *)
Editable == {"primary", "grey"}

ASSUME BudgetAssumption == RetryLimit \in Nat /\ MaxScopeRepairs \in Nat
ASSUME MessAssumption == ToolMess \subseteq Classes

VARIABLES
  pc,
  tree,        \* classes of the files that differ from HEAD
  given,       \* history: the tree the call was made on
  scoped,      \* scope_enabled
  used,        \* attempts_used
  fresh,       \* fresh_attempts_used
  repairs,     \* repair_attempts
  repairing,   \* repair_review is not None
  changed,     \* the classification of the last edit
  hard,        \* hard_scope_failure
  last,        \* last_result is not None
  skip         \* skip_diagnosis

budget == <<used, fresh, repairs>>
flags == <<hard, last, skip>>
vars == <<pc, tree, given, scoped, budget, repairing, changed, flags>>

Outcomes == {"accepted", "rejected", "raised"}
Labels == {"bootstrap", "prepare", "baseline", "loop", "diagnose", "code", "verify", "review",
           "exhausted", "fallback", "fallbackVerify", "fallbackReview"} \cup Outcomes

TypeOK ==
  /\ pc \in Labels
  /\ tree \in SUBSET Classes /\ given \in SUBSET Classes /\ changed \in SUBSET Classes
  /\ used \in Nat /\ fresh \in 0 .. RetryLimit + 1 /\ repairs \in 0 .. MaxScopeRepairs
  /\ scoped \in BOOLEAN /\ repairing \in BOOLEAN
  /\ hard \in BOOLEAN /\ last \in BOOLEAN /\ skip \in BOOLEAN

(* Called by execute_tracked_task on a clean tree, or for a security fix   *)
(* on the tree that is under review.                                       *)
Init ==
  /\ pc = "bootstrap"
  /\ tree \in {{}, {"primary"}, Editable} /\ given = tree
  /\ scoped \in BOOLEAN
  /\ used = 0 /\ fresh = 0 /\ repairs = 0
  /\ repairing = FALSE /\ changed = {}
  /\ hard = FALSE /\ last = FALSE /\ skip = FALSE

-----------------------------------------------------------------------------
Goto(label) == pc' = label /\ UNCHANGED <<given, scoped>>

Rollback == tree' = {}

(* A test command runs in the tree.                                        *)
RunTests == \E mess \in SUBSET ToolMess : tree' = tree \cup mess

(* What an applied set of edit operations can make of the tree: on a clean *)
(* tree a set without effect is refused.                                   *)
Edits == {t \in SUBSET (tree \cup Editable) : /\ tree \ Editable \subseteq t
                                              /\ tree = {} => t # {}}

(* _current_changed_files and _scope_classification; a tree back at HEAD   *)
(* is classified by the paths of the operations.                           *)
Classification(t) ==
  IF ~scoped THEN {{"primary"}}
  ELSE IF t # {} THEN {t} ELSE (SUBSET Editable) \ {{}}

-----------------------------------------------------------------------------
(* Before the first attempt.                                               *)

BootstrapFails ==
  /\ pc = "bootstrap" /\ Goto("rejected")
  /\ UNCHANGED <<tree, budget, repairing, changed, flags>>

Bootstrap ==
  /\ pc = "bootstrap" /\ Goto("prepare")
  /\ RunTests
  /\ UNCHANGED <<budget, repairing, changed, flags>>

SeededAnyTree ==
  /\ pc = "prepare" /\ Goto("baseline")
  /\ UNCHANGED <<tree, budget, repairing, changed, flags>>

(* assert_clean raises GitWorkspaceError, which nothing here catches.      *)
PrepareWorkspace ==
  /\ pc = "prepare" /\ Goto(IF tree = {} THEN "baseline" ELSE "raised")
  /\ UNCHANGED <<tree, budget, repairing, changed, flags>>

(* Files the baseline left are rolled back, unless it timed out or moved   *)
(* HEAD.                                                                   *)
BaselineFails ==
  /\ pc = "baseline" /\ Goto("rejected")
  /\ Rollback \/ RunTests
  /\ UNCHANGED <<budget, repairing, changed, flags>>

EstablishBaseline ==
  /\ pc = "baseline" /\ Goto("loop")
  /\ UNCHANGED <<tree, budget, repairing, changed, flags>>

-----------------------------------------------------------------------------
(* The loop over the attempts of the coder.                                *)

SeededFreeAttempts == TRUE

AttemptsLeft == fresh < RetryLimit + 1

StartAttempt ==
  /\ pc = "loop" /\ AttemptsLeft
  /\ used' = used + 1
  /\ fresh' = IF repairing THEN fresh ELSE fresh + 1
  /\ skip' = (repairing /\ skip)
  /\ Goto(IF ~repairing /\ last /\ ~skip THEN "diagnose" ELSE "code")
  /\ UNCHANGED <<tree, repairs, repairing, changed, hard, last>>

SeededWaitsForRepair ==
  /\ pc = "loop" /\ ~AttemptsLeft /\ ~repairing /\ Goto("exhausted")
  /\ UNCHANGED <<tree, budget, repairing, changed, flags>>

EndLoop ==
  /\ pc = "loop" /\ ~AttemptsLeft /\ Goto("exhausted")
  /\ UNCHANGED <<tree, budget, repairing, changed, flags>>

Diagnose ==
  /\ pc = "diagnose" /\ Goto("code")
  /\ UNCHANGED <<tree, budget, repairing, changed, flags>>

(* A model server or the repository explorer fails: a RuntimeError.  A     *)
(* scope reviewer that fails is a FAIL_HARD.                               *)
ModelRaises ==
  /\ pc \in {"diagnose", "code", "fallback"} /\ Goto("raised")
  /\ UNCHANGED <<tree, budget, repairing, changed, flags>>

(* Operations that are no valid set skip the next diagnosis.               *)
RejectOutput ==
  /\ pc = "code" /\ Goto("loop")
  /\ Rollback
  /\ repairing' = FALSE /\ last' = TRUE /\ skip' \in {skip, TRUE}
  /\ UNCHANGED <<budget, changed, hard>>

ForbiddenEdit ==
  /\ pc = "code" /\ Goto("exhausted")
  /\ \E t \in Edits : changed' \in Classification(t) /\ "forbidden" \in changed'
  /\ Rollback
  /\ repairing' = FALSE /\ hard' = TRUE /\ last' = TRUE
  /\ UNCHANGED <<budget, skip>>

ApplyEdit ==
  /\ pc = "code" /\ Goto("verify")
  /\ tree' \in Edits
  /\ changed' \in Classification(tree') /\ "forbidden" \notin changed'
  /\ UNCHANGED <<budget, repairing, flags>>

FailVerification ==
  /\ pc = "verify" /\ Goto("loop")
  /\ Rollback
  /\ repairing' = FALSE /\ last' = TRUE /\ skip' = FALSE
  /\ UNCHANGED <<budget, changed, hard>>

SeededUnreviewed == FALSE

NeedsReview == "grey" \in changed

PassVerification ==
  /\ pc = "verify" /\ Goto(IF NeedsReview THEN "review" ELSE "accepted")
  /\ RunTests
  /\ last' = TRUE
  /\ UNCHANGED <<budget, repairing, changed, hard, skip>>

PassScope ==
  /\ pc \in {"review", "fallbackReview"} /\ Goto("accepted")
  /\ UNCHANGED <<tree, budget, repairing, changed, flags>>

SeededRepairsUncounted ==
  /\ pc = "review" /\ repairs < MaxScopeRepairs /\ Goto("loop")
  /\ repairing' = TRUE
  /\ UNCHANGED <<tree, budget, changed, flags>>

(* The attempt stays in the tree and the coder repairs it.                 *)
ReviseScope ==
  /\ pc = "review" /\ repairs < MaxScopeRepairs /\ Goto("loop")
  /\ repairs' = repairs + 1 /\ repairing' = TRUE
  /\ UNCHANGED <<tree, used, fresh, changed, flags>>

(* RETRY_FRESH, FAIL_HARD, or REVISE when no repair is left.               *)
RejectScope ==
  /\ pc = "review"
  /\ Rollback
  /\ repairing' = FALSE /\ hard' \in BOOLEAN /\ skip' = TRUE
  /\ Goto(IF hard' THEN "exhausted" ELSE "loop")
  /\ UNCHANGED <<budget, changed, last>>

SeededRepairKept ==
  /\ pc = "exhausted" /\ Goto(IF hard THEN "rejected" ELSE "fallback")
  /\ UNCHANGED <<tree, budget, repairing, changed, flags>>

SeededAlwaysFallsBack ==
  /\ pc = "exhausted" /\ Goto("fallback")
  /\ tree' = IF repairing THEN {} ELSE tree
  /\ UNCHANGED <<budget, repairing, changed, flags>>

(* A repair that was asked for and not made is undone.                     *)
AfterLoop ==
  /\ pc = "exhausted" /\ Goto(IF hard THEN "rejected" ELSE "fallback")
  /\ tree' = IF repairing THEN {} ELSE tree
  /\ UNCHANGED <<budget, repairing, changed, flags>>

-----------------------------------------------------------------------------
(* The fallback engineer has one attempt; its diagnosis is skipped after a *)
(* schema failure, and raises like its coder.                              *)

RejectFallbackOutput ==
  /\ pc = "fallback" /\ Goto("rejected")
  /\ Rollback
  /\ UNCHANGED <<budget, repairing, changed, flags>>

ApplyFallback ==
  /\ pc = "fallback" /\ Goto("fallbackVerify")
  /\ tree' \in Edits
  /\ UNCHANGED <<budget, repairing, changed, flags>>

(* Here the changes are classified after the test run.                     *)
PassFallback ==
  /\ pc = "fallbackVerify"
  /\ RunTests
  /\ changed' \in Classification(tree') /\ "forbidden" \notin changed'
  /\ Goto(IF "grey" \in changed' THEN "fallbackReview" ELSE "accepted")
  /\ UNCHANGED <<budget, repairing, flags>>

(* Verification, a forbidden path or the scope review fails.               *)
FailFallback ==
  /\ pc \in {"fallbackVerify", "fallbackReview"} /\ Goto("rejected")
  /\ Rollback
  /\ UNCHANGED <<budget, repairing, changed, flags>>

Next ==
  \/ BootstrapFails \/ Bootstrap \/ PrepareWorkspace \/ BaselineFails \/ EstablishBaseline
  \/ StartAttempt \/ EndLoop \/ Diagnose \/ ModelRaises \/ RejectOutput
  \/ ForbiddenEdit \/ ApplyEdit \/ FailVerification \/ PassVerification
  \/ PassScope \/ ReviseScope \/ RejectScope \/ AfterLoop
  \/ RejectFallbackOutput \/ ApplyFallback \/ PassFallback \/ FailFallback

Spec == Init /\ [][Next]_vars

(* Every call of a model, of git and of the test command has a timeout.    *)
FairSpec == Spec /\ WF_vars(Next)
=============================================================================
