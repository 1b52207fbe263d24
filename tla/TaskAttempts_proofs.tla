------------------------ MODULE TaskAttempts_proofs -------------------------
(***************************************************************************)
(* Proofs, for every pair of budgets and every litter of the test command, *)
(* of the safety properties of AttemptProperties.                          *)
(***************************************************************************)
EXTENDS AttemptProperties, TLAPS

-----------------------------------------------------------------------------
(* The parts of the inductive invariant.                                   *)

(* Nothing of the loop has happened before its first attempt.              *)
NotStarted ==
  pc \in {"bootstrap", "prepare", "baseline"} => used = 0 /\ ~repairing

(* A repair that is asked for has been counted in repairs and not yet in   *)
(* used.                                                                   *)
RepairsPaid ==
  /\ used <= fresh + repairs
  /\ pc = "loop" /\ repairing => used < fresh + repairs

(* Between the attempts only a pending repair keeps its work in the tree.  *)
OnlyRepairsKeepWork ==
  /\ pc = "baseline" => tree = {}
  /\ pc \in {"loop", "diagnose", "code", "exhausted"} /\ ~repairing => tree = {}
  /\ pc = "fallback" => tree = {}
  /\ pc = "rejected" /\ used > 0 => tree = {}

HardEndsLoop == hard => pc \in {"exhausted", "rejected"}

(* What is verified or reviewed is known to touch nothing forbidden.       *)
ForbiddenFiltered ==
  pc \in {"verify", "review", "fallbackReview"} => "forbidden" \notin changed

IInv ==
  /\ TypeOK /\ NotStarted /\ RepairsPaid /\ OnlyRepairsKeepWork
  /\ GivenTreeKept /\ HardEndsLoop /\ ForbiddenFiltered

-----------------------------------------------------------------------------
(* What the helpers do to the tree.                                        *)

LEMMA EditsType ==
  ASSUME tree \in SUBSET Classes
  PROVE  /\ Edits \subseteq SUBSET Classes
         /\ \A t \in SUBSET Classes : Classification(t) \subseteq SUBSET Classes
BY DEF Edits, Editable, Classes, Classification

LEMMA RunTestsType ==
  ASSUME tree \in SUBSET Classes, RunTests
  PROVE  tree' \in SUBSET Classes /\ tree \subseteq tree'
BY MessAssumption DEF RunTests

(* Every step keeps the types.                                             *)
LEMMA TypeStep == ASSUME TypeOK, [Next]_vars PROVE TypeOK'
<1> USE BudgetAssumption DEF TypeOK, Labels, Outcomes
<1>1. CASE BootstrapFails
  BY <1>1 DEF BootstrapFails, Goto, budget, flags
<1>2. CASE Bootstrap
  BY <1>2, RunTestsType DEF Bootstrap, Goto, budget, flags
<1>3. CASE PrepareWorkspace
  BY <1>3 DEF PrepareWorkspace, Goto, budget, flags
<1>4. CASE BaselineFails
  BY <1>4, RunTestsType DEF BaselineFails, Goto, budget, flags, Rollback
<1>5. CASE EstablishBaseline
  BY <1>5 DEF EstablishBaseline, Goto, budget, flags
<1>6. CASE StartAttempt
  BY <1>6 DEF StartAttempt, Goto, budget, flags, AttemptsLeft
<1>7. CASE EndLoop
  BY <1>7 DEF EndLoop, Goto, budget, flags, AttemptsLeft
<1>8. CASE Diagnose
  BY <1>8 DEF Diagnose, Goto, budget, flags
<1>9. CASE ModelRaises
  BY <1>9 DEF ModelRaises, Goto, budget, flags
<1>10. CASE RejectOutput
  BY <1>10 DEF RejectOutput, Goto, budget, flags, Rollback
<1>11. CASE ForbiddenEdit
  BY <1>11, EditsType DEF ForbiddenEdit, Goto, budget, flags, Rollback
<1>12. CASE ApplyEdit
  BY <1>12, EditsType DEF ApplyEdit, Goto, budget, flags
<1>13. CASE FailVerification
  BY <1>13 DEF FailVerification, Goto, budget, flags, Rollback
<1>14. CASE PassVerification
  BY <1>14, RunTestsType DEF PassVerification, Goto, budget, flags, NeedsReview
<1>15. CASE PassScope
  BY <1>15 DEF PassScope, Goto, budget, flags
<1>16. CASE ReviseScope
  BY <1>16 DEF ReviseScope, Goto, budget, flags
<1>17. CASE RejectScope
  BY <1>17 DEF RejectScope, Goto, budget, flags, Rollback
<1>18. CASE AfterLoop
  BY <1>18 DEF AfterLoop, Goto, budget, flags
<1>19. CASE RejectFallbackOutput
  BY <1>19 DEF RejectFallbackOutput, Goto, budget, flags, Rollback
<1>20. CASE ApplyFallback
  BY <1>20, EditsType DEF ApplyFallback, Goto, budget, flags
<1>21. CASE PassFallback
  BY <1>21, RunTestsType, EditsType DEF PassFallback, Goto, budget, flags
<1>22. CASE FailFallback
  BY <1>22 DEF FailFallback, Goto, budget, flags, Rollback
<1>23. CASE UNCHANGED vars
  BY <1>23 DEF vars, budget, flags
<1> QED
  BY <1>1, <1>2, <1>3, <1>4, <1>5, <1>6, <1>7, <1>8, <1>9, <1>10, <1>11, <1>12, <1>13,
     <1>14, <1>15, <1>16, <1>17, <1>18, <1>19, <1>20, <1>21, <1>22, <1>23 DEF Next

(* Every step keeps the rest of the invariant.                             *)
LEMMA InvStep == ASSUME IInv, [Next]_vars PROVE IInv'
<1>0. TypeOK /\ TypeOK'
  BY TypeStep DEF IInv
<1> USE <1>0 DEF TypeOK, IInv, NotStarted, RepairsPaid, OnlyRepairsKeepWork,
                 GivenTreeKept, HardEndsLoop, ForbiddenFiltered
<1>1. CASE BootstrapFails
  BY <1>1 DEF BootstrapFails, Goto, budget, flags
<1>2. CASE Bootstrap
  BY <1>2, RunTestsType DEF Bootstrap, Goto, budget, flags
<1>3. CASE PrepareWorkspace
  BY <1>3 DEF PrepareWorkspace, Goto, budget, flags
<1>4. CASE BaselineFails
  BY <1>4, RunTestsType DEF BaselineFails, Goto, budget, flags, Rollback
<1>5. CASE EstablishBaseline
  BY <1>5 DEF EstablishBaseline, Goto, budget, flags
<1>6. CASE StartAttempt
  BY <1>6 DEF StartAttempt, Goto, budget, flags, AttemptsLeft
<1>7. CASE EndLoop
  BY <1>7 DEF EndLoop, Goto, budget, flags, AttemptsLeft
<1>8. CASE Diagnose
  BY <1>8 DEF Diagnose, Goto, budget, flags
<1>9. CASE ModelRaises
  BY <1>9 DEF ModelRaises, Goto, budget, flags
<1>10. CASE RejectOutput
  BY <1>10 DEF RejectOutput, Goto, budget, flags, Rollback
<1>11. CASE ForbiddenEdit
  BY <1>11 DEF ForbiddenEdit, Goto, budget, flags, Rollback
<1>12. CASE ApplyEdit
  BY <1>12 DEF ApplyEdit, Goto, budget, flags
<1>13. CASE FailVerification
  BY <1>13 DEF FailVerification, Goto, budget, flags, Rollback
<1>14. CASE PassVerification
  BY <1>14, RunTestsType DEF PassVerification, Goto, budget, flags, NeedsReview
<1>15. CASE PassScope
  BY <1>15 DEF PassScope, Goto, budget, flags
<1>16. CASE ReviseScope
  BY <1>16 DEF ReviseScope, Goto, budget, flags
<1>17. CASE RejectScope
  BY <1>17 DEF RejectScope, Goto, budget, flags, Rollback
<1>18. CASE AfterLoop
  BY <1>18 DEF AfterLoop, Goto, budget, flags
<1>19. CASE RejectFallbackOutput
  BY <1>19 DEF RejectFallbackOutput, Goto, budget, flags, Rollback
<1>20. CASE ApplyFallback
  BY <1>20 DEF ApplyFallback, Goto, budget, flags
<1>21. CASE PassFallback
  BY <1>21, RunTestsType DEF PassFallback, Goto, budget, flags
<1>22. CASE FailFallback
  BY <1>22 DEF FailFallback, Goto, budget, flags, Rollback
<1>23. CASE UNCHANGED vars
  BY <1>23 DEF vars, budget, flags
<1> QED
  BY <1>1, <1>2, <1>3, <1>4, <1>5, <1>6, <1>7, <1>8, <1>9, <1>10, <1>11, <1>12, <1>13,
     <1>14, <1>15, <1>16, <1>17, <1>18, <1>19, <1>20, <1>21, <1>22, <1>23 DEF Next

LEMMA Inductive == Spec => []IInv
<1>1. Init => IInv
  <2> SUFFICES ASSUME Init PROVE IInv
    OBVIOUS
  <2>1. tree \in SUBSET Classes
    BY DEF Init, Classes, Editable
  <2>2. 0 \in 0 .. RetryLimit + 1 /\ 0 \in 0 .. MaxScopeRepairs
    BY BudgetAssumption
  <2>3. TypeOK
    BY <2>1, <2>2 DEF Init, TypeOK, Labels
  <2> QED
    BY <2>3 DEF Init, IInv, NotStarted, RepairsPaid, OnlyRepairsKeepWork, GivenTreeKept,
                HardEndsLoop, ForbiddenFiltered
<1>2. IInv /\ [Next]_vars => IInv'
  BY InvStep
<1> QED
  BY <1>1, <1>2, PTL DEF Spec

-----------------------------------------------------------------------------
(* The budgets, the flags and the tree of execute_task_with_retries keep   *)
(* their types: fresh_attempts_used never passes retry_limit + 1 and       *)
(* repair_attempts never passes MAX_SCOPE_REPAIRS.                         *)
THEOREM AttemptTypes == Spec => []TypeOK
<1>1. IInv => TypeOK
  BY DEF IInv
<1> QED
  BY <1>1, Inductive, PTL

(* For any retry limit the coder is called at most once per fresh attempt  *)
(* and once per counted repair.                                            *)
THEOREM AttemptBudget == Spec => []CoderCallsBounded
<1>1. IInv => CoderCallsBounded
  BY BudgetAssumption DEF IInv, TypeOK, RepairsPaid, CoderCallsBounded
<1> QED
  BY <1>1, Inductive, PTL

(* No attempt, and no caller told of a failure, finds work of an attempt   *)
(* that was given up, however the while loop was left.                     *)
THEOREM AttemptRollback == Spec => []NothingLeftBehind
<1>1. IInv => NothingLeftBehind
  BY DEF IInv, OnlyRepairsKeepWork, NothingLeftBehind
<1> QED
  BY <1>1, Inductive, PTL

(* A call on a tree with changes in it leaves that tree alone.             *)
THEOREM AttemptKeepsGivenTree == Spec => []GivenTreeKept
<1>1. IInv => GivenTreeKept
  BY DEF IInv
<1> QED
  BY <1>1, Inductive, PTL

(* Accepted work is free of forbidden edits, and its grey edits have       *)
(* passed a scope review.                                                  *)
THEOREM AttemptReviewed == Spec => AcceptedIsReviewed
<1> DEFINE Reviewed == pc' = "accepted" => /\ "forbidden" \notin changed'
                                           /\ "grey" \in changed' => pc \in {"review", "fallbackReview"}
<1>1. IInv /\ [Next]_vars => [Reviewed]_vars
  <2> SUFFICES ASSUME IInv, Next, pc' = "accepted" PROVE Reviewed
    OBVIOUS
  <2>1. CASE PassVerification
    BY <2>1 DEF PassVerification, NeedsReview, Goto, IInv, ForbiddenFiltered
  <2>2. CASE PassScope
    BY <2>2 DEF PassScope, IInv, ForbiddenFiltered
  <2>3. CASE PassFallback
    BY <2>3 DEF PassFallback, Goto
  <2> QED
    BY <2>1, <2>2, <2>3 DEF Next, Goto, BootstrapFails, Bootstrap, PrepareWorkspace, BaselineFails,
       EstablishBaseline, StartAttempt, EndLoop, Diagnose, ModelRaises, RejectOutput, ForbiddenEdit,
       ApplyEdit, FailVerification, ReviseScope, RejectScope, AfterLoop,
       RejectFallbackOutput, ApplyFallback, FailFallback
<1> QED
  BY <1>1, Inductive, PTL DEF Spec, AcceptedIsReviewed

(* After a forbidden change or FAIL_HARD the call only rolls back and      *)
(* returns the failure: no repair, no fresh attempt, no fallback.          *)
THEOREM AttemptHardFailure == Spec => HardFailureIsFinal
<1> DEFINE Final == hard => tree' \in {tree, {}} /\ pc' \in {"exhausted", "rejected"}
<1>1. IInv /\ [Next]_vars => [Final]_vars
  <2> SUFFICES ASSUME IInv, Next, hard PROVE Final
    OBVIOUS
  <2>1. pc \in {"exhausted", "rejected"}
    BY DEF IInv, HardEndsLoop
  <2>2. AfterLoop
    BY <2>1 DEF Next, BootstrapFails, Bootstrap, PrepareWorkspace, BaselineFails,
       EstablishBaseline, StartAttempt, EndLoop, Diagnose, ModelRaises, RejectOutput, ForbiddenEdit,
       ApplyEdit, FailVerification, PassVerification, PassScope, ReviseScope,
       RejectScope, RejectFallbackOutput, ApplyFallback, PassFallback, FailFallback
  <2> QED
    BY <2>2 DEF AfterLoop, Goto
<1> QED
  BY <1>1, Inductive, PTL DEF Spec, HardFailureIsFinal
=============================================================================
