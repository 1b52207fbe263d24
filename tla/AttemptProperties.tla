------------------------- MODULE AttemptProperties --------------------------
(***************************************************************************)
(* What the attempts at one task are expected to satisfy.                  *)
(***************************************************************************)
EXTENDS TaskAttempts

(* The coder is called at most once per fresh attempt and once per scope   *)
(* repair: a repair does not use up a fresh attempt, and no path through   *)
(* the resets of repair_review gives one for free (qwen_attempts,          *)
(* MAX_SCOPE_REPAIRS).                                                     *)
CoderCallsBounded ==
  /\ used <= fresh + repairs
  /\ used <= RetryLimit + 1 + MaxScopeRepairs

(* "Failed attempts roll back before retry": a fresh attempt, the          *)
(* diagnosis before it, the fallback engineer and a caller that is told of *)
(* a failure find nothing of the attempts before, whichever way they       *)
(* ended.                                                                  *)
NothingLeftBehind ==
  \/ pc \in {"diagnose", "code"} /\ ~repairing
  \/ pc = "fallback"
  \/ pc = "rejected" /\ used > 0
  => tree = {}

(* A call on a tree that has changes in it, as a security fix makes, never *)
(* edits, rolls back or accepts that tree: the work under review is the    *)
(* caller's (_prepare_attempt_workspace).                                  *)
GivenTreeKept ==
  given # {} => /\ pc \in {"bootstrap", "prepare", "rejected", "raised"}
                /\ given \subseteq tree

(* Work is accepted only if its last edit touched nothing forbidden and    *)
(* whatever it touched outside the primary scope was reviewed after that   *)
(* edit.                                                                   *)
AcceptedIsReviewed ==
  [][pc' = "accepted" => /\ "forbidden" \notin changed'
                         /\ "grey" \in changed' => pc \in {"review", "fallbackReview"}]_vars

(* "safety failures skip repair and fallback": after a forbidden change or *)
(* FAIL_HARD no model touches the tree again.                              *)
HardFailureIsFinal ==
  [][hard => tree' \in {tree, {}} /\ pc' \in {"exhausted", "rejected"}]_vars

(* The call ends, however the reviewers mix REVISE with everything else.   *)
AttemptsEnd == <>(pc \in Outcomes)
=============================================================================
