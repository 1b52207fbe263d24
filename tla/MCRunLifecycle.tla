--------------------------- MODULE MCRunLifecycle ---------------------------
(***************************************************************************)
(* Small instances of RunLifecycle for TLC: the plans its runs execute.    *)
(***************************************************************************)
EXTENDS RunProperties, TLC

(* A test that may leave files in the tree, and a risky document after it. *)
PairKind == <<"test", "docs">>
PairDeps == <<{}, {1}>>

(* Two code tasks that do not depend on each other.                        *)
CodeKind == <<"code", "code">>
CodeDeps == <<{}, {}>>

(* Code, its test, another code task, a document that needs both and, in   *)
(* the run, an approval, and a deployment: a failure of task 1 blocks 2    *)
(* directly and 4 and 5 through it, and leaves 3 to be skipped.            *)
ChainKind == <<"code", "test", "code", "docs", "deploy">>
ChainDeps == <<{}, {1}, {}, {2, 3}, {4}>>

Symmetric == Permutations(Workers) \cup Permutations(Runs)
=============================================================================
