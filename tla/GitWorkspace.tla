---------------------------- MODULE GitWorkspace ----------------------------
(***************************************************************************)
(* The working tree of the target repository and the operations of         *)
(* services/git_workspace.py on it.  Content is named by the task of the   *)
(* run that produced it: a branch is the set of tasks whose work is        *)
(* committed on it, the tree is the set of tasks whose work is in it and   *)
(* not committed.  A detached HEAD and a directory that is no repository   *)
(* end an execution the way a dirty tree does, by an exception before      *)
(* anything changes, and are not told apart from it.                       *)
(*                                                                         *)
(* A definition named Seeded... is the one after it with a bug that a      *)
(* plausible edit of the code would introduce; the mutation runs use them. *)
(***************************************************************************)
EXTENDS RunState

VARIABLES
  head,     \* the branch that is checked out
  log,      \* log[b]: the work committed on branch b
  dirty     \* the work in the tree that is not committed

gitVars == <<head, log, dirty>>

Work == Runs \X Tasks

GitTypeOK ==
  /\ head \in Branches
  /\ log \in [Branches -> SUBSET Work]
  /\ dirty \in SUBSET Work

GitInit ==
  /\ head = Main
  /\ log = [b \in Branches |-> {}]
  /\ dirty = {}

SeededCleanIgnored == TRUE

(* assert_clean: git status --porcelain prints nothing.                    *)
Clean == dirty = {}

SeededStaysOnMain(r) == head

(* The branch create_agent_branch returns: a checkout that is already on   *)
(* an agent branch is reused, otherwise agent/<run-id> is created.  The    *)
(* run id is new, so branch_exists never refuses.                          *)
AgentBranchFor(r) == IF head = Main THEN r ELSE head

CreateAgentBranch(r) ==
  /\ head' = AgentBranchFor(r)
  /\ log' = IF head = Main THEN [log EXCEPT ![r] = log[Main]] ELSE log
  /\ UNCHANGED dirty

SeededNoSwitch(b) == UNCHANGED gitVars

(* switch_branch: the recorded branch exists, nothing deletes branches.    *)
SwitchBranch(b) == head' = b /\ UNCHANGED <<log, dirty>>

(* A model's edit operations, or a test command that leaves files behind.  *)
WriteTree(work) == dirty' = dirty \cup {work} /\ UNCHANGED <<head, log>>

SeededCommitLost == dirty' = {} /\ UNCHANGED <<head, log>>

(* checkpoint: git add -A, then a commit of all that is staged.            *)
Checkpoint ==
  /\ log' = [log EXCEPT ![head] = @ \cup dirty]
  /\ dirty' = {}
  /\ UNCHANGED head

(* rollback: git reset --hard HEAD and git clean -fd.                      *)
Rollback == dirty' = {} /\ UNCHANGED <<head, log>>
=============================================================================
