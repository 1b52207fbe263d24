---------------------------- MODULE GitIsolation ----------------------------
(***************************************************************************)
(* What Workestra promises about the target repository, without saying how *)
(* it executes anything: one process at a time holds the execution slot,   *)
(* only that process changes the repository, agent work is written only    *)
(* while an agent branch is checked out, enters the history one task at a  *)
(* time, and never enters the user's branch.  Between executions the       *)
(* repository belongs to the user.                                         *)
(***************************************************************************)
CONSTANTS Workers, Orphan, None, Main, Runs, Work

VARIABLES
  slot,    \* the process that executes, None, or Orphan once it was killed
  head, log, dirty

isolationVars == <<slot, head, log, dirty>>

Init ==
  /\ slot = None
  /\ head = Main
  /\ log = [b \in Runs \cup {Main} |-> {}]
  /\ dirty = {}

Acquire ==
  /\ slot = None /\ slot' \in Workers
  /\ UNCHANGED <<head, log, dirty>>

Vacate ==
  /\ slot \in Workers /\ slot' \in {None, Orphan}
  /\ UNCHANGED <<head, log, dirty>>

(* A clean tree moves to an agent branch; a branch that starts at the      *)
(* user's branch starts with what is on it.                                *)
TakeBranch ==
  /\ slot \in Workers
  /\ dirty = {}
  /\ head' \in Runs
  /\ log' \in {log, [log EXCEPT ![head'] = log[Main]]}
  /\ UNCHANGED <<slot, dirty>>

WriteWork ==
  /\ slot \in Workers
  /\ head # Main
  /\ \E work \in Work : dirty' = dirty \cup {work}
  /\ UNCHANGED <<slot, head, log>>

CommitWork ==
  /\ slot \in Workers
  /\ head # Main
  /\ \E work \in Work : dirty = {work} /\ log' = [log EXCEPT ![head] = @ \cup {work}]
  /\ dirty' = {}
  /\ UNCHANGED <<slot, head>>

DiscardWork ==
  /\ slot \in Workers
  /\ dirty' = {}
  /\ UNCHANGED <<slot, head, log>>

OwnerActs ==
  /\ slot \notin Workers
  /\ \/ dirty' = {} /\ UNCHANGED head
     \/ dirty = {} /\ head' \in Runs \cup {Main} /\ UNCHANGED dirty
  /\ UNCHANGED <<slot, log>>

Next ==
  \/ Acquire \/ Vacate
  \/ TakeBranch \/ WriteWork \/ CommitWork \/ DiscardWork
  \/ OwnerActs

Spec == Init /\ [][Next]_isolationVars
=============================================================================
