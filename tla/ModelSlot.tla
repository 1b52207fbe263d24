----------------------------- MODULE ModelSlot ------------------------------
(***************************************************************************)
(* What the model lock promises, without pids, signals or a lock file:     *)
(* owners take turns in one slot, and a model is launched from inside the  *)
(* slot and only when no model is live.  A model may outlive the turn of   *)
(* its owner.                                                              *)
(***************************************************************************)
CONSTANTS Owners, NoOwner, Births

VARIABLES
  slot,     \* the owner whose turn it is, or NoOwner
  models    \* the live models, at most one

slotVars == <<slot, models>>

Init == slot = NoOwner /\ models = {}

Take == slot = NoOwner /\ slot' \in Owners /\ UNCHANGED models

Give == slot \in Owners /\ slot' = NoOwner /\ UNCHANGED models

Launch ==
  /\ slot \in Owners
  /\ models = {}
  /\ \E b \in Births : models' = {b}
  /\ UNCHANGED slot

Exit == models # {} /\ models' = {} /\ UNCHANGED slot

Next == Take \/ Give \/ Launch \/ Exit

Spec == Init /\ [][Next]_slotVars
=============================================================================
