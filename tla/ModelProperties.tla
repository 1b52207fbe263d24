-------------------------- MODULE ModelProperties ---------------------------
(***************************************************************************)
(* What the owners of the local model are expected to satisfy.             *)
(***************************************************************************)
EXTENDS ModelServer

LiveModels == {b \in Births : \E p \in Pids : proc[p] = [birth |-> b, kind |-> "model"]}

(* README.md: "Models run sequentially."  Whatever owners start, crash or  *)
(* fail to stop, two models never share the memory of the machine.         *)
AtMostOneModel == \A a, b \in LiveModels : a = b

(* tasks/plan.md: "reap only verified stale children."  No program of      *)
(* somebody else is signalled, though it may have the recorded pid, and no *)
(* model that another owner is using.                                      *)
OnlyStaleModelsSignalled == \A s \in signalled : s.kind = "model" /\ ~s.inUse

(* A model that no owner has in hand is the one the lock file names, so    *)
(* that the next owner can stop it, unless its owner died between Popen    *)
(* and the write of the metadata, or a cleanup found another executable in *)
(* its command line than the recorded one.                                 *)
StrayModelIsKnown ==
  \A p \in Pids : proc[p].kind = "model" =>
    LET id == [pid |-> p, birth |-> proc[p].birth]
    IN  \/ meta = id
        \/ \E o \in Owners : child[o] = id
        \/ proc[p].birth \in untracked

(* Owners take turns, and a model is launched only in its owner's turn and *)
(* when none is live.                                                      *)
Slot == INSTANCE ModelSlot WITH slot <- holder, models <- LiveModels
SlotSpec == Slot!Spec

(* The finally clause of stop(): nobody keeps the lock for ever, whatever  *)
(* hangs, is refused or cannot be stopped.                                 *)
LockReleased == \A o \in Owners : holder = o ~> holder # o
=============================================================================
