-------------------------- MODULE ControlProperties -------------------------
(***************************************************************************)
(* What the control server is expected to satisfy.                         *)
(***************************************************************************)
EXTENDS ControlPlane

(* Two executions are in one workspace only if the project of one of them  *)
(* has left the workspace in the index since the execution looked it up,   *)
(* or came into it by an update whose check another save had overtaken:    *)
(* the checks of the index, unlocked as they are, and the lease in the     *)
(* runs directory exclude everything else.                                 *)
SharedOnlyByMove ==
  \A t, v \in Threads :
    t # v /\ {pc[t], pc[v]} \subseteq {"execute", "return"} /\ root[t] = root[v] =>
      \E w \in {t, v} :
        LET e == [id |-> job[w].id, root |-> root[w]] IN e \notin registry \/ e \in raced

(* An archived run changes only if a deletion had opened its directory     *)
(* before the rename; then it may lose its files, and only when it is empty*)
(* can another directory take its place.                                   *)
ArchiveFrozen ==
  [][\A r \in Runs : archive[r] \notin {"gone", archive'[r]} =>
       /\ <<r, "archive">> \in torn
       /\ archive[r] = "empty" \/ archive'[r] \in {"bare", "empty"}]_vars

(* Every accepted job ends, also when the leases it meets are held by      *)
(* others or were never given back: no job blocks the pool for ever.       *)
JobsEnd == []<>(queue = << >> /\ \A t \in Threads : pc[t] = "idle")

(* "Only terminal runs can be archived or deleted": a run that has been    *)
(* archived or deleted is not executed any more and does not come back.    *)
RemovedStaysRemoved ==
  [][\A r \in Runs : home[r] # None /\ runs[r] = "gone" => runs'[r] = "gone"]_vars
=============================================================================
