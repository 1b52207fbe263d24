--------------------------- MODULE PlanProperties ---------------------------
(***************************************************************************)
(* What the stored plan is expected to satisfy.                            *)
(***************************************************************************)
EXTENDS PlanStore, TLC

Symmetric == Permutations(Clients) \cup Permutations(Sources)

(* A revision that was written never changes, and its number is never      *)
(* given to another attempt, whatever the calls that numbered theirs from  *)
(* the same directory do ("Compiled plans are immutable revisions").       *)
RevisionsImmutable ==
  [][\A n \in Revisions : files[n] # None => files'[n] = files[n]]_vars

(* The record is compiled exactly if it names a revision, and whatever it  *)
(* names, in the file or in the copy of any call, has been written.        *)
NamesWrittenRevisions ==
  \A m \in {record} \cup {mem[c] : c \in Clients} :
    /\ m.status = "compiled" <=> m.revision # NoRevision
    /\ m.revision # NoRevision => Exists(m.revision)

(* Only a revision that cannot be read is ever invalidated, though every   *)
(* view of every stale copy may do so.                                     *)
InvalidatedAreDamaged == record.invalidated \subseteq damaged

(* The revision that a start reads and runs has been the active one of the *)
(* record: a file that an interrupted compilation left behind, or that its *)
(* request only guesses, does not run.                                     *)
RunsWereActive == \A c \in Clients : pc[c] = "read" => asked[c] \in active

(* One call at a time: every attempt that compile_plan reported is in the  *)
(* record (compile_attempts).                                              *)
AttemptsKept == width = 1 => returned \subseteq record.attempts

(* One call at a time: a readable revision stays active until a newer one  *)
(* is compiled, through failures and rejections of later attempts, views   *)
(* and bindings, and a binding is for ever                                 *)
(* (test_rejected_recompile_preserves_active_compiled_revision_and_history).*)
LastGoodKept ==
  [][width = 1 =>
       /\ record.revision \in Revisions \ damaged => record'.revision >= record.revision
       /\ record.bound => record'.bound]_vars

(* compile_plan: "a concurrent successful compile must not be overwritten  *)
(* by this attempt's failure."                                             *)
SuccessNotOverwritten ==
  [][\A c \in Clients :
       pc[c] = "save" /\ op[c] = "fail" /\ pc'[c] = "idle" /\ record.revision \in Revisions \ damaged
         => record'.revision = record.revision]_vars
=============================================================================
