----------------------------- MODULE EditBatch ------------------------------
(***************************************************************************)
(* The application of the edit operations of a model answer to a working   *)
(* tree (services/edit_operations.py, diff_patch.py, workspace.py and the  *)
(* validators of models/edit.py): all are validated against the tree, the  *)
(* outcome is built in a temporary repository, and its diff is applied by  *)
(* git, which does it as a whole or not at all.                            *)
(*                                                                         *)
(* A tree maps resolved paths to a text, Absent or Directory.  A text is a *)
(* sequence of characters on one line, Blank the trailing white space.  An *)
(* operation is [kind, path, old, new]; new is the content of a create.    *)
(* The tree does not change between validation and copy.                   *)
(*                                                                         *)
(* A definition named Seeded... is the one after it with a bug.            *)
(***************************************************************************)
EXTENDS TaskScope, Naturals, FiniteSets

CONSTANTS Absent, Directory, Blank

IsText(value) == value \notin {<<Absent>>, <<Directory>>}

EndsBlank(text) == text # << >> /\ Last(text) = Blank

(* Where old occurs in text; occurrences may overlap.                      *)
Matches(old, text) ==
  {k \in 1 .. Len(text) : IsPrefix(old, SubSeq(text, k, Len(text)))}

(* str.replace of the first occurrence.                                    *)
ReplaceFirst(text, old, new) ==
  LET k == CHOOSE k \in Matches(old, text) : \A j \in Matches(old, text) : k <= j
  IN  SubSeq(text, 1, k - 1) \o new \o SubSeq(text, k + Len(old), Len(text))

(* What one operation asks of the tree.                                    *)
Creatable(tree, op) ==
  tree[Resolve(op.path)] = <<Absent>> /\ ~EndsBlank(op.new)

SeededEditable(tree, op, grounded) ==
  /\ op.path \in grounded
  /\ IsText(tree[Resolve(op.path)])
  /\ op.kind = "replace_exact" => Matches(op.old, tree[Resolve(op.path)]) # {}

Editable(tree, op, grounded) ==
  /\ op.path \in grounded
  /\ IsText(tree[Resolve(op.path)])
  /\ op.kind = "replace_exact" => Cardinality(Matches(op.old, tree[Resolve(op.path)])) = 1

OperationValid(tree, op, grounded, forbidden) ==
  /\ ~IsForbidden(op.path, forbidden)
  /\ IF op.kind = "create_file" THEN Creatable(tree, op) ELSE Editable(tree, op, grounded)

SeededPathsDistinct(batch) ==
  \A i, j \in DOMAIN batch : i # j => batch[i].path # batch[j].path

(* Neither the written nor the resolved path may come twice.               *)
PathsDistinct(batch) ==
  \A i, j \in DOMAIN batch : i # j => Resolve(batch[i].path) # Resolve(batch[j].path)

BatchValid(tree, batch, grounded, forbidden) ==
  /\ PathsDistinct(batch)
  /\ \A i \in DOMAIN batch : OperationValid(tree, batch[i], grounded, forbidden)

(* The outcome of one operation, computed from the tree before the batch.  *)
Content(tree, op) ==
  CASE op.kind = "create_file" -> op.new
    [] op.kind = "delete_file" -> <<Absent>>
    [] op.kind = "replace_exact" -> ReplaceFirst(tree[Resolve(op.path)], op.old, op.new)

Written(tree, t, op) == [t EXCEPT ![Resolve(op.path)] = Content(tree, op)]

(* _apply_to_candidate writes one after another.                           *)
Candidate(tree, batch) ==
  LET written[k \in 0 .. Len(batch)] ==
        IF k = 0 THEN tree
        ELSE Written(tree, written[k - 1], batch[k])
  IN  written[Len(batch)]

Changed(tree, after) == {p \in DOMAIN tree : tree[p] # after[p]}

(* git apply --whitespace=error, and the grounding of what is not new.     *)
PatchApplies(tree, after, grounded) ==
  \A p \in Changed(tree, after) :
    /\ IsText(after[p]) => ~EndsBlank(after[p])
    /\ tree[p] # <<Absent>> => p \in grounded

Accepted(tree, batch, grounded, forbidden) ==
  /\ BatchValid(tree, batch, grounded, forbidden)
  /\ Changed(tree, Candidate(tree, batch)) # {}
  /\ PatchApplies(tree, Candidate(tree, batch), grounded)

ApplyEditOperations(tree, batch, grounded, forbidden) ==
  IF Accepted(tree, batch, grounded, forbidden) THEN Candidate(tree, batch) ELSE tree
=============================================================================
