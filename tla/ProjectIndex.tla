---------------------------- MODULE ProjectIndex ----------------------------
(***************************************************************************)
(* What the index of projects checks of an entry against a list of entries *)
(* it has read (services/project_registry.py).                             *)
(*                                                                         *)
(* A definition named Seeded... is the one after it with a bug.            *)
(***************************************************************************)

Registered(id, list) == \E e \in list : e.id = id

(* _assert_workspace_not_registered(root, list, excluding=id).             *)
Taken(e, list) == \E f \in list : f.id # e.id /\ f.root = e.root

SeededRegistrable(e, list) == ~Taken(e, list)

Registrable(e, list) == ~Registered(e.id, list) /\ ~Taken(e, list)

Replaced(e, list) == {IF f.id = e.id THEN e ELSE f : f \in list}

Without(id, list) == {e \in list : e.id # id}
=============================================================================
