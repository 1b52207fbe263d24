------------------------- MODULE RegistryProperties -------------------------
(***************************************************************************)
(* What the index of projects and a bootstrap are expected to satisfy.     *)
(***************************************************************************)
EXTENDS ProjectRegistry, TLC

Symmetric == Permutations(Callers) \cup Permutations(Roots)

(* No id is in the file twice, however calls that read and rewrite it      *)
(* interleave; one call at a time, no workspace is registered twice        *)
(* (test_project_registry_rejects_duplicate_canonical_workspace_paths).    *)
IndexUnique ==
  \A e, f \in registry :
    e.id = f.id \/ (width = 1 /\ e.root = f.root) => e = f

(* A save drops or changes no entry but its own, of those that have been   *)
(* in the file since the call began: what is lost to a concurrent call is  *)
(* only what was written while it ran.                                     *)
SettledKept ==
  [][\A c \in Callers :
       pc[c] = "save" /\ pc'[c] = "idle" =>
         \A e \in settled[c] : e.id # want[c].id => e \in registry']_vars

(* Nothing a user had in a directory is lost to a bootstrap there.  One    *)
(* call at a time, what a bootstrap has made of a workspace is all or      *)
(* nothing, unless it is still at work, whichever file or command fails.   *)
BootstrapClean ==
  \A r \in Roots :
    /\ \A i \in given[r] : made[r][i] = User
    /\ width = 1 => \A c \in Callers :
         (\E i \in Items : made[r][i] = c) =>
           \/ \A i \in Items : made[r][i] = c
           \/ pc[c] \in Making \cup {"cleanup"} /\ want[c].root = r
=============================================================================
