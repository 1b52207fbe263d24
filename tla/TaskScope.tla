----------------------------- MODULE TaskScope ------------------------------
(***************************************************************************)
(* The scopes of a task (services/task_scope.py).  A path is a sequence of *)
(* segments, as it is written: "." is a segment of its own.  A scope is a  *)
(* set of paths.                                                           *)
(***************************************************************************)
EXTENDS Sequences, SequencesExt

CONSTANT SensitiveNames   \* names like .env, key.pem, secrets.json

ASSUME SensitiveAssumption == ".env" \in SensitiveNames

(* Path.resolve() and PurePosixPath drop the segments ".".                 *)
Resolve(path) ==
  LET kept[k \in 0 .. Len(path)] ==
        IF k = 0 THEN << >>
        ELSE IF path[k] = "." THEN kept[k - 1] ELSE Append(kept[k - 1], path[k])
  IN  kept[Len(path)]

PathMatches(path, scope) == \E boundary \in scope : IsPrefix(boundary, path)

IsBuiltinForbidden(path) ==
  \/ ".git" \in ToSet(path)
  \/ Last(Resolve(path)) \in SensitiveNames

IsForbidden(path, forbidden) == IsBuiltinForbidden(path) \/ PathMatches(path, forbidden)
=============================================================================
