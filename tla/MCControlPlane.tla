--------------------------- MODULE MCControlPlane ---------------------------
(***************************************************************************)
(* Small instances of ControlPlane for TLC.                                *)
(***************************************************************************)
EXTENDS ControlProperties

CONSTANTS p1, p2, r1, r2

Budget(jobs, edits, cleanups) == [jobs |-> jobs, edits |-> edits, cleanups |-> cleanups]

(* Two requests that change the index beside two jobs; and one cleanup of  *)
(* two jobs' runs, or two of one run while its project changes, or three.  *)
ControlBudgets == {Budget(2, 2, 0), Budget(2, 0, 1), Budget(1, 1, 2), Budget(1, 0, 3)}

(* Up to the names of projects and workspaces, the others are these.       *)
ControlIndexes ==
  {{}, {[id |-> p1, root |-> r1]}, {[id |-> p1, root |-> r1], [id |-> p2, root |-> r2]}}

(* One project, one job and the deletion of its run.                       *)
HistoryBudgets == {Budget(1, 0, 1)}
HistoryIndexes == {{[id |-> p1, root |-> r1]}}
=============================================================================
