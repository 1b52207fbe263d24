SPECIFICATION Spec
CONSTANTS
  Workers = {w1, w2}
  Runs = {r1, r2}
  NTasks = 2
  Main = main
  None = none
  Orphan = orphan
  Kind <- CodeKind
  Deps <- CodeDeps
  Risky = {}
  MaxFaults = 1
SYMMETRY Symmetric
INVARIANT PassedHasCheckpoint
CHECK_DEADLOCK FALSE
