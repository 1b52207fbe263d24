SPECIFICATION Spec
CONSTANTS
  Workers = {w1, w2}
  Runs = {r1, r2}
  NTasks = 2
  Main = main
  None = none
  Orphan = orphan
  Kind <- PairKind
  Deps <- PairDeps
  Risky = {2}
  MaxFaults = 1
SYMMETRY Symmetric
INVARIANTS
  TypeOK
  AtMostOneExecution
  WorksOnAgentBranch
  TreeIsOwnWork
  GateHeld
  DependenciesDone
PROPERTY IsolationSpec
CHECK_DEADLOCK FALSE
