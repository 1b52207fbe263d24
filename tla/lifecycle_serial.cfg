SPECIFICATION FairSpec
CONSTANTS
  Workers = {w1}
  Runs = {r1, r2}
  NTasks = 5
  Main = main
  None = none
  Orphan = orphan
  Kind <- ChainKind
  Deps <- ChainDeps
  Risky = {4}
  MaxFaults = 0
INVARIANTS
  PassedHasCheckpoint
  BuildsOnCheckpoints
  UnreachedExplained
PROPERTY SlotReleased
CHECK_DEADLOCK FALSE
