SPECIFICATION FairSpec
CONSTANTS
  Owners = {o1, o2}
  NoOwner = NoOwner
  Pids = {p1, p2}
  NoPid = NoPid
  MaxBirths = 4
  MaxCrashes = 2
INVARIANTS
  TypeOK
  AtMostOneModel
  OnlyStaleModelsSignalled
  StrayModelIsKnown
PROPERTIES
  SlotSpec
  LockReleased
