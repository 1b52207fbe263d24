SPECIFICATION FairSpec
CONSTANTS
  p1 = p1
  p2 = p2
  r1 = r1
  r2 = r2
  Threads = {t1, t2}
  Clients = {c1, c2}
  Ids = {p1, p2}
  Roots = {r1, r2}
  None = none
  Outside = outside
  MaxJobs = 2
  Indexes <- ControlIndexes
  Budgets <- ControlBudgets
INVARIANTS
  SharedOnlyByMove
PROPERTIES
  ArchiveFrozen
  JobsEnd
