SPECIFICATION Spec
CONSTANTS
  p1 = p1
  p2 = p2
  r1 = r1
  r2 = r2
  Threads = {t1, t2}
  Clients = {c1}
  Ids = {p1}
  Roots = {r1}
  None = none
  Outside = outside
  MaxJobs = 1
  Indexes <- HistoryIndexes
  Budgets <- HistoryBudgets
PROPERTIES
  RemovedStaysRemoved
