SPECIFICATION Spec
CONSTANTS
  Callers = {c1, c2}
  Ids = {p1, p2}
  Roots = {r1, r2}
  User = user
  Nobody = nobody
SYMMETRY Symmetric
INVARIANTS
  IndexUnique
  BootstrapClean
PROPERTIES
  SettledKept
