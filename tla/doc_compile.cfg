SPECIFICATION Spec
CONSTANTS
  Clients = {c1, c2}
  None = none
  Sources = {s1, s2}
  MaxAttempts = 2
SYMMETRY Symmetric
PROPERTY SuccessNotOverwritten
