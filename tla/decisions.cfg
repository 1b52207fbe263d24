\* Pure decisions over bounded inputs.
SPECIFICATION Spec
CONSTANTS
  NTasks = 4
  SensitiveNames = {".env"}
  Absent = "absent"
  Directory = "directory"
  Blank = " "
INVARIANTS
  PlanDecided
  NoNewFailurePasses
  EditsAllOrNothing
CHECK_DEADLOCK FALSE
