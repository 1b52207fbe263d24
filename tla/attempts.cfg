SPECIFICATION FairSpec
CONSTANTS
  RetryLimit = 2
  MaxScopeRepairs = 2
  ToolMess = {"grey", "forbidden"}
INVARIANTS
  TypeOK
  CoderCallsBounded
  NothingLeftBehind
  GivenTreeKept
PROPERTIES
  AcceptedIsReviewed
  HardFailureIsFinal
  AttemptsEnd
CHECK_DEADLOCK FALSE
