CONSTANTS
  Thread <- MCThread
  Var = {"x", "y", "c"}
  AssumesAllowSwitch = FALSE
  Problems <- MCProblems
  lock_limit = 2
SPECIFICATION Spec
INVARIANTS
  HeldAsPlanned
  NoCircularWait
  ReleasedAtEnd
  NothingForbidden
CHECK_DEADLOCK FALSE
