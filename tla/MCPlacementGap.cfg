CONSTANTS
  Thread <- MCThread
  Var = {"x", "y", "c"}
  AssumesAllowSwitch = FALSE
  Problems <- MCProblems
  lock_limit = 2
SPECIFICATION Spec
INVARIANT NothingForbiddenInLoops
CHECK_DEADLOCK FALSE
