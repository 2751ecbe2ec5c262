SPECIFICATION Spec
CONSTANTS
  Thread <- Threads2
  Var <- Vars
  AssumesAllowSwitch = FALSE
  CondyieldIsAlwaysYield = TRUE
  Concurrent = TRUE
  DeadlockAutomaton = TRUE
  Configurations <- LoopThatNotifies
CHECK_DEADLOCK FALSE
INVARIANTS
  BlockedThreadsAreReported
