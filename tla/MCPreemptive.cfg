SPECIFICATION Spec
CONSTANTS
  Thread <- Threads2
  Var <- Vars
  AssumesAllowSwitch = FALSE
  CondyieldIsAlwaysYield = TRUE
  Concurrent = TRUE
  DeadlockAutomaton = TRUE
  LocksetAt <- LocksTakenBefore
  Configurations <- WithLocks
CHECK_DEADLOCK FALSE
INVARIANTS
  PreemptiveHasNoScheduler
  NothingLost
  MutualExclusion
PROPERTIES
  RefinesPreemptive
