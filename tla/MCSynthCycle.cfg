SPECIFICATION Spec
CONSTANTS
  Thread <- Threads3
  Var <- Vars
  AssumesAllowSwitch = FALSE
  Programs <- Cycle
  MaxRounds = 4
  max_bound = 2
CHECK_DEADLOCK FALSE
INVARIANT SafeWhenDone
