SPECIFICATION Spec
CONSTANTS
  Thread <- Threads2
  Var <- Vars
  AssumesAllowSwitch = FALSE
  Programs <- MCPrograms
  MaxRounds = 4
  max_bound = 2
CHECK_DEADLOCK FALSE
INVARIANTS GivesUpBeyondBound VerdictIsRight OriginalTraceIsBad SequentialKept ExcludedWithoutWaits RemovalLosesNothing LocksAreUsable
