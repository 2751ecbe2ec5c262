SPECIFICATION FairSpec
CONSTANTS
  Thread <- Threads
  Var <- Vars
  AssumesAllowSwitch = FALSE
  Inputs <- MCInputs
CHECK_DEADLOCK FALSE
INVARIANTS TypeOK BadTracesAreNotSequential OnlySequentialRemoved BadTracesAreComplete
PROPERTY Returns
