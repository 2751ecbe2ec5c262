SPECIFICATION FairSpec
CONSTANTS
  Thread <- Threads2
  Var <- Vars
  AssumesAllowSwitch = FALSE
  CondyieldIsAlwaysYield = TRUE
  Configurations <- SearchConfigurations
CHECK_DEADLOCK FALSE
INVARIANTS
  CounterexampleIsShortest
  NoneMissed
  FrontierCoversRest
  SequentialDeadlocksArePreemptive
PROPERTIES
  Ends
