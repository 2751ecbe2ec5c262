SPECIFICATION FairSpec
CONSTANTS
  Thread <- Threads2
  Var <- Vars
  AssumesAllowSwitch = FALSE
  CondyieldIsAlwaysYield = TRUE
  Concurrent = FALSE
  DeadlockAutomaton = FALSE
  Configurations <- LinesAndBranching
CHECK_DEADLOCK FALSE
INVARIANTS
  TypeOK
  NoSpuriousBlocking
PROPERTIES
  SwitchOnlyAtPreemptionPoint
  RefinesPreemptive
  Ends
