SPECIFICATION HSpec
CONSTANTS
  Thread <- Threads2
  Var <- Vars
  AssumesAllowSwitch = FALSE
  CondyieldIsAlwaysYield = TRUE
  Concurrent = TRUE
  DeadlockAutomaton = FALSE
  Configurations <- AllConfigurations
  MaxHistory = 7
CHECK_DEADLOCK FALSE
INVARIANTS
  OneObservation
  BitsAreExact
  RejectsExactlyTheForbidden
  NoDisjunctionRefuted
  SectionsDoNotOverlap
