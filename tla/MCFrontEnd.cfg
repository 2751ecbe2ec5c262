CONSTANTS
  Thread = {0}
  Var = {"x", "y", "z", "c", "l"}
  AssumesAllowSwitch = FALSE
  Sources <- MCSources
  max_states = 32
  max_threads = 3
  max_names = 3
SPECIFICATION Spec
INVARIANTS
  InstructionsKept
  GraphsAreUsable
  CallsReturn
  NoLockInsideStatement
CHECK_DEADLOCK FALSE
