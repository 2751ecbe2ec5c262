CONSTANTS
  Thread = {0}
  Var = {"x", "y", "z", "c", "l"}
  AssumesAllowSwitch = FALSE
  Sources <- MCSources
  max_states = 32
  max_threads = 3
  max_names = 3
SPECIFICATION Spec
INVARIANT
  PositionsOfReturn
CHECK_DEADLOCK FALSE
