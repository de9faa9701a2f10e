SPECIFICATION Spec
CONSTANTS
  Firings = {f1, f2}
  Manual = {}
  Modes = {"restart"}
  MaxCompiled = 1
  MaxQueued = 1
  None = None
INVARIANT Recorded
CHECK_DEADLOCK FALSE
