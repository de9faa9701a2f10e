SPECIFICATION Spec
CONSTANTS
  Firings = {f1, f2, f3}
  Manual = {f3}
  Modes = {"single", "restart", "queued", "parallel"}
  MaxCompiled = 2
  MaxQueued = 1
  None = None
INVARIANTS SingleIsExclusive RestartKeepsNewest  InFlightCounts QueueServed
SYMMETRY Symmetry
CHECK_DEADLOCK FALSE
