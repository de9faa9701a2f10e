CONSTANTS
  Callers = {c1, c2}
  Impatient = {}
  BudgetMax = 1
  MaxObjects = 1
  MaxLives = 3
SPECIFICATION Spec
INVARIANT OneProcess
CHECK_DEADLOCK FALSE
