CONSTANTS
  Callers = {c1}
  Impatient = {}
  BudgetMax = 1
  MaxObjects = 2
  MaxLives = 3
SPECIFICATION FairSpec
INVARIANTS OneProcess 
PROPERTIES QuarantineHolds ShutdownReturns
CHECK_DEADLOCK FALSE
