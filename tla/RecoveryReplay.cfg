CONSTANTS
  Entities = {e1}
  Values = {v1}
  NoAttributes = NoAttributes
  Absent = Absent
  Nil = Nil
  Inputs <- EntityInputs
  Snappers = {ticker, rpc}
  Retain = 2
  BatchLimit = 2
  MaxLog = 3
  MaxCrashes = 2
  MaxSkips = 1
SPECIFICATION Spec
INVARIANTS RecoveredExactly RegistryExact SnapshotIsPast
PROPERTIES RestorePointKept
CHECK_DEADLOCK FALSE
