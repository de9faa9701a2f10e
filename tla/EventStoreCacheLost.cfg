CONSTANTS
  Entities = {e1}
  Values = {v1}
  NoAttributes = NoAttributes
  Absent = Absent
  Nil = Nil
  Writers = {w1, w2}
  BatchWriters = {}
  MaxAttempts = 2
  MaxLog = 2
SPECIFICATION Spec
INVARIANT CacheLockstep
CHECK_DEADLOCK FALSE
