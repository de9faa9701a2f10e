CONSTANTS
  Entities = {e1}
  Values = {v1}
  NoAttributes = NoAttributes
  Absent = Absent
  Nil = Nil
  Writers = {w1, w2, b}
  BatchWriters = {b}
  MaxAttempts = 2
  MaxLog = 2
SPECIFICATION MCSpec
INVARIANTS Lockstep
PROPERTIES ImplementsLog
CHECK_DEADLOCK FALSE
