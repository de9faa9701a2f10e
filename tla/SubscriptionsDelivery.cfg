SPECIFICATION MCSpec
CONSTANTS
  s1 = s1
  k1 = k1
  k2 = k2
  Subs = {s1}
  Kinds = {k1, k2}
  Filter <- OneKind
  Buffer = 1
  Limit = 2
  History = 1
  MaxLog = 3
INVARIANTS DeliveredExactly NoEventMissed NoSendOnClosed
PROPERTIES CloseReturns EventuallyDelivered
CHECK_DEADLOCK FALSE
