SPECIFICATION MCSpec
CONSTANTS
  c1 = c1
  c2 = c2
  Commands = {c1, c2}
  MayFail = {"issued", "ingest"}
  Window = 2
  MaxEvents = 2
  MaxAnswers = 2
INVARIANTS NoWaiterForgotten NoSendOnClosed NoSilentDrop
PROPERTIES ImplementsLedger
CHECK_DEADLOCK FALSE
