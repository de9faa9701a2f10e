CONSTANTS
  Sessions = {s1}
  Contents <- TwoInstances
  Bundles <- TwoInstances
  Missing = Missing
  Torn = Torn
  MaxWrites = 2
  Ids = {"i1", "i2"}
  MayFail = {"secrets", "driver", "append", "hook"}
  MayOverlap = FALSE
SPECIFICATION MCSpec
INVARIANTS HostMatches
PROPERTIES Undisturbed 
CHECK_DEADLOCK FALSE
