CONSTANTS
  Sessions = {s1, s2}
  Contents = {x, y, z}
  Missing = Missing
  Torn = Torn
  MaxWrites = 3
SPECIFICATION MCSpec
PROPERTIES FirstCommitWins
CHECK_DEADLOCK FALSE
