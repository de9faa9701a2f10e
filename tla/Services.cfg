CONSTANTS
  MaxChanges = 4
  k1 = k1
  k2 = k2
  p1 = p1
  p2 = p2
  p3 = p3
  i1 = i1
  i2 = i2
  Timed = {k1, k2}
  Period = 2
  ReadyCap = 1
  MaxTime = 6
  Calls = {k1, k2}
  NoRun = p1
  Packs = {p1, p2, p3}
  NoPack = i1
  Clash <- TwoVersions
  Installers = {i1, i2}
  Requests = {i1, i2}
  MaxSecrets = 3
  Names <- ActionNames
  HasPrefix <- StartsWith
  Empty <- NoName
  Labels = {p1}
  Tokens = {i1, i2}
  Session = p1
  Widest = 2
  Lights = {p1, p2}
  Gone = p3
  MaxShocks = 2
  UiCalls = {k1, k2}
  NoUiCall = p1
  MaxEvents = 3
  MaxWire = 2
  MaxBreaks = 3
  SrcBuffer = 1
  BufSize = 1
  MaxRows = 3
  MaxStreams = 2
  Devices = {p1, p2}
  EntitiesFor <- EntitiesOf
  Friendly = {i1, i2}
  Unpaired = p3
  MaxPairings = 3
  MaxInbox = 2
  MaxOutages = 1
SPECIFICATION FairSpec
CHECK_DEADLOCK FALSE
INVARIANTS HoldCancellable WaitedIsRecorded PacksAgree UsedOnce DelegationNarrows 
PROPERTIES HoldDelivered DueFires MirrorsBulb TruthKept CatchesUp StreamCleansUp 
