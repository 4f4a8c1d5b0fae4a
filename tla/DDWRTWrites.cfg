SPECIFICATION Spec
CONSTANTS
  f1 = f1
  f2 = f2
  Process = {p1, p2}
  Hostname = {c1, c2}
  IP = {i1, i2}
  Options <- MCOptions
  MaxCalls = 3
  MaxReboots = 1
  NoHost = NoHost
  NoTask = NoTask
  NoRecord = NoRecord
  Stopped = Stopped
INVARIANTS
  WriteTakesHold
  ForeignLinesKept
  OneLinePerHost
PROPERTIES
  OthersKept
