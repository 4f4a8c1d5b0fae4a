SPECIFICATION Spec
CONSTANTS
  n1 = n1
  a1 = a1
  m1 = m1
  c1 = c1
  c2 = c2
  Network = {n1}
  Digit = {1, 2}
  Cluster = {c1, c2}
  NoPool = NoPool
  NoEntry = NoEntry
  Others <- MCRivals
  Faults <- MCFaults
  MaxFaults = 2
  MaxOthers = 2
  MaxNow = 2
  NoRecord = NoRecord
  Assignment = {a1}
  ForProvider <- MCForProvider
  NoCR = NoCR
  NetworkCR = {m1}
  NetworkParams <- MCNetworkParams
  NoNetworkCR = NoNetworkCR
  Pools <- MCFirstAddress
INVARIANTS
  TypeOK
  GoneLeavesNothing
PROPERTIES
  TakesOnlyWhatItSaw
  LeaseOutlivesHalf
  RetriesDNS
  NetworkKeepsEntries
