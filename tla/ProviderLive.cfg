SPECIFICATION FairSpec
CONSTANTS
  n1 = n1
  a1 = a1
  m1 = m1
  c1 = c1
  c2 = c2
  Network = {n1}
  Digit = {1, 2, 3}
  Cluster = {c1, c2}
  NoPool = NoPool
  NoEntry = NoEntry
  Others <- MCOthers
  Faults <- MCFaults
  MaxFaults = 1
  MaxOthers = 1
  MaxNow = 1
  NoRecord = NoRecord
  Assignment = {a1}
  ForProvider <- MCShortLease
  NoCR = NoCR
  NetworkCR = {m1}
  NetworkParams <- MCThreeAddresses
  NoNetworkCR = NoNetworkCR
  Pools <- MCNoNetworks
INVARIANTS
  NeverMoreThanAsked
PROPERTIES
  DeletionEnds
  KeepsItsAddresses
  ReadyAtLast
  PoolIsFilled
