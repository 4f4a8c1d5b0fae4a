SPECIFICATION Spec
CONSTANTS
  n1 = n1
  a1 = a1
  m1 = m1
  c1 = c1
  c2 = c2
  Network = {n1}
  Digit = {1, 2}
  Cluster = {c1, c2}
  NoPool = NoPool
  NoEntry = NoEntry
  Others <- MCRivals
  Faults <- MCFaults
  MaxFaults = 2
  MaxOthers = 0
  MaxNow = 0
  NoRecord = NoRecord
  Assignment = {a1}
  ForProvider <- MCOneAddress
  NoCR = NoCR
  NetworkCR = {m1}
  NetworkParams <- MCNetworkParams
  NoNetworkCR = NoNetworkCR
  Pools <- MCFirstAddress
PROPERTIES
  NeverSettlesWithoutRecord
