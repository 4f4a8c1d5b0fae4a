SPECIFICATION Spec
CONSTANTS
  n1 = n1
  n2 = n2
  d1 = d1
  d2 = d2
  c1 = c1
  Network = {n1}
  Digit = {d1, d2}
  Cluster = {c1}
  NoPool = NoPool
  NoEntry = NoEntry
  Statuses <- MCStatuses
  Clusters <- MCClusters
  Leases <- MCLeases
PROPERTIES
  LeaseSurvives
  ConversionIsStable
  ConversionIsRoundTrip
