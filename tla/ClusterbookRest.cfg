SPECIFICATION FairSpec
CONSTANTS
  n1 = n1
  n2 = n2
  d1 = d1
  d2 = d2
  c1 = c1
  c2 = c2
  p1 = p1
  p2 = p2
  h1 = h1
  h2 = h2
  rc = rc
  Network = {n1}
  Digit = {d1, d2}
  Cluster = {c1, c2}
  NoPool = NoPool
  NoEntry = NoEntry
  Process = {p1}
  Writer = {h1, rc}
  Home <- MCHome
  Source = "disk"
  Nobody = Nobody
  Requests <- MCRest
  Reclaimer = {rc}
  Providers <- MCPDNS
  Faults = {"load", "save"}
  Pools <- MCPools
  MaxNow = 1
  MaxLease = 1
  MaxRevision = 0
  NoRecord = NoRecord
  NoRequest = NoRequest
INVARIANTS
  NoOrphanRecord
  DNSVerdictTrue
PROPERTIES
  DNSFollowsLedger
  ExpiredIsReclaimed
