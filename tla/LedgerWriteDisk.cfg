SPECIFICATION FairSpec
CONSTANTS
  Addr = {a1, a2}
  Client = {c1, Anonymous}
  Free = Free
  Anonymous = Anonymous
  p1 = p1
  p2 = p2
  w1 = w1
  w2 = w2
  w3 = w3
  Process = {p1}
  Writer = {w1, w2, w3}
  Home <- MCHomeOne
  Source = "disk"
  Ledger <- MCLedger
  EmptyLedger <- MCEmptyLedger
  Edits <- MCNoEdits
  Op <- MCOp
  Change <- MCChange
  Stored <- MCStored
  MaxRevision = 0
  MaxLate = 1
  Nobody = Nobody
INVARIANTS
  TypeOK
  MutualExclusion
PROPERTIES
  NoLostUpdate
  EveryWriteEnds
