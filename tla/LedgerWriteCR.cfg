SPECIFICATION FairSpec
CONSTANTS
  Addr = {a1}
  Client = {c1, Anonymous}
  Free = Free
  Anonymous = Anonymous
  p1 = p1
  p2 = p2
  w1 = w1
  w2 = w2
  w3 = w3
  Process = {p1, p2}
  Writer = {w1, w3}
  Home <- MCHomeTwo
  Source = "cr"
  Ledger <- MCLedger
  EmptyLedger <- MCEmptyLedger
  Edits <- MCEdits
  Op <- MCOp
  Change <- MCChange
  Stored <- MCStored
  MaxRevision = 2
  MaxLate = 1
  Nobody = Nobody
INVARIANTS
  SafeToCommit
PROPERTIES
  NoLostUpdate
  ImplementsAtomicLedger
  EveryWriteEnds
