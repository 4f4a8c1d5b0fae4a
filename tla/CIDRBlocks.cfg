SPECIFICATION FairSpec
CONSTANTS
  Width = 6
  OctetBits = 2
  MaskLens <- MCMaskLens
  MaxKeys = 4
  MaxPool = 5
  Reserved <- MCReserved
INVARIANTS
  PoolsAreUsable
  IPListIsSorted
PROPERTIES
  TerminatesButForAll
