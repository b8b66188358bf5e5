SPECIFICATION StoreSpec
CONSTANTS
  Columns = {1, 2}
  Centres = {1, 2}
  Ring <- MCRing
  Sessions = {s1}
  Holders = {s1}
  RetiredCap = 2
  None = 0
  Builders = {b1, b2}
  FillBatch = 2
INVARIANTS
  StoreTypeOK
  NoDuplicateWork
  NoLostWakeup
PROPERTIES
  ClaimedColumnIsBuilt
  DropEnds
