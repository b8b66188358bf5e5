SPECIFICATION StoreSpec
CONSTANTS
  Columns = {1}
  Centres = {}
  Ring <- MCRing
  Sessions = {}
  Holders = {t1}
  RetiredCap = 0
  None = 0
  Builders = {b1}
  FillBatch = 2
INVARIANTS
  HeldIsBuiltOrClaimed
