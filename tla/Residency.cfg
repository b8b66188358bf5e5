SPECIFICATION Spec
CONSTANTS
  Columns <- MCColumns
  Centres <- MCCentres
  Ring <- MCRing
  Sessions = {s1, s2}
  Holders = {h1}
  RetiredCap = 1
  None = None
INVARIANTS
  RefcountExact
PROPERTIES
  HeldStaysBuilt
