SPECIFICATION LifeSpec
CONSTANTS
  Players = {s1}
  Askers = {a1}
  CatchupCap = 1
  MaxChanges = 1
  MaxBoots = 1
  None = None
  Torn = Torn
CHECK_DEADLOCK FALSE
PROPERTIES
  NothingMovesWhileSaved
