SPECIFICATION LiveLifeSpec
CONSTANTS
  Players = {s1}
  Askers = {a1}
  CatchupCap = 1
  MaxChanges = 1
  MaxBoots = 2
  None = None
  Torn = Torn
CHECK_DEADLOCK FALSE
INVARIANTS
  NobodySleepsThroughStop
  StartsAreStopped
  SaveCoversServed
  SaveIsWhole
PROPERTIES
  SaveNeverGoesBack
  StoppedServerEnds
