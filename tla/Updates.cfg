SPECIFICATION LiveUpdatesSpec
CONSTANTS
  Height = 6
  Worlds <- MCWorlds
  Held <- MCHeld
  Reach = 4
  FallDelay = 2
  DecayHorizon = 2
  Lifetime = 600
  MaxFalling = 1
  MaxPending = 5
  PerTick = 3
  MaxVerbs = 2
  MaxStops = 1
INVARIANTS
  UpdatesTypeOK
  NothingHangs
  EverySandIsSomewhere
PROPERTIES
  WorldSettles
CHECK_DEADLOCK FALSE
