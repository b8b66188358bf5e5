SPECIFICATION EditSpec
CONSTANTS
  Cells = {c1, c2}
  Beside <- SideBySide
  Writers = {w1, w2}
  Listeners = {s1}
  Backlog = 4
  MaxPending = 9
  PerTick = 9
  MaxVerbs = 2
  Worlds <- AnyGround
  None = None
INVARIANTS
  RacesAreSeen
