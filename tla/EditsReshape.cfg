SPECIFICATION EditSpec
CONSTANTS
  Cells = {c1, c2}
  Beside <- SideBySide
  Writers = {w1, w2}
  Listeners = {}
  Backlog = 1
  MaxPending = 2
  PerTick = 2
  MaxVerbs = 3
  Worlds <- AnyGround
  None = None
CHECK_DEADLOCK FALSE
PROPERTIES
  ReshapeIsNoPlacement
