SPECIFICATION LiveEditSpec
CONSTANTS
  Cells = {c1, c2}
  Beside <- SideBySide
  Writers = {w1, w2}
  Listeners = {s1}
  Backlog = 1
  MaxPending = 1
  PerTick = 1
  MaxVerbs = 2
  Worlds <- OpenAir
  None = None
INVARIANTS
  EverybodySees
  NoUpdateLost
PROPERTIES
  ReshapeKeepsTheBlock
  EverybodyEndsUpSeeing
