SPECIFICATION ItemsSpec
CONSTANTS
  Sessions = {s1}
  Kinds = {k1}
  Places = {0, 1, 9}
  Ids = {1, 2, 3}
  MaxStack = 2
  Slots = 1
  TickRadius = 0
  PickupReach = 0
  MergeReach = 0
  ViewReach = 1
  Lifetime = 2
  PickupDelay = 1
  MaxEntities = 2
  Backlog = 2
  Floor = {0, 1}
  Cells = {0}
  Rolls = {1, 2}
  MaxMade = 3
INVARIANTS
  ItemsTypeOK
  EveryItemIsSomewhere
  ClientShowsTheGround
  FallingIsClaimed
