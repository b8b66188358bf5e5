SPECIFICATION FurnacesSpec
CONSTANTS
  Kinds <- MCKinds
  StackSize <- MCStackSize
  Remainder <- MCRemainder
  Burn <- MCBurn
  Cooked <- MCCooked
  CookTicks = 4
  Blocks = {b1, b2}
  Players = {s1}
  Inputs <- MCInputs
  Fuels <- MCFuels
  None = None
INVARIANTS
  FurnacesTypeOK
  TickSetExact
  WatchedExact
PROPERTIES
  TicksEveryFurnace
  FiresFinish
