SPECIFICATION PocketsSpec
CONSTANTS
  Kinds <- MCKinds
  StackSize <- MCStackSize
  Remainder <- MCRemainder
  Burn <- MCBurn
  Cooked <- MCCooked
  CookTicks = 2
  Worn <- MCWorn
  Recipes <- MCRecipes
  Cuts <- MCCuts
  Smithing <- MCSmithing
  Buckets = {}
  Grid <- MCGrid
  TableGrid <- MCTable
  Armour <- MCArmour
  Main <- MCMain
  Hotbar <- MCHotbar
  Scenes <- MCScenes
INVARIANTS
  DraggedSlotsJoin
VIEW WithoutDid
