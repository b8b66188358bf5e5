----------------------------- MODULE MCPockets -----------------------------
(***************************************************************************)
(* Small tables that have every case: wood burns and is crafted, a plate   *)
(* is worn and cooks, a pail does not stack, burns and leaves a plate.  A  *)
(* pocket of two slots is full at once.  The scenes have one bench each.   *)
(***************************************************************************)
EXTENDS Pockets

MCKinds == {"wood", "plate", "pail"}
MCStackSize == [wood |-> 2, plate |-> 2, pail |-> 1]
MCRemainder == [wood |-> NoKind, plate |-> NoKind, pail |-> "plate"]
MCBurn == [wood |-> 1, plate |-> 0, pail |-> 1]
MCCooked == [wood |-> Empty, plate |-> One("pail"), pail |-> Empty]
MCWorn == [wood |-> NoSlot, plate |-> "head", pail |-> NoSlot]
MCRecipes ==
  { [needs |-> <<"wood", "wood">>, makes |-> One("pail")],
    [needs |-> <<"wood">>, makes |-> [kind |-> "plate", count |-> 2]] }
MCCuts == [wood |-> <<One("plate"), One("pail")>>, plate |-> <<>>, pail |-> <<>>]
MCSmithing == {[template |-> "wood", base |-> "plate", addition |-> "pail", makes |-> One("pail")]}
MCGrid == <<"grid1", "grid2">>
MCTable == <<"table1", "table2">>
MCArmour == <<"head">>
MCMain == <<"main1">>
MCHotbar == <<"hotbar1">>
Bag3(w, p, q) == [wood |-> w, plate |-> p, pail |-> q]
MCScenes ==
  { [benches |-> {"table"}, ground |-> Bag3(2, 0, 0), written |-> {One("pail")},
     dragged |-> {"grid1", "hotbar1", "table1"}, most |-> 2],
    [benches |-> {"furnace"}, ground |-> Bag3(1, 1, 0), written |-> {},
     dragged |-> {}, most |-> 2],
    [benches |-> {"stonecutter"}, ground |-> Bag3(2, 0, 0), written |-> {},
     dragged |-> {}, most |-> 2],
    [benches |-> {"smithing"}, ground |-> Bag3(1, 1, 1), written |-> {},
     dragged |-> {}, most |-> 3] }

\* `did` names the step, and no property reads it of the state before.
WithoutDid == <<inv, screen, scene, stands, cell, ground, recorded, disturbed>>
=============================================================================
