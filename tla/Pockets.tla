------------------------------ MODULE Pockets ------------------------------
(***************************************************************************)
(* A session and what its player carries (play_loop, net/session.rs): the  *)
(* clicks, screens opened and closed, creative writes and pickups, and the *)
(* copy the server keeps of it (record_inventory), which is what a player  *)
(* who was disconnected comes back to.  A furnace goes on burning beside   *)
(* it, and another player may break the furnace and build it again.        *)
(*                                                                         *)
(* One step is one turn of the session's loop, in which it holds the only  *)
(* reference to the inventory, or one acquisition of the furnaces' lock.   *)
(***************************************************************************)
EXTENDS Inventory, Furnace

CONSTANTS
  Scenes      \* [benches: the blocks in reach, ground: what lies there,
              \* written: what a creative client writes, dragged: the slots
              \* drags go over, most: how many items copies and writes make]

ASSUME PocketsAssumption ==
  \A s \in Scenes : s.written \subseteq Sized /\ s.ground \in [Kinds -> Nat]

VARIABLES
  inv,        \* the session's Inventory
  screen,     \* Screen::window
  scene,      \* where it plays: one of Scenes, throughout
  stands,     \* whether the furnace block in reach is there
  cell,       \* the furnace in ctx.furnaces; NewFurnace where there is none
  ground,     \* ground[k]: how many k lie where the player stands
  recorded,   \* ctx.inventories[profile_id]
  did,        \* not in the code: what the last step was
  disturbed   \* not in the code: a slot of the drag has been written since

pocketVars == <<inv, screen, scene, stands, cell, ground, recorded, did, disturbed>>

Record(i) == [slots |-> Saved(i), selected |-> i.selected]

-----------------------------------------------------------------------------
(***************************************************************************)
(* How many there are of a kind.  A result is a picture and the furnace's  *)
(* slots are a copy: neither is counted.                                   *)
(***************************************************************************)
Count(stack, k) == IF stack.kind = k THEN stack.count ELSE 0
Real == Storage \ (Outputs \cup Range(FurnaceSlots))

Held(i, k) ==
  Cardinality({u \in Real \X (1..LargestStack) :
                 i.slots[u[1]].kind = k /\ u[2] <= i.slots[u[1]].count})
  + Count(i.cursor, k)
In(f, k) == Count(f.input, k) + Count(f.fuel, k) + Count(f.output, k)

Bag == [k \in Kinds |-> Held(inv, k) + In(cell, k) + ground[k]]
Total(b) == SumFunction(b)

HasRoom(i, k) == Place(i, One(k)).left = Empty

\* What a craft or a burn does to the bag.
AsBag(stack) == [k \in Kinds |-> Count(stack, k)]
Bagged(kinds) == [k \in Kinds |-> Cardinality({i \in DOMAIN kinds : kinds[i] = k})]
Leftovers(kinds) == Bagged([i \in DOMAIN kinds |-> Remainder[kinds[i]]])
Nothing == [k \in Kinds |-> 0]

Trades ==
  {[spent |-> Bagged(r.needs), made |-> AsBag(r.makes), left |-> Leftovers(r.needs)] :
      r \in Recipes}
  \cup
  {[spent |-> Bagged(<<r.template, r.base, r.addition>>), made |-> AsBag(r.makes),
    left |-> Nothing] : r \in Smithing}
  \cup
  UNION {{[spent |-> Bagged(<<k>>), made |-> AsBag(Cuts[k][i]), left |-> Nothing] :
            i \in DOMAIN Cuts[k]} : k \in Kinds}

Burns ==
  {[spent |-> Bagged(<<k>>), made |-> AsBag(Cooked[k]), left |-> Nothing] :
      k \in {j \in Kinds : Cooked[j] # Empty}}
  \cup
  {[spent |-> Bagged(<<k>>), made |-> Nothing, left |-> Leftovers(<<k>>)] : k \in Burning}

-----------------------------------------------------------------------------
Clicks(w) ==
  LET slots == Range(WindowSlots[w])
      dragged == slots \cap scene.dragged
      On(modes, s, buttons) == [mode : modes, slot : s, button : buttons]
  IN On({"pickup"}, slots \cup {"outside"}, 0..1)
     \cup On({"quick_move", "clone"}, slots, {0})
     \cup On({"swap"}, slots, DOMAIN Keys)
     \cup On({"throw"}, slots, 0..1)
     \cup On({"drag_over"}, dragged, 0..2)
     \cup On({"drag_start", "drag_end"}, IF dragged = {} THEN {} ELSE {"outside"}, 0..2)
     \cup On({"pickup_all"}, {"outside"}, 0..1)

Named(w, click) ==
  LET result == click.slot = Output[w]
  IN CASE click.mode = "throw" /\ result -> "waste"
       [] click.mode \in {"pickup", "quick_move", "swap"} /\ result -> "craft"
       [] click.mode = "throw" /\ ~result -> "discard"
       [] click.mode = "pickup" /\ click.slot = "outside" -> "discard"
       [] click.mode = "clone" -> "copy"
       [] click.mode = "swap" /\ ~result -> "stow"
       [] click.mode = "drag_end" -> IF disturbed THEN "blur"
                                     ELSE IF click.button = 2 THEN "copy" ELSE "move"
       [] OTHER -> "move"

\* Under the furnaces' lock the session's copy is refreshed, clicked in and
\* written back.
AtFurnace(i, click) ==
  LET seen == MirrorFurnace(i, [furnace_input |-> cell.input, furnace_fuel |-> cell.fuel,
                                furnace_output |-> cell.output])
      after == Click(seen, "furnace", click)
  IN [after EXCEPT !.changed = @ \cup seen.changed]

Left(i) == Refilled(cell, i.slots["furnace_input"], i.slots["furnace_fuel"],
                          i.slots["furnace_output"])

\* What a step of the session leaves, `changed` deciding whether it is recorded.
Becomes(i) ==
  /\ inv' = [i EXCEPT !.changed = {}]
  /\ recorded' = IF i.changed = {} THEN recorded ELSE Record(i)

Disturbs(i) == disturbed' = (i.drag.on /\ (disturbed \/ i.changed \cap i.drag.over # {}))

DoClick(click) ==
  LET after == IF screen = "furnace" THEN AtFurnace(inv, click) ELSE Click(inv, screen, click)
  IN /\ Becomes(after)
     /\ cell' = IF screen = "furnace" THEN Left(after) ELSE cell
     /\ did' = Named(screen, click)
     /\ disturbed' = (disturbed /\ after.drag.on /\ click.mode # "drag_start")
     /\ UNCHANGED <<scene, screen, stands, ground>>
     /\ did' \in {"copy", "craft", "blur"} => Total(Bag') <= scene.most

DoButton(index) ==
  /\ screen = "stonecutter"
  /\ Becomes(ChooseCut(inv, index))
  /\ did' = "move"
  /\ UNCHANGED <<scene, screen, stands, cell, ground, disturbed>>

\* Opening another screen shuts the one that is open, and records nothing.
Open(w) ==
  LET shut == IF screen = "player" THEN inv ELSE Closed(inv, screen)
      bare == ClearFurnaceMirror(shut)
      seen == IF w # "furnace" THEN bare
              ELSE MirrorFurnace(bare, [furnace_input |-> cell.input,
                                        furnace_fuel |-> cell.fuel,
                                        furnace_output |-> cell.output])
  IN /\ w \in scene.benches /\ (w = "furnace" => stands)
     /\ inv' = [seen EXCEPT !.changed = {}]
     /\ screen' = w
     /\ did' = "stow"
     /\ UNCHANGED <<scene, stands, cell, ground, recorded, disturbed>>

Close ==
  /\ Becomes(ClearFurnaceMirror(Closed(inv, screen)))
  /\ screen' = "player"
  /\ did' = "stow"
  /\ UNCHANGED <<scene, stands, cell, ground, disturbed>>

Select(slot) ==
  /\ inv' = [inv EXCEPT !.selected = slot]
  /\ recorded' = Record(inv')
  /\ did' = "move"
  /\ UNCHANGED <<scene, screen, stands, cell, ground, disturbed>>

Creative(slot, stack) ==
  LET after == SetCreative(inv, slot, stack)
  IN /\ Becomes(after)
     /\ did' = "conjure"
     /\ Disturbs(after)
     /\ UNCHANGED <<scene, screen, stands, cell, ground>>
     /\ Total(Bag') <= scene.most

\* What does not fit is put back on the ground.
PickUp(stack) ==
  LET end == Collect(inv, stack)
  IN /\ ground[stack.kind] >= stack.count
     /\ inv' = [end.inv EXCEPT !.changed = {}]
     /\ recorded' = Record(end.inv)
     /\ ground' = [ground EXCEPT ![stack.kind] = @ - stack.count + end.left.count]
     /\ did' = "move"
     /\ Disturbs(end.inv)
     /\ UNCHANGED <<scene, screen, stands, cell>>

\* The connection drops and the player joins again.
Rejoin ==
  /\ inv' = Restored(recorded.slots, recorded.selected)
  /\ screen' = "player"
  /\ did' = "leave"
  /\ disturbed' = FALSE
  /\ UNCHANGED <<scene, stands, cell, ground, recorded>>

-----------------------------------------------------------------------------
Burn1 ==
  /\ IsActive(cell)
  /\ cell' = FurnaceTick(cell)
  /\ did' = "fire"
  /\ UNCHANGED <<scene, inv, screen, stands, ground, recorded, disturbed>>

\* Another player's: the furnace is forgotten and its stacks popped.
BreakFurnace ==
  /\ stands
  /\ stands' = FALSE
  /\ ground' = [k \in Kinds |-> ground[k] + In(cell, k)]
  /\ cell' = NewFurnace
  /\ did' = "move"
  /\ UNCHANGED <<inv, screen, scene, recorded, disturbed>>

BuildFurnace ==
  /\ ~stands /\ "furnace" \in scene.benches
  /\ stands' = TRUE
  /\ did' = "move"
  /\ UNCHANGED <<inv, screen, scene, cell, ground, recorded, disturbed>>

-----------------------------------------------------------------------------
PocketsInit ==
  /\ inv = Fresh
  /\ screen = "player"
  /\ scene \in Scenes
  /\ stands = ("furnace" \in scene.benches)
  /\ cell = NewFurnace
  /\ ground = scene.ground
  /\ recorded = Record(Fresh)
  /\ did = "join"
  /\ disturbed = FALSE

PocketsNext ==
  \/ \E click \in Clicks(screen) : DoClick(click)
  \/ \E k \in Kinds : \E index \in DOMAIN Cuts[k] : DoButton(index)
  \/ \E w \in Windows : Open(w)
  \/ Close
  \/ \E slot \in DOMAIN Hotbar : Select(slot)
  \/ \E slot \in Range(Owned) \ {"crafting_output"} : \E stack \in scene.written : Creative(slot, stack)
  \/ \E k \in Kinds : \E n \in 1..StackSize[k] : PickUp([kind |-> k, count |-> n])
  \/ Rejoin
  \/ Burn1
  \/ BreakFurnace
  \/ BuildFurnace

PocketsSpec == PocketsInit /\ [][PocketsNext]_pocketVars

-----------------------------------------------------------------------------
PocketsTypeOK ==
  /\ inv \in Inventory /\ inv.changed = {}
  /\ cell \in FurnaceState /\ {cell.input, cell.fuel, cell.output} \subseteq Sized
  /\ ground \in [Kinds -> Nat]

\* Every result shown is what its cells make, and none is shown of nothing: a
\* result left behind by what made it could be taken for free.  Whatever writes
\* a cell (a click, a drag, a double click, a creative write, a close, a
\* screen opened over another, a stack come back from the record) refreshes it.
ResultsArePictures ==
  \A w \in {"player", "table", "stonecutter", "smithing"} :
    inv.slots[Output[w]] = Made(inv, w)

\* The whole of a session, its clicks in all five windows, the furnace burning
\* beside it and the record it comes back to, is a bag that obeys ItemBag: no
\* click makes an item or loses one that had room.
Promised == INSTANCE ItemBag WITH
  bag <- Bag, op <- did, room <- {k \in Kinds : HasRoom(inv, k)},
  Trades <- Trades \cup Burns, MostTrades <- LargestStack

KeepsItsItems == Promised!Spec

\* "Every slot in the drag joined it holding either nothing or a stack this one
\* merges with" (inventory.rs:2371), said where the drag's end writes over them.
\* A pickup or a creative write in the middle of a drag makes it false.
DraggedSlotsJoin ==
  inv.drag.on /\ inv.cursor # Empty =>
    \A s \in inv.drag.over : inv.slots[s].kind \in {NoKind, inv.cursor.kind}

\* A shifted click on a result makes that result: the loop goes on "until a call
\* moves nothing or the slot no longer holds the same item" (inventory.rs:1831,
\* and 1884 for results).  The code's loop for results does not look at the item.
ShiftMakesOneThing ==
  Cells[screen] # <<>> =>
    LET after == QuickMove(inv, screen, Output[screen])
        left == {Remainder[inv.slots[s].kind] : s \in {c \in Range(Cells[screen]) : inv.slots[c] # Empty}}
    IN \A k \in Kinds : Held(after, k) > Held(inv, k) =>
         k \in {inv.slots[Output[screen]].kind} \cup left
=============================================================================
