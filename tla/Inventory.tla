----------------------------- MODULE Inventory -----------------------------
(***************************************************************************)
(* What a player carries, and what a click does to it (net/inventory.rs).  *)
(* Pure operators on one record; Pockets has the session that calls them.  *)
(* A slot is a name; a run of slots is a sequence in their indices' order. *)
(***************************************************************************)
EXTENDS Stacks, FiniteSets, Functions

CONSTANTS
  Worn,           \* Worn[k]: the armour slot it is worn in, or NoSlot
  Recipes,        \* [needs: the kinds laid in a grid, makes: a stack]
  Cuts,           \* Cuts[k]: the stacks a stonecutter offers for it, in order
  Smithing,       \* [template, base, addition: kinds, makes: a stack]
  Buckets,        \* what a fuel slot takes and does not burn
  Grid, TableGrid, Armour, Main, Hotbar   \* runs of slots

NoSlot == "no slot"

Carried == Main \o Hotbar
Backwards(run) == [i \in DOMAIN run |-> run[Len(run) + 1 - i]]
FurnaceSlots == <<"furnace_input", "furnace_fuel", "furnace_output">>
Smith == <<"smith_template", "smith_base", "smith_addition">>

\* The slots of each window, in the order the wire numbers them.
WindowSlots ==
  [ player      |-> <<"crafting_output">> \o Grid \o Armour \o Carried \o <<"offhand">>,
    table       |-> <<"table_output">> \o TableGrid \o Carried,
    furnace     |-> FurnaceSlots \o Carried,
    stonecutter |-> <<"cut_input", "cut_output">> \o Carried,
    smithing    |-> Smith \o <<"smith_output">> \o Carried ]
Windows == DOMAIN WindowSlots

\* What the player owns is saved by slot; the rest belongs to open screens.
Owned == WindowSlots.player
Storage == UNION {Range(WindowSlots[w]) : w \in Windows}

\* The cells a window's result is made of, and where the result is shown.
Cells == [ player |-> Grid, table |-> TableGrid, furnace |-> <<>>,
           stonecutter |-> <<"cut_input">>, smithing |-> Smith ]
Output == [ player |-> "crafting_output", table |-> "table_output",
            furnace |-> NoSlot, stonecutter |-> "cut_output",
            smithing |-> "smith_output" ]
Outputs == Range(Output)

\* What a slot may hold: nothing, or as much as stacks.
Sized == {stack \in Stack : stack.count <= StackSize[stack.kind]} \cup {Empty}

\* A slot is in one place only.
Regions ==
  << Range(FurnaceSlots) \cup Range(Smith) \cup Outputs \cup {"cut_input", "offhand"},
     Range(Grid), Range(TableGrid), Range(Armour), Range(Main), Range(Hotbar) >>

\* A result that is more than a stack is refused (result_stack, crafting.rs),
\* and so is a pattern of nothing.
ASSUME InventoryAssumption ==
  /\ IsFiniteSet(Kinds) /\ Kinds # {}
  /\ {Grid, TableGrid, Armour, Main, Hotbar} \subseteq Seq(Storage) /\ Hotbar # <<>>
  /\ \A i, j \in DOMAIN Regions : i # j => Regions[i] \cap Regions[j] = {}
  /\ Worn \in [Kinds -> Range(Armour) \cup {NoSlot}]
  /\ Cuts \in [Kinds -> Seq(Sized)]
  /\ \A r \in Recipes : r.needs # <<>> /\ r.makes \in Sized
  /\ \A r \in Smithing : r.makes \in Sized

SlotLimit(slot, kind) == IF slot \in Range(Armour) THEN 1 ELSE StackSize[kind]

\* A bench with no recipes, like a fuel table never read, refuses nothing.
MayPlace(slot, kind) ==
  /\ slot \notin Outputs \cup {"furnace_output"}
  /\ slot \in Range(Armour) => Worn[kind] = slot
  /\ slot = "furnace_fuel" /\ Burning # {} => kind \in Burning \cup Buckets
  /\ slot \in Range(Smith) /\ Smithing # {} =>
       \E r \in Smithing : CASE slot = "smith_template" -> r.template = kind
                             [] slot = "smith_base"     -> r.base = kind
                             [] slot = "smith_addition" -> r.addition = kind

Writable(slot) == slot \notin Outputs

-----------------------------------------------------------------------------
NoDrag == [on |-> FALSE, kind |-> 0, over |-> {}]

\* `choice` is cut_choice, 0 for None, and `cutOf` cut_input.  `changed` is
\* the Changed a call returns, with "cursor" for the cursor.
Inventory ==
  [ slots : [Storage -> Sized], cursor : Sized,
    selected : DOMAIN Hotbar,
    drag : [on : BOOLEAN, kind : 0..2, over : SUBSET {s \in Storage : Writable(s)}],
    choice : Nat, cutOf : Kinds \cup {NoKind},
    changed : SUBSET (Storage \cup {"cursor"}) ]

Fresh == [ slots |-> [s \in Storage |-> Empty], cursor |-> Empty, selected |-> 1,
           drag |-> NoDrag, choice |-> 0, cutOf |-> NoKind, changed |-> {} ]

Put(inv, slot, stack) ==
  [inv EXCEPT !.slots[slot] = stack, !.changed = @ \cup {slot}]
Hold(inv, stack) == [inv EXCEPT !.cursor = stack, !.changed = @ \cup {"cursor"}]
Show(inv, slot, stack) == IF inv.slots[slot] = stack THEN inv ELSE Put(inv, slot, stack)

\* n of what the cursor holds go into a slot that is empty or has more of it.
Room(inv, slot, kind) == SlotLimit(slot, kind) - inv.slots[slot].count
Joins(inv, slot, kind) ==
  /\ MayPlace(slot, kind)
  /\ inv.slots[slot].kind \in {NoKind, kind}
  /\ Room(inv, slot, kind) > 0

-----------------------------------------------------------------------------
(***************************************************************************)
(* Moving a stack into a run of slots: first onto stacks of its kind, then *)
(* into the first free slot.  What is left over is the caller's.           *)
(***************************************************************************)
Grow(a, slot) ==
  LET moved == Lower(a.left.count, Room(a.inv, slot, a.left.kind))
  IN IF a.left # Empty /\ a.inv.slots[slot].kind = a.left.kind /\ moved > 0
     THEN [ inv  |-> Put(a.inv, slot, More(a.inv.slots[slot], moved)),
            left |-> Less(a.left, moved) ]
     ELSE a

\* The first of a run that is one of S.
FirstOf(run, S) ==
  CHOOSE i \in DOMAIN run : run[i] \in S /\ \A j \in 1..i - 1 : run[j] \notin S

Settle(a, run) ==
  LET free == {s \in Range(run) : a.inv.slots[s] = Empty /\ MayPlace(s, a.left.kind)}
      slot == run[FirstOf(run, free)]
      moved == Lower(a.left.count, SlotLimit(slot, a.left.kind))
  IN IF a.left = Empty \/ free = {} THEN a
     ELSE [ inv  |-> Put(a.inv, slot, [a.left EXCEPT !.count = moved]),
            left |-> Less(a.left, moved) ]

MoveInto(inv, stack, run) ==
  Settle(Through(Grow, [inv |-> inv, left |-> stack], run), run)

\* Where what a player is given goes, and with `collect` what does not fit.
Place(inv, stack) ==
  Settle(Through(Grow, [inv |-> inv, left |-> stack],
                  <<Hotbar[inv.selected], "offhand">> \o Hotbar \o Main),
         Hotbar \o Main)
Collect(inv, stack) == Place([inv EXCEPT !.changed = {}], stack)
Give(inv, stack) == Place(inv, stack).inv

-----------------------------------------------------------------------------
(***************************************************************************)
(* The slot that shows what the cells of a window would make.              *)
(***************************************************************************)
Filled(kinds) ==
  LET Fill(laid, kind) == IF kind = NoKind THEN laid ELSE Append(laid, kind)
  IN Through(Fill, <<>>, kinds)
Laid(inv, w) == Filled([i \in DOMAIN Cells[w] |-> inv.slots[Cells[w][i]].kind])

Matching(inv, w) ==
  IF w = "smithing"
  THEN {r \in Smithing : <<r.template, r.base, r.addition>> = Laid(inv, w)}
  ELSE {r \in Recipes : r.needs = Laid(inv, w)}

CutList(inv) ==
  IF inv.slots["cut_input"] = Empty THEN <<>> ELSE Cuts[inv.slots["cut_input"].kind]

Made(inv, w) ==
  IF w = "stonecutter"
  THEN IF inv.choice \in DOMAIN CutList(inv) THEN CutList(inv)[inv.choice] ELSE Empty
  ELSE IF Matching(inv, w) = {} THEN Empty
       ELSE (CHOOSE r \in Matching(inv, w) : TRUE).makes

\* A stonecutter forgets the cut chosen when what is cut becomes another item.
Rechosen(inv) ==
  LET now == inv.slots["cut_input"].kind
  IN IF now = inv.cutOf THEN inv ELSE [inv EXCEPT !.cutOf = now, !.choice = 0]

RefreshOutput(inv, w) ==
  LET seen == IF w = "stonecutter" THEN Rechosen(inv) ELSE inv
  IN Show(seen, Output[w], Made(seen, w))

Refreshed(inv) ==
  LET Again(i, w) == IF i.changed \cap Range(Cells[w]) = {} THEN i ELSE RefreshOutput(i, w)
  IN Through(Again, inv, <<"player", "table", "stonecutter", "smithing">>)

\* One of a cell's stack is spent; crafting leaves its remainder in the cell
\* if it can, and otherwise gives it to the player, who may have no room.
SpendPlain(inv, slot) ==
  IF inv.slots[slot] = Empty THEN inv ELSE Put(inv, slot, Less(inv.slots[slot], 1))

SpendCrafted(inv, slot) ==
  LET spent == SpendPlain(inv, slot)
      rest == spent.slots[slot]
      left == Remainder[inv.slots[slot].kind]
  IN IF inv.slots[slot] = Empty \/ left = NoKind THEN spent
     ELSE IF rest = Empty THEN Put(spent, slot, One(left))
     ELSE IF rest.kind = left /\ rest.count < StackSize[left]
     THEN Put(spent, slot, More(rest, 1))
     ELSE Give(spent, One(left))

TakeResult(inv, w) ==
  LET Spend(i, slot) == IF w \in {"player", "table"} THEN SpendCrafted(i, slot)
                                                     ELSE SpendPlain(i, slot)
  IN RefreshOutput(Through(Spend, inv, Cells[w]), w)

ChooseCut(inv, index) ==
  LET bare == [inv EXCEPT !.changed = {}]
  IN IF index \in DOMAIN CutList(inv)
     THEN RefreshOutput([bare EXCEPT !.choice = index], "stonecutter")
     ELSE bare

-----------------------------------------------------------------------------
(***************************************************************************)
(* The clicks.  Each gives the inventory after it.                         *)
(***************************************************************************)
PickupOutside(inv, button) ==
  IF inv.cursor = Empty THEN inv
  ELSE Hold(inv, IF button = 0 THEN Empty ELSE Less(inv.cursor, 1))

\* A slip: more is taken onto the cursor than it stacks.
PickupResultOver(inv, w) ==
  LET made == inv.slots[Output[w]]
  IN IF made = Empty \/ inv.cursor.kind \notin {NoKind, made.kind} THEN inv
     ELSE TakeResult(Hold(inv, More(made, inv.cursor.count)), w)

PickupResult(inv, w) ==
  LET made == inv.slots[Output[w]]
      total == inv.cursor.count + made.count
  IN IF \/ made = Empty
        \/ inv.cursor.kind \notin {NoKind, made.kind}
        \/ total > StackSize[made.kind]
     THEN inv
     ELSE TakeResult(Hold(inv, [made EXCEPT !.count = total]), w)

Take(inv, slot, n) ==
  LET there == inv.slots[slot]
  IN Hold(Put(inv, slot, Less(there, n)), [there EXCEPT !.count = n])

\* The left button takes all and lays all, the right one half and one.
PickupSlot(inv, slot, button) ==
  LET held == inv.cursor
      there == inv.slots[slot]
      moved == Lower(IF button = 0 THEN held.count ELSE 1, Room(inv, slot, held.kind))
  IN IF held = Empty
     THEN IF there = Empty THEN inv
          ELSE Take(inv, slot, IF button = 0 THEN there.count ELSE (there.count + 1) \div 2)
     ELSE IF Joins(inv, slot, held.kind)
     THEN Hold(Put(inv, slot, [held EXCEPT !.count = there.count + moved]), Less(held, moved))
     ELSE IF MayPlace(slot, held.kind) /\ held.count <= SlotLimit(slot, held.kind)
     THEN Hold(Put(inv, slot, held), there)
     ELSE inv

Pickup(inv, w, slot, button) ==
  IF slot = "outside" THEN PickupOutside(inv, button)
  ELSE IF slot = Output[w] THEN PickupResult(inv, w)
  ELSE PickupSlot(inv, slot, button)

\* Where a shifted click sends a stack: runs tried in order.
AcrossFrom(slot) == IF slot \in Range(Main) THEN Hotbar ELSE Main

Destinations(inv, w, slot) ==
  LET kind == inv.slots[slot].kind
      home == slot \in Range(Carried)
      fits == {s \in Range(Smith) : MayPlace(s, kind)}
  IN CASE w = "player" /\ slot \in Range(Cells["player"] \o Armour) -> <<Carried>>
       [] w = "player" /\ slot \notin Range(Cells["player"] \o Armour) ->
            IF Worn[kind] # NoSlot /\ inv.slots[Worn[kind]] = Empty THEN <<<<Worn[kind]>>>>
            ELSE IF home THEN <<AcrossFrom(slot)>> ELSE <<Carried>>
       [] w # "player" /\ ~home -> <<Carried>>
       [] w = "table" /\ home -> <<TableGrid, AcrossFrom(slot)>>
       [] w = "furnace" /\ home ->
            IF Cooked[kind] # Empty THEN << <<"furnace_input">> >>
            ELSE IF kind \in Burning THEN << <<"furnace_fuel">> >>
            ELSE <<AcrossFrom(slot)>>
       [] w = "stonecutter" /\ home ->
            IF Cuts[kind] # <<>> THEN <<Cells[w]>> ELSE <<AcrossFrom(slot)>>
       [] w = "smithing" /\ home ->
            IF fits # {} THEN <<SubSeq(Smith, FirstOf(Smith, fits), Len(Smith))>> ELSE <<AcrossFrom(slot)>>

\* The first destination that takes anything has it, the rest of the stack is
\* back in its slot, and the loop goes round until nothing moves.
Sent(inv, w, slot) ==
  LET stack == inv.slots[slot]
      lifted == [inv EXCEPT !.slots[slot] = Empty]
      Try(a, run) == IF a.left = stack THEN MoveInto(a.inv, stack, run) ELSE a
  IN Through(Try, [inv |-> lifted, left |-> stack], Destinations(inv, w, slot))

\* A slip: what did not fit is not put back.
QuickMoveOnceAll(inv, w, slot) ==
  IF inv.slots[slot] = Empty THEN inv ELSE Put(Sent(inv, w, slot).inv, slot, Empty)

QuickMoveOnce(inv, w, slot) ==
  LET stack == inv.slots[slot]
      end == Sent(inv, w, slot)
  IN IF stack = Empty \/ end.left = stack THEN inv ELSE Put(end.inv, slot, end.left)

RoomFor(inv, stack) ==
  LET Free(s) == IF inv.slots[s].kind \in {NoKind, stack.kind}
                 THEN Room(inv, s, stack.kind) ELSE 0
      Sum(n, s) == n + Free(s)
  IN Through(Sum, 0, Carried) >= stack.count

QuickMoveResultOnce(inv, w) ==
  LET made == inv.slots[Output[w]]
  IN IF made = Empty \/ ~RoomFor(inv, made) THEN inv
     ELSE TakeResult(MoveInto(inv, made, Backwards(Carried)).inv, w)

\* Every turn of either loop moves or spends something, so a stack's worth of
\* turns is enough to reach the end of it.
LargestStack == CHOOSE n \in Range(StackSize) : \A m \in Range(StackSize) : m <= n

QuickMove(inv, w, slot) ==
  LET Turn(i, n) == IF slot = Output[w] THEN QuickMoveResultOnce(i, w)
                                        ELSE QuickMoveOnce(i, w, slot)
  IN Through(Turn, inv, [n \in 1..LargestStack |-> n])

\* A number key exchanges a slot with one of the hotbar, or the off hand.
Swap(inv, w, slot, other) ==
  LET there == inv.slots[slot]
      coming == inv.slots[other]
      limit == SlotLimit(slot, coming.kind)
      split == Put(Put(inv, slot, [coming EXCEPT !.count = limit]), other, Less(coming, limit))
  IN IF slot = Output[w]
     THEN IF there = Empty \/ coming # Empty THEN inv ELSE TakeResult(Put(inv, other, there), w)
     ELSE IF other = slot \/ (coming = Empty /\ there = Empty) THEN inv
     ELSE IF coming = Empty THEN Put(Put(inv, other, there), slot, Empty)
     ELSE IF ~MayPlace(slot, coming.kind) THEN inv
     ELSE IF coming.count <= limit THEN Put(Put(inv, slot, coming), other, there)
     ELSE IF there = Empty THEN split ELSE Give(split, there)

CloneSlot(inv, slot) ==
  LET there == inv.slots[slot]
  IN IF ~Writable(slot) \/ inv.cursor # Empty \/ there = Empty THEN inv
     ELSE Hold(inv, [there EXCEPT !.count = StackSize[there.kind]])

Throw(inv, w, slot, button) ==
  LET there == inv.slots[slot]
  IN IF inv.cursor # Empty \/ there = Empty THEN inv
     ELSE IF slot = Output[w] THEN TakeResult(Put(inv, slot, Empty), w)
     ELSE Put(inv, slot, IF button = 0 THEN Less(there, 1) ELSE Empty)

\* A drag: started, over a slot, ended.  Its kinds are the left button, which
\* shares evenly, the right one, which lays one each, and the middle one,
\* which fills every slot and spends nothing.
DragStart(inv, kind) == [inv EXCEPT !.drag = [on |-> TRUE, kind |-> kind, over |-> {}]]

DragOver(inv, slot, kind) ==
  IF ~inv.drag.on \/ inv.drag.kind # kind THEN [inv EXCEPT !.drag = NoDrag]
  ELSE IF ~Writable(slot) THEN inv
  ELSE IF inv.cursor = Empty THEN [inv EXCEPT !.drag = NoDrag]
  ELSE IF Joins(inv, slot, inv.cursor.kind) THEN [inv EXCEPT !.drag.over = @ \cup {slot}]
  ELSE inv

\* Only slots the player owns are laid in, those of a bench are skipped; and
\* what is laid overwrites what the slot held.
FinishDrag(inv, kind) ==
  LET held == inv.cursor
      over == inv.drag.over
      share == CASE kind = 0 -> held.count \div Cardinality(over)
                 [] kind = 1 -> 1
                 [] kind = 2 -> StackSize[held.kind]
      Lay(a, s) ==
        LET want == Lower(share, Room(a.inv, s, held.kind))
            take == IF kind = 2 THEN want ELSE Lower(want, a.left)
        IN IF s \notin over \/ take <= 0 THEN a
           ELSE [ inv  |-> Put(a.inv, s, [held EXCEPT !.count = a.inv.slots[s].count + take]),
                  left |-> IF kind = 2 THEN a.left ELSE a.left - take ]
      end == Through(Lay, [inv |-> inv, left |-> held.count], Owned)
  IN IF held = Empty \/ over = {} THEN inv
     ELSE IF end.left = held.count THEN end.inv
     ELSE Hold(end.inv, Less(held, held.count - end.left))

DragEnd(inv, kind) ==
  [ (IF inv.drag.on /\ inv.drag.kind = kind THEN FinishDrag(inv, kind) ELSE inv)
    EXCEPT !.drag = NoDrag ]

\* A double click gathers what the window has of the kind held: part stacks
\* first, then full ones.
PickupAll(inv, w, button) ==
  LET order == IF button = 1 THEN Backwards(WindowSlots[w]) ELSE WindowSlots[w]
      size == StackSize[inv.cursor.kind]
      Gather(i, s) ==
        LET moved == Lower(i.slots[s].count, size - i.cursor.count)
        IN IF ~Writable(s) \/ i.slots[s].kind # inv.cursor.kind \/ moved = 0 THEN i
           ELSE Hold(Put(i, s, Less(i.slots[s], moved)), More(i.cursor, moved))
      Part(i, s) == IF i.slots[s].count < size THEN Gather(i, s) ELSE i
  IN IF inv.cursor = Empty THEN inv
     ELSE Through(Gather, Through(Part, inv, order), order)

\* A click is [mode, slot, button], a swap's button the key that was pressed and
\* a drag's its kind.  Anything but a drag ends a drag.
Keys == Hotbar \o <<"offhand">>

Effect(inv, w, click) ==
  LET slot == click.slot
      button == click.button
  IN CASE click.mode = "pickup"     -> Pickup(inv, w, slot, button)
       [] click.mode = "quick_move" -> QuickMove(inv, w, slot)
       [] click.mode = "swap"       -> Swap(inv, w, slot, Keys[button])
       [] click.mode = "clone"      -> CloneSlot(inv, slot)
       [] click.mode = "throw"      -> Throw(inv, w, slot, button)
       [] click.mode = "drag_start" -> DragStart(inv, button)
       [] click.mode = "drag_over"  -> DragOver(inv, slot, button)
       [] click.mode = "drag_end"   -> DragEnd(inv, button)
       [] click.mode = "pickup_all" -> PickupAll(inv, w, button)

IsDrag(click) == click.mode \in {"drag_start", "drag_over", "drag_end"}

Click(inv, w, click) ==
  LET bare == [inv EXCEPT !.changed = {},
                          !.drag = IF IsDrag(click) THEN @ ELSE NoDrag]
  IN Refreshed(Effect(bare, w, click))

SetCreative(inv, slot, stack) ==
  LET set == Put([inv EXCEPT !.changed = {}], slot, stack)
  IN IF slot \in Range(Grid) THEN RefreshOutput(set, "player") ELSE set

-----------------------------------------------------------------------------
(***************************************************************************)
(* Closing a screen gives back what the cursor and its cells hold.         *)
(***************************************************************************)
Vacated(inv, w) ==
  LET bare == [inv EXCEPT !.changed = {}]
      freed == IF inv.cursor = Empty THEN bare ELSE Give(Hold(bare, Empty), inv.cursor)
      Return(i, s) == IF i.slots[s] = Empty THEN i ELSE Give(Put(i, s, Empty), i.slots[s])
      emptied == Through(Return, freed, Cells[w])
  IN IF w = "stonecutter" THEN [emptied EXCEPT !.choice = 0, !.cutOf = NoKind] ELSE emptied

\* A slip: the result is left showing.
ClosedShowing(inv, w) == Vacated(inv, w)

Closed(inv, w) ==
  IF w = "furnace" THEN Vacated(inv, w) ELSE Show(Vacated(inv, w), Output[w], Empty)

\* What a disconnect keeps: a table's grid is folded in, if it holds anything.
Saved(inv) ==
  LET folded == IF \A s \in Range(TableGrid) : inv.slots[s] = Empty THEN inv
                ELSE Closed(inv, "table")
  IN [s \in Range(Owned) |-> folded.slots[s]]

Restored(slots, selected) ==
  RefreshOutput([Fresh EXCEPT !.slots = [s \in Storage |-> IF s \in Range(Owned)
                                                           THEN slots[s] ELSE Empty],
                              !.selected = selected], "player")

\* The furnace's slots as the session shows them: a copy of what the world has.
MirrorFurnace(inv, slots) ==
  LET Copy(i, s) == Show(i, s, slots[s])
  IN Through(Copy, [inv EXCEPT !.changed = {}], FurnaceSlots)

ClearFurnaceMirror(inv) ==
  [inv EXCEPT !.slots = [s \in Storage |-> IF s \in Range(FurnaceSlots) THEN Empty ELSE @[s]]]
=============================================================================
