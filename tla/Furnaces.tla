------------------------------ MODULE Furnaces ------------------------------
(***************************************************************************)
(* Every furnace in the world (struct Furnaces, net/furnaces.rs), behind   *)
(* one lock; the ticker that burns the ones with something to do; the      *)
(* sessions with a screen open on one; and players who break them.         *)
(*                                                                         *)
(* One step is one acquisition of the lock.  What a session's screen shows *)
(* is a picture that every click takes afresh under the lock (Pockets), so *)
(* the announcements that keep it moving are not modelled, and neither is  *)
(* the glow the ticker gives the block afterwards.                         *)
(***************************************************************************)
EXTENDS Furnace, FiniteSets

CONSTANTS
  Blocks,     \* where furnaces may be: block positions
  Players,    \* sessions
  Inputs, Fuels,  \* the stacks sessions put into the two slots
  None        \* Option::None

ASSUME FurnacesAssumption ==
  /\ IsFiniteSet(Players)
  /\ Inputs \cup Fuels \subseteq Stack
  /\ None \notin Blocks

VARIABLES
  world,      \* Inner: the cells, the two ways in to them and the tick set
  watched,    \* Inner::watched
  seat        \* what a session has open, or is opening

furnacesVars == <<world, watched, seat>>

-----------------------------------------------------------------------------
(***************************************************************************)
(* Inner.  A broken furnace leaves its cell to be used again; `at` is 0    *)
(* where there is no furnace, and active[i] says how many times index i is *)
(* in the list of those that must tick.                                    *)
(***************************************************************************)
Gone == [at |-> None, furnace |-> NewFurnace, active |-> FALSE]

Cell == [at : Blocks, furnace : FurnaceState, active : BOOLEAN]

World == [ cells : Seq(Cell \cup {Gone}), at : [Blocks -> Nat], free : Seq(Nat),
           active : Seq(Nat) ]

NoFurnaces == [cells |-> <<>>, at |-> [b \in Blocks |-> 0], free |-> <<>>, active |-> <<>>]

\* The index a furnace is made at: a freed one, or one more.
NextIndex(w) == IF w.free = <<>> THEN Len(w.cells) + 1 ELSE w.free[Len(w.free)]

Ensure(w, b) ==
  LET i == NextIndex(w)
      cell == [at |-> b, furnace |-> NewFurnace, active |-> FALSE]
  IN IF w.at[b] # 0 THEN w
     ELSE IF w.free = <<>>
     THEN [w EXCEPT !.cells = Append(@, cell), !.active = Append(@, 0), !.at[b] = i]
     ELSE [w EXCEPT !.cells[i] = cell, !.free = SubSeq(@, 1, Len(@) - 1), !.at[b] = i]

\* A slip: the block still leads to the cell.
DropMapped(w, i) ==
  [w EXCEPT !.cells[i] = Gone, !.free = Append(@, i), !.active[i] = 0]

\* A slip: the freed cell stays on the tick list.
DropListed(w, i) ==
  [w EXCEPT !.cells[i] = Gone, !.at[w.cells[i].at] = 0, !.free = Append(@, i)]

\* Into or out of the tick list, and forgotten if nothing is left of it.
Drop(w, i) ==
  [w EXCEPT !.cells[i] = Gone, !.at[w.cells[i].at] = 0, !.free = Append(@, i),
            !.active[i] = 0]

Enlist(w, i) ==
  LET now == IsActive(w.cells[i].furnace)
      was == w.cells[i].active
  IN [w EXCEPT !.cells[i] = [@ EXCEPT !.active = now],
               !.active[i] = IF now /\ ~was THEN @ + 1 ELSE IF was /\ ~now THEN 0 ELSE @]

Refresh(w, i) ==
  LET listed == Enlist(w, i)
  IN IF ~IsActive(w.cells[i].furnace) /\ IsBare(w.cells[i].furnace)
     THEN Drop(listed, i) ELSE listed

\* Furnaces::with: made if it is not there, left as the caller leaves it, refreshed.
With(w, b, after) ==
  LET made == Ensure(w, b)
      i == made.at[b]
  IN Refresh([made EXCEPT !.cells[i] = [@ EXCEPT !.furnace = after]], i)

\* Furnaces::remove.
Remove(w, b) == IF w.at[b] = 0 THEN w ELSE Drop(w, w.at[b])

\* Furnaces::tick: those on the list, and off it when they stop.
Ticks(w) == {i \in DOMAIN w.cells : w.active[i] > 0 /\ w.cells[i] # Gone}

Burned(w, still) ==
  [w EXCEPT
     !.cells = [i \in DOMAIN w.cells |->
                  IF i \notin Ticks(w) THEN w.cells[i]
                  ELSE [w.cells[i] EXCEPT !.furnace = FurnaceTick(@), !.active = i \in still]],
     !.active = [i \in DOMAIN w.active |-> IF i \in still THEN w.active[i] ELSE 0]]

\* A slip: one whose fire has gone out is done.
TickedWhileLit(w) ==
  Burned(w, {i \in Ticks(w) : FurnaceTick(w.cells[i].furnace).lit > 0})

Ticked(w) == Burned(w, {i \in Ticks(w) : IsActive(FurnaceTick(w.cells[i].furnace))})

FurnaceAt(b) == IF world.at[b] = 0 THEN NewFurnace ELSE world.cells[world.at[b]].furnace

-----------------------------------------------------------------------------
(***************************************************************************)
(* A session: the right click on a furnace watches it, lets go of the one  *)
(* watched before, and mirrors it.                                         *)
(***************************************************************************)
NotSeated == [at |-> None, before |-> None, step |-> "closed"]
Steps == {"closed", "watching", "mirroring", "open"}

Watch(s, b) ==
  /\ seat[s].step \in {"closed", "open"}
  /\ watched' = [watched EXCEPT ![b] = @ + 1]
  /\ seat' = [seat EXCEPT ![s] = [at |-> b, before |-> @.at, step |-> "watching"]]
  /\ UNCHANGED world

\* A slip: the watch a screen opened over had is kept.
UnwatchForgotten(s) ==
  /\ seat[s].step = "watching"
  /\ seat' = [seat EXCEPT ![s].before = None, ![s].step = "mirroring"]
  /\ UNCHANGED <<world, watched>>

Unwatch(s) ==
  /\ seat[s].step = "watching"
  /\ watched' = [b \in Blocks |-> IF b = seat[s].before THEN watched[b] - 1 ELSE watched[b]]
  /\ seat' = [seat EXCEPT ![s].before = None, ![s].step = "mirroring"]
  /\ UNCHANGED world

\* Opening the screen reads the furnace under the lock, and makes it if it was
\* never used, only to forget it.  A session whose receiver lagged does it again.
Mirror(s) ==
  /\ seat[s].step \in {"mirroring", "open"}
  /\ world' = With(world, seat[s].at, FurnaceAt(seat[s].at))
  /\ seat' = [seat EXCEPT ![s].step = "open"]
  /\ UNCHANGED watched

\* What a click leaves: the stacks of one slot come or go.
Served(f) ==
  {Refilled(f, i, f.fuel, f.output) : i \in Inputs \cup {Empty}}
  \cup {Refilled(f, f.input, u, f.output) : u \in Fuels \cup {Empty}}
  \cup {Refilled(f, f.input, f.fuel, Empty)}

\* A click, whether or not the furnace is still there.
Click(s) ==
  /\ seat[s].step = "open"
  /\ \E f \in Served(FurnaceAt(seat[s].at)) :
       world' = With(world, seat[s].at, f)
  /\ UNCHANGED <<watched, seat>>

\* The screen is shut, another is opened, or the session ends: the guard drops.
Close(s) ==
  /\ seat[s].step = "open"
  /\ watched' = [watched EXCEPT ![seat[s].at] = @ - 1]
  /\ seat' = [seat EXCEPT ![s] = NotSeated]
  /\ UNCHANGED world

\* A block was broken: what is in it is spilled, whoever is looking.
Spill(b) ==
  /\ world' = Remove(world, b)
  /\ UNCHANGED <<watched, seat>>

TickFurnaces ==
  /\ world' = Ticked(world)
  /\ UNCHANGED <<watched, seat>>

-----------------------------------------------------------------------------
\* The server stops, saves those that hold something, and starts again with
\* them in the order of their positions; each is flagged as it is put back.
Restored(w) ==
  LET kept == {b \in Blocks : w.at[b] # 0 /\ ~IsBare(w.cells[w.at[b]].furnace)}
      order == CHOOSE f \in [1..Cardinality(kept) -> kept] : \A i, j \in DOMAIN f : f[i] = f[j] => i = j
      Back(v, b) == With(v, b, w.cells[w.at[b]].furnace)
  IN Through(Back, NoFurnaces, order)

Restart ==
  /\ world' = Restored(world)
  /\ watched' = [b \in Blocks |-> 0]
  /\ seat' = [s \in Players |-> NotSeated]

FurnacesInit ==
  /\ world = NoFurnaces
  /\ watched = [b \in Blocks |-> 0]
  /\ seat = [s \in Players |-> NotSeated]

Session(s) == (\E b \in Blocks : Watch(s, b)) \/ Unwatch(s) \/ Mirror(s) \/ Click(s) \/ Close(s)

FurnacesNext ==
  \/ \E s \in Players : Session(s)
  \/ \E b \in Blocks : Spill(b)
  \/ TickFurnaces
  \/ Restart

FurnacesSafety == FurnacesInit /\ [][FurnacesNext]_furnacesVars

\* The tick loop comes round.
FurnacesSpec == FurnacesSafety /\ WF_furnacesVars(TickFurnaces)

-----------------------------------------------------------------------------
\* Every index has one owner: a furnace's own block, or the free list, once.
Indexed ==
  /\ world \in World
  /\ Len(world.active) = Len(world.cells)
  /\ \A b \in Blocks : world.at[b] # 0 =>
       /\ world.at[b] \in DOMAIN world.cells
       /\ world.cells[world.at[b]].at = b
  /\ \A i \in DOMAIN world.cells :
       IF world.cells[i] = Gone THEN \E j \in DOMAIN world.free : world.free[j] = i
                                ELSE world.at[world.cells[i].at] = i
  /\ \A j \in DOMAIN world.free :
       /\ world.free[j] \in DOMAIN world.cells
       /\ world.cells[world.free[j]] = Gone
       /\ \A k \in DOMAIN world.free : world.free[j] = world.free[k] => j = k

FurnacesTypeOK ==
  /\ Indexed
  /\ watched \in [Blocks -> Nat]
  /\ seat \in [Players -> [at : Blocks \cup {None}, before : Blocks \cup {None}, step : Steps]]

\* The list has each furnace with something to do, once, and no other: one that
\* is missing never cooks, one that is there twice cooks at double speed, and
\* one left there when its cell is used again ticks a stranger's.
TickSetExact ==
  \A i \in DOMAIN world.cells :
    /\ world.active[i] = IF IsActive(world.cells[i].furnace) THEN 1 ELSE 0
    /\ world.cells[i].active = IsActive(world.cells[i].furnace)

\* Ticking only those on the list, forgetting the empty ones, using their cells
\* again and coming back from a save are all invisible: it is as if every block
\* had a furnace and each burned at every tick.
AsIfEvery == INSTANCE EveryFurnace WITH furnaces <- [b \in Blocks |-> FurnaceAt(b)]

TicksEveryFurnace == AsIfEvery!Spec

\* A watch is held for each screen and for nothing else: one that leaked is a
\* furnace announced at every tick to nobody, for ever (Furnaces::watch).
WatchedExact ==
  \A b \in Blocks :
    watched[b] = Cardinality({s \in Players : seat[s].at = b})
                   + Cardinality({s \in Players : seat[s].before = b})

\* A furnace that sessions leave alone cooks until there is nothing to cook,
\* nothing to burn or nowhere to put it: it does not drop off the list before.
CouldCook(f) == CanBurn(f) /\ (f.lit > 0 \/ (f.fuel # Empty /\ f.fuel.kind \in Burning))

FiresFinish ==
  <>[][world' = Ticked(world) \/ \A b \in Blocks : FurnaceAt(b)' = FurnaceAt(b)]_furnacesVars
    => <>[](\A b \in Blocks : ~CouldCook(FurnaceAt(b)))
=============================================================================
