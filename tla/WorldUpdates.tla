----------------------------- MODULE WorldUpdates -----------------------------
(***************************************************************************)
(* What the world does about a block that changed (net/updates.rs,         *)
(* net/falling.rs, dust-sim/updates.rs): the queue of cells to look at,    *)
(* the schedule of cells with a tick of their own, the blocks in the air,  *)
(* and the ticker that works on all three while players dig and build.     *)
(*                                                                         *)
(* The world is one column of cells; beside it there is air.  A step of    *)
(* the ticker is one reading of a cell with what is around it, or one      *)
(* change; a player's call is a step for what it reads, one for the map of *)
(* edits and one for the queue.  The ticker's own write and its note in    *)
(* the queue are one: only the ticker takes from the queue.                *)
(***************************************************************************)
EXTENDS Integers, FiniteSets, Sequences, SequencesExt

CONSTANTS
  Height,       \* WorldHeight: the cells are 0 .. Height - 1
  Worlds,       \* the columns a server may start with
  Held,         \* the states players place
  Reach,        \* LEAF_REACH
  FallDelay,    \* FALL_DELAY
  DecayHorizon, \* DECAY_HORIZON
  Lifetime,     \* LIFETIME_TICKS
  MaxFalling,   \* falling::MAX_ENTITIES
  MaxPending,   \* MAX_PENDING
  PerTick,      \* PER_TICK
  MaxVerbs,     \* how many calls a behaviour has: a bound of the model
  MaxStops      \* and how many restarts: another

Cells == 0..Height - 1

\* A state's kind, and a leaf's `distance` and `persistent`.
State == [kind : {"air", "stone", "sand", "torch", "log"}, far : {0}, kept : {FALSE}]
           \cup [kind : {"leaf"}, far : 1..Reach, kept : BOOLEAN]
Plain(kind) == [kind |-> kind, far |-> 0, kept |-> FALSE]
Air == Plain("air")

ASSUME UpdatesAssumption ==
  /\ {Height, Reach, FallDelay, DecayHorizon, Lifetime, PerTick} \subseteq Nat \ {0}
  /\ {MaxFalling, MaxPending, MaxVerbs, MaxStops} \subseteq Nat
  /\ Worlds \subseteq [Cells -> State]
  /\ Held \subseteq State

VARIABLES
  world,     \* EditedWorld: what was generated, with the edits over it
  waiting,   \* Pending
  schedule,  \* Schedule::due: cells, and in how many ticks
  air,       \* FallingWorld::entities
  landed,    \* WorldTicker::landed
  tick,      \* where the tick thread is
  player,    \* player: the call a session is in
  verbs, stops,
  missed,    \* not in the code: cells nobody told the queue of: a full queue
             \* or a stop let go of them, or they were generated so
  book       \* not in the code: sand made, sand that lies about as items, and
             \* whether a write ever found another block than its look did

updateVars ==
  <<world, waiting, schedule, air, landed, tick, player, verbs, stops, missed, book>>

-----------------------------------------------------------------------------
(***************************************************************************)
(* The rules (dust-sim/updates.rs).                                        *)
(***************************************************************************)
Free(state)  == state.kind = "air"
Falls(state) == state.kind = "sand"
IsLeaf(state) == state.kind = "leaf"
SurvivesAlone(state) == state.kind # "torch"
Reacts(state) == ~SurvivesAlone(state) \/ Falls(state) \/ IsLeaf(state)

\* The cells around c that are in this column: the others hold air.
Around(c) == {c - 1, c + 1}
Below(c) == world[c - 1]

\* A torch stands on what is not replaceable.
Survives(c) == SurvivesAlone(world[c]) \/ ~Free(Below(c))

\* distance_from_log, which is Reach for what is neither log nor leaf.
FromLog(state) ==
  CASE state.kind = "log"  -> 0
    [] state.kind = "leaf" -> state.far
    [] OTHER               -> Reach

\* leaf_distance: one more than the nearest, and no more than Reach.
LeafDistance(c) ==
  Min({Reach} \cup {FromLog(world[n]) + 1 : n \in Around(c)})

\* A slip: a leaf is relabelled whether or not its number changes.
ReactionAlways(c) ==
  IF IsLeaf(world[c]) THEN "relabel"
  ELSE IF ~Survives(c) THEN "break"
  ELSE IF Falls(world[c]) /\ Free(Below(c)) THEN "fall" ELSE "stay"

Reaction(c) ==
  LET state == world[c]
  IN  CASE ~Survives(c)                                        -> "break"
        [] Survives(c) /\ Falls(state) /\ Free(Below(c))       -> "fall"
        [] IsLeaf(state) /\ LeafDistance(c) # state.far        -> "relabel"
        [] IsLeaf(state) /\ state.far = Reach /\ LeafDistance(c) = Reach
             /\ ~state.kept                                    -> "decay"
        [] OTHER                                               -> "stay"

\* block_at and around assert that y is inside the world.
CanLook(c) ==
  c \in Cells /\ (Reacts(world[c]) => Around(c) \subseteq Cells)

Stable(c) == CanLook(c) /\ Reacts(world[c]) => Reaction(c) = "stay"

-----------------------------------------------------------------------------
(***************************************************************************)
(* The queue and the schedule.                                             *)
(***************************************************************************)
Push(queue, c) ==
  IF Len(queue) >= MaxPending \/ c \in ToSet(queue) THEN queue ELSE Append(queue, c)

\* Pending::touch: the cell and the ones around it, each once, while there is
\* room.
Touch(c) ==
  /\ waiting' = Push(Push(Push(waiting, c), c - 1), c + 1)
  /\ missed' = missed \cup ({c - 1, c, c + 1} \ ToSet(waiting'))

Scheduled == {schedule[i].cell : i \in DOMAIN schedule}

\* A slip: to the end, whatever is due later.
PlanLast(c, delay) ==
  schedule' = IF c \in Scheduled THEN schedule
              ELSE Append(schedule, [in |-> delay, cell |-> c])

\* Schedule::at: unless it is there already, behind all that are due no later.
Plan(c, delay) ==
  schedule' = IF c \in Scheduled THEN schedule
              ELSE LET sooner == Cardinality({i \in DOMAIN schedule : schedule[i].in <= delay})
                   IN  InsertAt(schedule, sooner + 1, [in |-> delay, cell |-> c])

-----------------------------------------------------------------------------
(***************************************************************************)
(* A falling block: where it is and how fast, in millionths of a block.    *)
(***************************************************************************)
Unit == 1000000
Gravity == 40000
Entity == [state : State, y : Int, vy : Int, age : 0..Lifetime]
Spawned(state, c) == [state |-> state, y |-> c * Unit, vy |-> 0, age |-> 0]

Sand(state) == IF Falls(state) THEN 1 ELSE 0
SandIn(w) == Cardinality({c \in Cells : Falls(w[c])})

\* A write to c by somebody who has last seen it hold `saw`.
Writes(c, saw, state) ==
  /\ world' = [world EXCEPT ![c] = state]
  /\ book' = [book EXCEPT !.surprised = @ \/ world[c] # saw]

Looking == [at |-> "idle", batch |-> <<>>, index |-> 1, doing |-> "look",
             saw |-> Air, next |-> Air]
Idle == [at |-> "idle"]

UpdatesInit ==
  /\ world \in Worlds
  /\ waiting = <<>> /\ schedule = <<>> /\ air = <<>> /\ landed = <<>>
  /\ tick = Looking /\ player = Idle
  /\ verbs = 0 /\ stops = 0 /\ missed = {c \in Cells : ~Stable(c)}
  /\ book = [made |-> SandIn(world), items |-> 0, surprised |-> FALSE]

-----------------------------------------------------------------------------
(***************************************************************************)
(* A tick: the blocks in the air, the cells that are due, the cells that   *)
(* were touched.                                                           *)
(***************************************************************************)
TickBegins ==
  /\ tick.at = "idle"
  /\ air # <<>> \/ schedule # <<>> \/ waiting # <<>>
  /\ tick' = [tick EXCEPT !.at = "fall", !.index = 1]
  /\ schedule' = [i \in DOMAIN schedule |-> [schedule[i] EXCEPT !.in = @ - 1]]
  /\ UNCHANGED <<world, waiting, air, landed, player, verbs, stops, missed, book>>

\* Landing: a block if the cell it comes to rest in is free, else an item.
Rests(state, c) ==
  [state |-> state, cell |-> c, as |-> IF Free(world[c]) THEN "block" ELSE "item"]

\* FallingWorld::tick, one block of the list: gravity, the move, the drag.
FallOne ==
  /\ tick.at = "fall" /\ tick.index <= Len(air)
  /\ LET entity  == air[tick.index]
         age     == entity.age + 1
         vy      == entity.vy - Gravity
         cell    == (entity.y + vy) \div Unit
         expired == age >= Lifetime
         stopped == cell < 0 \/ (cell >= 0 /\ ~Free(world[cell]))
     IN  \/ /\ ~stopped /\ ~expired
            /\ air' = [air EXCEPT ![tick.index] =
                 [state |-> entity.state, y |-> entity.y + vy, vy |-> (vy * 98) \div 100,
                  age |-> age]]
            /\ tick' = [tick EXCEPT !.index = @ + 1]
            /\ UNCHANGED landed
         \/ /\ stopped \/ expired
            /\ air' = RemoveAt(air, tick.index)
            /\ landed' = Append(landed,
                 IF expired
                 THEN [state |-> entity.state, as |-> "item",
                       cell |-> IF stopped THEN Max({cell + 1, 0}) ELSE cell]
                 ELSE Rests(entity.state, Max({cell + 1, 0})))
            /\ UNCHANGED tick
  /\ UNCHANGED <<world, waiting, schedule, player, verbs, stops, missed, book>>

FallsDone ==
  /\ tick.at = "fall" /\ tick.index > Len(air)
  /\ tick' = [tick EXCEPT !.at = "land"]
  /\ UNCHANGED <<world, waiting, schedule, air, landed, player, verbs, stops, missed, book>>

\* One landing: what is in the cell by now is written over.
Land ==
  /\ tick.at = "land" /\ landed # <<>>
  /\ landed' = Tail(landed)
  /\ LET landing == Head(landed)
     IN  \/ /\ landing.as = "block"
            /\ Writes(landing.cell, Air, landing.state)
            /\ Touch(landing.cell)
         \/ /\ landing.as = "item"
            /\ book' = [book EXCEPT !.items = @ + Sand(landing.state)]
            /\ UNCHANGED <<world, waiting, missed>>
  /\ UNCHANGED <<schedule, air, tick, player, verbs, stops>>

\* Schedule::take_due.
TakeDue ==
  /\ tick.at = "land" /\ landed = <<>>
  /\ LET due == Cardinality({i \in DOMAIN schedule : schedule[i].in <= 0})
     IN  /\ tick' = [tick EXCEPT !.at = "due",
                                 !.batch = [i \in 1..due |-> schedule[i].cell]]
         /\ schedule' = SubSeq(schedule, due + 1, Len(schedule))
  /\ UNCHANGED <<world, waiting, air, landed, player, verbs, stops, missed, book>>

\* Pending::take.
TakeUpdates ==
  /\ tick.at = "due" /\ tick.batch = <<>>
  /\ LET n == Min({Len(waiting), PerTick})
     IN  /\ tick' = [tick EXCEPT !.at = "examine", !.batch = SubSeq(waiting, 1, n)]
         /\ waiting' = SubSeq(waiting, n + 1, Len(waiting))
  /\ UNCHANGED <<world, schedule, air, landed, player, verbs, stops, missed, book>>

TickEnds ==
  /\ tick.at = "examine" /\ tick.batch = <<>>
  /\ tick' = Looking
  /\ UNCHANGED <<world, waiting, schedule, air, landed, player, verbs, stops, missed, book>>

-----------------------------------------------------------------------------
(***************************************************************************)
(* A cell of the batch.                                                    *)
(***************************************************************************)
At == Head(tick.batch)
NextCell == tick' = [tick EXCEPT !.batch = Tail(@), !.doing = "look", !.saw = Air]
Does(what) == tick' = [tick EXCEPT !.doing = what, !.saw = world[At]]

\* The block and what is around it are read, and answered: later for what falls
\* or decays and was only touched, at once for what was waited for.
Look ==
  /\ tick.at \in {"due", "examine"} /\ tick.batch # <<>> /\ tick.doing = "look"
  /\ CanLook(At)
  /\ missed' = missed \ {At}
  /\ LET reaction == IF Reacts(world[At]) THEN Reaction(At) ELSE "stay"
     IN  \/ /\ reaction = "stay"
            /\ NextCell /\ UNCHANGED schedule
         \/ /\ reaction = "break" \/ (reaction = "decay" /\ tick.at = "due")
            /\ Does("topple") /\ UNCHANGED schedule
         \/ /\ reaction = "fall" /\ tick.at = "due"
            /\ Does("launch") /\ UNCHANGED schedule
         \/ /\ reaction = "relabel"
            /\ tick' = [tick EXCEPT !.doing = "relabel", !.saw = world[At],
                                    !.next = [world[At] EXCEPT !.far = LeafDistance(At)]]
            /\ UNCHANGED schedule
         \/ /\ reaction = "fall" /\ tick.at = "examine"
            /\ Plan(At, FallDelay) /\ NextCell
         \/ /\ reaction = "decay" /\ tick.at = "examine"
            /\ \E delay \in 1..DecayHorizon : Plan(At, delay)
            /\ NextCell
  /\ UNCHANGED <<world, waiting, air, landed, player, verbs, stops, book>>

\* The assertion in Chunk::section_index, on the tick thread: an edit of the
\* world's highest cell queues the one above it.
LookOutside ==
  /\ tick.at \in {"due", "examine"} /\ tick.batch # <<>> /\ tick.doing = "look"
  /\ ~CanLook(At)
  /\ tick' = [tick EXCEPT !.at = "panicked"]
  /\ UNCHANGED <<world, waiting, schedule, air, landed, player, verbs, stops, missed, book>>

\* topple: whatever is there by now is gone.  It is nothing that falls.
Topple ==
  /\ tick.doing = "topple"
  /\ Writes(At, tick.saw, Air) /\ Touch(At) /\ NextCell
  /\ UNCHANGED <<schedule, air, landed, player, verbs, stops>>

\* relabel: the leaf in its new shape, over whatever is there by now.
Relabel ==
  /\ tick.doing = "relabel"
  /\ Writes(At, tick.saw, tick.next) /\ Touch(At) /\ NextCell
  /\ UNCHANGED <<schedule, air, landed, player, verbs, stops>>

\* A slip: what the ceiling refuses is left where it is.
LaunchOnce ==
  /\ tick.doing = "launch"
  /\ \/ /\ Len(air) >= MaxFalling
        /\ NextCell /\ UNCHANGED air
     \/ /\ Len(air) < MaxFalling
        /\ air' = Append(air, Spawned(tick.saw, At))
        /\ tick' = [tick EXCEPT !.doing = "clear"]
  /\ UNCHANGED <<world, waiting, schedule, landed, player, verbs, stops, missed, book>>

\* launch: the entity, or another try in FallDelay ticks.
Launch ==
  /\ tick.doing = "launch"
  /\ \/ /\ Len(air) >= MaxFalling
        /\ Plan(At, FallDelay) /\ NextCell /\ UNCHANGED air
     \/ /\ Len(air) < MaxFalling
        /\ air' = Append(air, Spawned(tick.saw, At))
        /\ tick' = [tick EXCEPT !.doing = "clear"]
        /\ UNCHANGED schedule
  /\ UNCHANGED <<world, waiting, landed, player, verbs, stops, missed, book>>

\* A slip: the cell it left keeps its block.
ClearNothing ==
  /\ tick.doing = "clear"
  /\ NextCell
  /\ UNCHANGED <<world, waiting, schedule, air, landed, player, verbs, stops, missed, book>>

\* launch, the cell: whatever is there by now is gone.
Clear ==
  /\ tick.doing = "clear"
  /\ Writes(At, tick.saw, Air) /\ Touch(At) /\ NextCell
  /\ UNCHANGED <<schedule, air, landed, player, verbs, stops>>

-----------------------------------------------------------------------------
(***************************************************************************)
(* A session digs or builds (net/session.rs), and the server stops and     *)
(* starts again.                                                           *)
(***************************************************************************)
Calls(verb, c, state) ==
  /\ player = Idle /\ verbs < MaxVerbs
  /\ verbs' = verbs + 1
  /\ player' = [at |-> "write", verb |-> verb, cell |-> c, saw |-> world[c], state |-> state]
  /\ UNCHANGED <<world, waiting, schedule, air, landed, tick, stops, missed, book>>

\* The dig reads the block, and those below and above it, for its drop.
Dig(c) == Around(c) \subseteq Cells /\ Calls("dig", c, Air)

\* The placement has found the cell free.
Place(c, state) == Free(world[c]) /\ Calls("place", c, state)

\* break_block, place_block: the map.  What a dig drops is what it has read.
PlayerWrites ==
  /\ player.at = "write"
  /\ world' = [world EXCEPT ![player.cell] = player.state]
  /\ book' = [ made  |-> book.made + Sand(player.state),
               items |-> book.items + (IF player.verb = "dig" THEN Sand(player.saw) ELSE 0),
               surprised |-> book.surprised \/ world[player.cell] # player.saw ]
  /\ player' = [player EXCEPT !.at = "touch"]
  /\ UNCHANGED <<waiting, schedule, air, landed, tick, verbs, stops, missed>>

\* break_block, place_block: the queue.
PlayerQueues ==
  /\ player.at = "touch"
  /\ Touch(player.cell)
  /\ player' = Idle
  /\ UNCHANGED <<world, schedule, air, landed, tick, verbs, stops, book>>

\* Only the blocks are saved (server.rs, save_world).
Restart ==
  /\ tick.at = "idle" /\ player = Idle /\ stops < MaxStops
  /\ stops' = stops + 1
  /\ missed' = missed \cup ToSet(waiting) \cup Scheduled
  /\ book' = [book EXCEPT !.surprised = @ \/ air # <<>>]
  /\ waiting' = <<>> /\ schedule' = <<>> /\ air' = <<>>
  /\ UNCHANGED <<world, landed, tick, player, verbs>>

-----------------------------------------------------------------------------
TickStep ==
  \/ TickBegins \/ FallOne \/ FallsDone \/ Land \/ TakeDue \/ TakeUpdates \/ TickEnds
  \/ Look \/ LookOutside \/ Topple \/ Relabel \/ Launch \/ Clear

PlayerBegins == \E c \in Cells : Dig(c) \/ \E state \in Held : Place(c, state)
PlayerGoesOn == PlayerWrites \/ PlayerQueues

UpdatesNext == TickStep \/ PlayerBegins \/ PlayerGoesOn \/ Restart

UpdatesSpec == UpdatesInit /\ [][UpdatesNext]_updateVars

\* The tick thread goes on ticking, and a call that was begun goes on.
LiveUpdatesSpec ==
  UpdatesSpec /\ WF_updateVars(TickStep) /\ WF_updateVars(PlayerGoesOn)

-----------------------------------------------------------------------------
Landing == [state : State, cell : Cells, as : {"block", "item"}]

UpdatesTypeOK ==
  /\ world \in [Cells -> State]
  /\ waiting \in Seq(-1..Height) /\ Len(waiting) <= MaxPending /\ IsInjective(waiting)
  /\ schedule \in Seq([in : Int, cell : -1..Height])
  /\ \A i, j \in DOMAIN schedule :
       i < j => schedule[i].in <= schedule[j].in /\ schedule[i].cell # schedule[j].cell
  /\ air \in Seq(Entity) /\ Len(air) <= MaxFalling
  /\ landed \in Seq(Landing)
  /\ tick \in [ at : {"idle", "fall", "land", "due", "examine", "panicked"},
                 batch : Seq(-1..Height), index : 1..MaxFalling + 1,
                 doing : {"look", "topple", "launch", "clear", "relabel"},
                 saw : State, next : State ]
  /\ player \in {Idle} \cup [ at : {"write", "touch"}, verb : {"dig", "place"},
                              cell : Cells, saw : State, state : State ]
  /\ verbs \in 0..MaxVerbs /\ stops \in 0..MaxStops /\ missed \subseteq -1..Height
  /\ book \in [made : Nat, items : Nat, surprised : BOOLEAN]

\* A cell that should react is on its way to the ticker's eye -- in the queue,
\* the schedule or the batch, or about to be queued -- unless a full queue or a
\* stop let go of it, or it was generated so: "a dropped edit is a torch that stays in the air for ever"
\* (updates.rs, the module's note), and a refused launch is tried again.
NothingHangs ==
  \A c \in Cells :
    \/ Stable(c)
    \/ c \in ToSet(waiting) \cup Scheduled \cup ToSet(tick.batch) \cup missed
    \/ player.at = "touch" /\ c \in {player.cell} \cup Around(player.cell)

\* Sand is in a cell, in the air, about to land, or lies about as an item, and
\* nowhere twice -- as long as no write found another block than the look before
\* it did, and no stop found sand in the air: "a sand block that stays put is a
\* great deal better than one that disappears" (falling.rs, spawn).  While the
\* cell it leaves is not cleared yet, sand in the air is the sand in that cell.
EverySandIsSomewhere ==
  ~book.surprised =>
    book.made = SandIn(world) + Len(air) + Len(landed) + book.items
                  - (IF tick.doing = "clear" THEN 1 ELSE 0)

\* "The cell is never both a block and an entity" (updates.rs, launch), so nobody
\* digs out of it a block that is in the air already: as long as every write
\* found what its look had found, no sand is there twice.  The cell a launch is
\* about to clear may hold it for the moment.
NoSandIsTwice ==
  ~book.surprised =>
    SandIn(world) + Len(air) + Len(landed) + book.items
      <= book.made + (IF tick.doing = "clear" /\ Falls(world[At]) THEN 1 ELSE 0)

\* The ticker asks for no block outside the world: "every caller here reaches
\* this from a position a client clicked, which the reach check has already
\* bounded" (edits.rs, block_at).
LooksInsideTheWorld == tick.at # "panicked"

\* When players stop, so does the world: what falls lands, what decays is gone,
\* and leaves settle on their distances ("the front stops on its own when a
\* distance stops changing", updates.rs) -- or the tick thread has panicked.
WorldSettles ==
  \/ <>[](waiting = <<>> /\ schedule = <<>> /\ air = <<>> /\ landed = <<>>)
  \/ <>(tick.at = "panicked")
=============================================================================
