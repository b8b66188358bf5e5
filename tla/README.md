# Dust: TLA+ models of the server

Dust is a Minecraft server in Rust. This directory holds TLA+ models of the
parts of it where several threads, tasks or processes meet, the TLC
configurations that check them on small instances, and TLAPS proofs of what
matters most for instances of every size. Paths below are relative to
`src/crates/`; `net/` is `dust-server/src/net/`.

## 1. The system

The server is one process with a main thread that starts four phases and then
ticks, a Tokio runtime whose tasks are the sessions, a small pool of builder
threads, and a watchdog. They meet in a few pieces of shared state, each behind
a lock of its own. The locks of the modelled state are never nested, so whatever
takes two steps under locks can be interleaved with everybody else.

```
        sessions (Tokio tasks)                       tick loop (main thread)
   view, residence, `ahead` claim                  ticker claims, world rules
      |        |           |                              |          |
      |        | hold/move | set                      set |          | verbs
      |        v           v                              v          v
      |    Residency  <-- fill --  builder threads     Residency   EditedWorld
      |        ^                        ^                            |    |
      |        |            queue, notify|                  touch    |    | broadcast
      | built  |          ColumnStore/Warming               Pending <-    |
      +--------+                                                          |
      ^-------------------- edits, or Lagged -----------------------------+
```

### Inventory

| Component | State it keeps | Operations | What is hard | What makes it correct |
|---|---|---|---|---|
| Residency (`net/residency.rs`) | the map of columns with a holder count each, the carried number of unheld ones; a `Residence` per session, a `ColumnClaim` per session and ticker | `hold`, `release`, `exchange`, `fill`, `fill_many`, `cold`; `move_to`, `set`, two `Drop`s | `move_to` takes the lock twice; the carried count replaces a scan; retirement is wholesale | counts exact, nothing held is dropped, nothing held is rebuilt, unheld bounded |
| Column store and builders (`net/source.rs`) | the queue, `claimed`, `closed`; what each builder has in hand | `Warming::send`, `want`, `want_ring`, `warm_columns`, `build_columns`, `offer`, `Drop` | three locks, a condition variable notified outside its mutex, a batch that is filled and unclaimed in two steps | no column lost or built twice, no wake-up lost, what is held gets built, `Drop` ends |
| View and stream (`net/view.rs`, `net/session.rs`) | `loaded`, `centre`, `radius`; what the client really has | `move_to_limited`, `complete`, `set_radius`; the passes of `stream_inner` from join, tick, move, client information, lag | passes cut by what is built; the record is emptied on a lag while the client is not | never credited without being sent, never taken while in range, complete means whole |
| Edited world and channel (`net/edits.rs`) | the edits; the broadcast channel | `set_block`, `break_block`, `place_block`, `reshape`, `subscribe` | read, write, note and announcement are separate steps; receivers overrun | every client ends up with the world |
| Block updates (`net/updates.rs`, `dust-sim/src/updates.rs`) | the queue of cells to look at and their set; the schedule | `touch`, `take`, `at`, `take_due`, the ticker's look, topple, relabel, launch | a full queue; the note against the tick's look; what is looked at and then written | no changed cell is forgotten, and the world comes to rest |
| Falling blocks (`net/falling.rs`) | the list of blocks in the air | `spawn`, `tick` | a ceiling that refuses; a landing decided before it is written | a block is in a cell or in the air, never neither |
| Lifecycle (`dust-server/src/server.rs`) | phases completed, transcript | `run`, four phases, teardown, `save_world` | a stop or a failure between any two phases | what started is stopped, in reverse |
| Stop and watchdog (`dust-server/src/stop.rs`) | the stop bit, the sleepers' mutex, grace | `request_stop`, `park_until_stopped_or`, `watch_dog`, `join_all` | the bit is set outside the mutex; the watchdog races the teardown | no sleep through a stop; a stopped server ends |
| Tick engine (`dust-server/src/engine.rs`) | schedule, debt, pause | `advance_at`, `run_one_tick` | a burst after a stall | at most the cap in one advance |
| Listener (`net/listen.rs`) | accept loop, runtime, counters | serve, `Drop` | sessions are not waited for | the save covers what was served |
| Save (`net/save.rs`, `net/level.rs`) | `dust-edits.json`, its temporary, `level.dat` | `store`, `load`, `store_time_beside` | crash between any two steps | whole, and never older |
| Session loop (`net/session.rs`) | one player's position, view, inventory, window, keep-alive | the arms of `play_loop` | stale window ids, a send that fails half-way | items conserved, a timed-out session leaves |
| Items on the ground (`net/items.rs`) | the list of entities; the broadcast channel; the ticker's claim | `pop`, `claim_near`, `visible_from`, `tick` with ageing, motion and merging | a ceiling, indices that move under a quadratic pass, items claimed and not yet put away | nothing duplicated or lost, clients show what lies there |
| Inventory and containers (`net/inventory.rs`) | the slots, the cursor, a drag, five windows; the copy a reconnecting player gets | nine click modes, `set_creative`, `collect`, `closed`, `take_result`, mirrors of furnaces | results that are pictures of what would be made; a drag over several messages; a record taken only sometimes | no item made or lost but by a recipe, a copy, a throw or want of room |
| Furnaces (`net/furnaces.rs`) | indexed cells, a map by block, a free list, a tick list, watch counts | `with`, `remove`, `tick`, `watch`, `snapshot`, `restore` | indices used again; only listed furnaces tick; watches outlive screens | as if every block had a furnace and each burned at every tick |
| Roster, chat, clock (`net/players.rs`, `chat.rs`, `daylight.rs`) | who is here; the pair of time counters | join, leave, move; tick, `/time` | a joiner's snapshot against a broadcast | everybody is listed once |
| Connection (`dust-net`) | protocol state, queue of packets | login, configuration, timeouts | order and time limits | the table of states is kept |
| Movement guard (`dust-guard`) | last good position, pending correction | check, correct, acknowledge | late acknowledgements | a correction is answered once |
| Region files (`dust-world/src/region`) | the header on disk and in memory, sectors, the allocator, files beside for big chunks | `open`, `write_chunk`, `remove_chunk`, `read_chunk`; store wrappers | a write that fails, or a process that dies, between any two of payload, header and free | a chunk is what was stored last, or what was tried since, whole |

The other crates (`dust-gen`, `dust-nbt`, `dust-protocol`, `dust-registry`,
`dust-config`, the rules in `dust-sim`) are pure functions, codecs or generated
tables; several more are placeholders. `PROJECT.json` lists every component
with its status, and under `hazards` every place where this code could go wrong
in a way a test would hardly reach.

## 2. The modules

| Module | Models | Instances | Proofs |
|---|---|---|---|
| `Residency` | the residency, its guards | `MCResidency` | `ColumnStoreProofs` |
| `ColumnStore` (extends `Residency`) | the queue, builders, tasks that ask, `Drop` | `MCColumnStore` | `ColumnStoreProofs` |
| `StreamView` | one session's view and its stream passes | `MCStreamView` | `SessionProofs` |
| `Edits` | the verbs, the update queue, the channel, sessions that hear | `MCEdits` | `EditsProofs` |
| `WorldUpdates` | the update queue, the schedule, falling blocks and the ticker that works on them | `MCWorldUpdates` | `UpdatesProofs` |
| `Items` | items on the ground, the ticker, a session that shows and picks up | `MCItems` | `ItemsProofs` |
| `Stacks`, `Inventory` | stacks and their tables; every click as an operator on an inventory | through `MCPockets` | `SessionProofs` |
| `Furnace` | one furnace and its tick | through `MCPockets`, `MCFurnaces` | |
| `Pockets` (extends `Inventory`, `Furnace`) | a session with its windows, its record, a furnace beside it | `MCPockets` | `SessionProofs` |
| `ItemBag` | *abstract*: what a player may rely on of their items | | implemented by `Pockets` |
| `Furnaces` (extends `Furnace`) | the indexed store, watches, screens, breaking, restart | `MCFurnaces` | `FurnacesProofs` |
| `EveryFurnace` | *abstract*: a furnace at every block, all burning | | implemented by `Furnaces` (proved) |
| `Lifecycle` | start-up, stop, ticks, teardown, save, crash, restart | `MCLifecycle` | `LifecycleProofs` |
| `RegionFile` | a region file, call by call and write by write, with failures and crashes | `MCRegionFile` | `RegionProofs` |
| `ChunkMap` | *abstract*: a map of chunks that survives accidents | | implemented by `RegionFile` (proved) |

An operator whose comment begins with "A slip" is not part of a specification:
it is the same step with a plausible mistake in it, and each property is checked
to fail when the step is replaced by its slip.

**Residency.** `kept` is the `HashMap` behind the lock: its keys, the keys that
have a chunk, a holder count per column and `retired`. `Take`, `GiveBack`,
`Retire`, `Exchange`, `Release`, `Fill` are the methods, as functions of a map
over a *set* of columns: a ring and a claim list each column once. One step is
one acquisition of the write lock, so `Residence::move_to` is `Hold` and then
`LeaveOld`. `leaving[s]` says that the second half is still to come.

**ColumnStore.** A holder is a sequential task; `task[h]` says where it is
between taking a claim and having asked for all of it to be built. `send` is
`Snapshot` (residency's read lock), `Enqueue` (the mutex) and `Notify`
(`notify_one` once per column, with the mutex released). A builder's `Look` is
one acquisition of the mutex, and `offer` is `OfferFill` then `OfferUnclaim`.
Condition variables may wake spuriously. Dropping the store is the flag, the
`notify_all` and the join.

**StreamView.** A session is one task and a failing send ends it, so a pass is
one step. What the builders have ready is not known here: a pass takes the
nearest missing columns up to a point of `CutAfter`. `client` is what was really
sent, beside the server's record of it. `narrowed` is not in the code: it remembers
that the view was narrowed and that every pass since was one that `complete`
skipped.

**Edits.** `writer[w]` is where a call of `set_block`, `break_block` or
`place_block` is; each lock it takes is a step. The six reads of `around` are
one step, and a column has one cell. `States` has air, a plain block and a
block with two shapes (a fence), which is what `reshape` distinguishes. `inbox`
and `lagged` are a receiver of the broadcast channel. Two variables are not in the
code: `unseen` remembers the cells that were written, or lie beside one that was,
since the tick looked there, and `raced` the cells at which two calls were together at some moment, each between the first and
the last thing it does there (`On`).

**Items.** `ground` is the `Vec` in the order things were dropped, and one step
is one acquisition of its lock, or one turn of a session's loop. Places are
columns on a line; where an item's next move takes it and whether it lands is
chosen, and distances decide the rest: who ticks it, who picks it up, what
merges. `TickRun` is the whole of `ItemWorld::tick`, with the merging pass as a
loop over pairs in the order of the list that keeps what is left of each stack. `hand` is what a session has claimed
and not put away. Ids are reused once nobody knows them, which keeps the model
finite without a bound on how often a full pocket gives an item back. `made`
and `lost` are not in the code: they keep the account of what came from blocks
and what went by age, by the ceiling, or with a session that ended with claimed
items. The view is the whole square around the player: how it fills is
`StreamView`.

**WorldUpdates.** The world is one column of cells, with air beside it: sand,
torches (which stand on what is below), logs and leaves are the states that the
rules tell apart. `Reaction` is `Rules::reaction`, `Touch`, `Plan`, `TakeDue` and
`TakeUpdates` the methods of `Pending` and `Schedule`, and `tick` says where
`WorldTicker::tick` is. What a look finds and what is written on the strength of
it are two steps, as is a player's write to the map and its note in the queue; a
launch is `Launch` (the entity) and then `Clear` (the cell), in the code's order.
The ticker's own write and note are one step, since only the ticker takes from
the queue. A falling block's height and speed are in millionths of a block,
which `falling.rs` has as floats. A schedule entry counts down, where the code
compares with the tick's number. `missed` (what a full queue or a stop let go
of, or what was generated unstable: nobody tells the queue of a new column) and
`book` (an account of sand) are not in the code. `Restart` keeps what
`save_world` writes: the blocks.

**Inventory and Pockets.** A kind is an item with its components, so stacks join
when their kinds are equal. `Click` dispatches to one operator per mode
(`LeftClick`, `QuickMove`, `Swap`, `FinishDrag`, ...), each on the record that
`struct Inventory` is, with `changed` as the code's set of changed slots: it
decides whether the session records. Runs of slots are tried in the code's order,
with folds. Crafting, cutting and smithing are tables given as constants, because
they are data loaded from a datapack. `Pockets` is one session: a step is one
turn of its loop or one acquisition of the furnaces' lock. Each scene has one
bench, so that the windows need not be combined. `did` names the step for the
abstract bag, and `disturbed` remembers that a slot of a running drag was written
by something else.

**Furnaces.** `world` is `Inner`: cells by index, the index of each block (0 for
none), the free list, the tick list (as how often an index is on it). `With`
is the one entry that sessions use: made if absent, changed, refreshed, forgotten
if nothing is left. `Ticked` ticks only the list. `seat[s]` is where a session is
between its click on a furnace and its open screen: the new watch is taken before
the old one is given up. Of the experience a furnace has banked the model keeps
whether there is any.

**Lifecycle.** One process from `run` to its end and the next one on the same
disk. `main` is the main thread's place in `run`, `teardown` and `save_world`.
What is saved is four counters, one per lock (`blocks`, `players`, `furnaces`,
`time`). A deadline may have passed whenever a thread looks, so time needs no
clock. `Reboot` may happen at any step: it is both the power cut and the
ordinary next start. A write that was not flushed is lost by a power cut; a
rename is taken to be durable, as the code takes it.

**RegionFile.** `disk` is what a crash leaves, `file` the header and the
allocator in memory, `op` the call under way: `external` (the file beside),
`allocate`, `sectors` (one step per sector), `header`, `free`, `unlink`, or `answer`
for a removal that finds nothing in memory and touches nothing. Each may fail, which ends the call with what it has done so far in place, and the process
may die between any two. Reading is an operator, `ReadAt`, since it changes
nothing. What the operating system had not written at a power cut is not
modelled: the code never flushes, and a power cut can do worse than a crash.

## 3. The runs

| Run | Instance | What it shows |
|---|---|---|
| `Residency` | 4 columns, rings of 3 sharing two, 2 sessions, 1 ticker, cap 1 | holder counts are exact under every interleaving; a column held before and after a step is not emptied |
| `Store` | 2 columns, a session that joins, moves and claims, 2 builders, batch 2, cap 2 | the queue loses and duplicates nothing and no wake-up is lost, also while the store is dropped; what stays held is built; `Drop` ends |
| `StoreLostBuild` | 1 column, cap 0 | **violated**: see finding 1 |
| `View` | radius 1 or 2, two neighbouring places, requests -1, 0, 1 and 3, batches of 9 and 17, passes cut after 0, 4, 8 or all columns | nothing is credited that was not sent, however often the session lags, widens or narrows its view; complete means whole unless the view was narrowed and no pass has run since; a lag is repaired |
| `EditsSeen` | 2 cells of air, 2 writers with 2 calls in all, 1 session, a backlog of 1, a queue of 1 | where two threads were not at one cell together, a session that has heard everything shows the world, every client comes to show it, and a reshape changes no block for another; no cell the tick should look at is forgotten unless the queue refused it |
| `EditsRace` | the same, any ground of air and stone, a backlog of 4 | **violated**: see finding 2 |
| `Updates` | a column of 6 cells, 4 worlds (one generated with an overhang), 2 calls of a player, a queue of 5, a budget of 3, 1 block in the air, 1 restart | no cell that should react is forgotten but by a full queue or a restart; no sand is lost or doubled while a write finds what its look found; the world comes to rest |
| `Items` | 2 columns with items and one far away, 1 player with 1 slot, 3 items made in drops of 1 or 2, stacks of 2, ceiling 2, lifetime 2, backlog 2 | no item is duplicated or lost but by age, the ceiling or a session that ends; a client that missed nothing shows what lies there; the ticker claims where items fall |
| `Pockets` | 3 kinds, 2 pocket slots, grids of 2, one bench in each of 4 scenes, 2 or 3 items | a result shown is what its cells make; the whole session implements `ItemBag` |
| `Furnaces` | 2 blocks, 1 session, one thing that cooks for 4 ticks on a fuel that burns 3 | the tick list is exact, watches are screens, the store implements `EveryFurnace`, a furnace left alone finishes |
| `Lifecycle` | 1 session, 1 asker, cap 1, 2 processes | no wake-up lost, phases unwound in reverse, a stopped server ends; the save is whole, covers what was served and never goes back |
| `Region` | 2 chunks, payloads of 2 and (external) 3 sectors, 2 compression schemes, 5 sectors of disk, 1 failed call per opening | a file opens after any accident, no sector leaks without a failed call; a removal that finds nothing is right unless a call for that chunk failed before; the file implements `ChunkMap` |

Eight more configurations are kept beside these, each with a property that the code
does not have and the instance on which TLC refutes it, as section 5 describes
them. They are not among the runs, and `PROJECT.json` does not list them:

| Configuration | Module | Refutes |
|---|---|---|
| `ViewShrinks.cfg` | `MCStreamView` | `CompleteIsWhole` |
| `EditsReshape.cfg` | `MCEdits` | `ReshapeIsNoPlacement` |
| `UpdatesDoubled.cfg` | `MCWorldUpdates` | `NoSandIsTwice` |
| `UpdatesOutside.cfg` | `MCWorldUpdates` | `LooksInsideTheWorld` |
| `PocketsDrag.cfg` | `MCPockets` | `DraggedSlotsJoin` |
| `LifecycleMoves.cfg` | `MCLifecycle` | `NothingMovesWhileSaved` |
| `RegionRemove.cfg` | `MCRegionFile` | `RemovedIsGone` |
| `RegionSchemes.cfg` | `MCRegionFile` | `CrashLeavesAPayload` |

*Bounds, and why they are enough.* Two of everything that races is the least
that races: two holders make a shared column, two builders a shared queue, two
chunks an allocator. The caps are set so that they are reached: cap 1 retires
when two columns are let go of, a backlog of 1 overruns at the second message, a
queue of 1 refuses at the first touch (of 5, at the second), one block in the air
makes the second launch wait, a pocket of two slots is full at once, a disk of
five sectors is full with one payload being replaced by another. Rings overlap as
the code's do. In `Items` three items of one kind are the least that fill a
ceiling of two and overfill a stack and a pocket. In `Furnaces` the fuel burns
for less than cooking takes, so that a fire has to be fed.

These constants exist only to bound a model: `MaxVerbs` (calls made), `Worlds` (the ground they begin on: in `EditsSeen` air, which
keeps its liveness check small; two calls are enough to put a fence beside a block), `MaxStops`
and `MaxBoots` (restarts), `MaxMade` (items that blocks drop), `Ids` (entities
known at once: with none free nothing is dropped or given back), `MaxChanges` (a
counter of changes stays at its maximum, which keeps "older" and "newer" apart
for one change), `most` of a scene (items that copies and creative writes make), `CutAfter` (the
points at which a pass may be cut: none, some, nearly all and all of the narrow
square, and all of the wide one),
`DiskEnd` and `MaxFailures` (a disk, and how many calls fail while a file is
open). `LIFETIME_TICKS` of a falling block has the code's value in `Updates` and
is not reached there; nor is it in a world 384 high.

One bound carries a property: in `Store` the cap exceeds the columns that can be
unheld, because past it finding 1 refutes that what stays held is built
(`Residency` has the cap at work). Elsewhere, where the code has a defect, the
instance reaches it and the property says what it excepts: cells at which two
calls were together (`raced`), a view that was narrowed and not passed since
(`narrowed`), a change of compression of a chunk beside (`Clash`), a write that
found another block than its look (`surprised`), a drag over slots that were
written meanwhile (`Blur`). Each of those exceptions has a property without
it, which `EditsRace` or one of the configurations beside the runs refutes.

`Pockets` and `Region` are checked under a `VIEW`. In `Pockets` it leaves out
`did`, which no step reads; in `Region` it takes sectors that neither an entry
nor the call under way names for equal, and no step reads those before it has
written them. `Region` takes compression schemes
for alike: nothing but equality tells them apart, and the run has no liveness
property, which symmetry would not allow.

`CHECK_DEADLOCK FALSE` appears in the runs of `Lifecycle`, where the server may
end, in those of `WorldUpdates`, where a world at rest with no calls left has
nothing to do, and in `EditsReshape.cfg`, which has no sessions.

*Fairness, and what justifies it.* In the store: a thread that can run runs,
and a task that has begun to ask finishes, which is what an operating system
and a runtime give; nothing is assumed of when a claim is taken or given up, of
spurious wake-ups, or of the store being dropped. In the view: the streaming
interval fires, and a pass that could send something is not put off for ever,
which the builders provide (`Store`). `LagIsRepaired` assumes besides that
the session lags only finitely often, and says so in its premise. In the edits:
a call goes on, the tick comes round, a session returns to its channel; that a
player walks anywhere is not assumed. In the updates: the tick thread goes on
and a call that was begun is finished. In the furnaces: the tick loop comes
round, and `FiresFinish` supposes in its premise that sessions leave the furnaces
alone from some moment on. In the lifecycle: only waiting threads wake, the asker
wakes them, the watchdog goes on looking and, strongly fair, finds its grace gone
in the end; start-up, ticks and the disk may take for ever. So `StoppedServerEnds`
is the watchdog's doing and not an assumption. Items, pockets and region files
have safety properties only, and no fairness.

*Refinements.* `Pockets` implements `ItemBag` with the bag of all
slots, the cursor, the furnace and the ground; results shown and mirrored furnace
slots are not counted, which is what makes taking them honest. `Furnaces`
implements `EveryFurnace` with a new furnace at every block the store has
forgotten, and a restart as a stutter. `RegionFile` implements `ChunkMap` with
what a reader of the *disk* would get, so that "whoever opens the file now" is
said at every step of every call. A removal that finds nothing in memory stores
nothing, so it is a stutter of `ChunkMap`, and `RightlyAbsent` says when its answer
is right.

## 4. What is proved

`tlapm` checks every proof in the eight `*Proofs` modules, from the constants'
assumptions only (`ResidencyAssumption`, `StoreAssumption`, `ViewAssumption`,
`EditsAssumption`, `UpdatesAssumption`, `StacksAssumption`, `FurnacesAssumption`,
`InventoryAssumption`, `PocketsAssumption`, `LifeAssumption`, `NamesAssumption`, `RegionAssumption`, `ItemsAssumption`): sets of columns,
sessions, holders, players and builders are finite, columns have a sort key, a
session owns an `ahead` claim, caps and batches are natural numbers, tables of
recipes and fuels map kinds to stacks and times, a block's loot is at most one
stack, what gives back an item stands where an item can lie, a slot is in one place of the
inventory only, what a recipe, a cut or a creative write makes fits a slot (which is what
`result_stack` and `decode` refuse otherwise), and the names that stand for
"nothing", "torn" or "garbage" are not names of anything else.

*Residency.* `RefcountExact` alone is not inductive: giving a claim back is
exact only for a column whose count is not zero, and the carried count moves
rightly only if it was right. The invariant `IInv` is types, exact counts,
exact carried count and the cap. Its proof has three layers: what each method
does to one map (`TakeFacts`, `GiveBackFacts`, `RetireFacts`), how the number of
claims on a column changes when one or two slots change (`OneSlotChanges`,
`TwoSlotsChange`), and one step per action. From it: `RefcountsAreExact`,
`HeldIsAlwaysKept`, `RetiredIsBounded`, and the action property
`HeldColumnsStayBuilt`.

*Column store.* `ColumnStore` extends `Residency`, and its steps under the
residency's lock are written with those of `Residency`, so what is proved above
carries over by `StoreImplementsResidency`, which holds by how the store's steps
are written. The queue's invariant needs its two halves together: `claimed`
stays exact only while nothing is there twice, and nothing is there twice only
while `claimed` is exact (`ClaimedIsExact`, `NoWorkIsDuplicated`,
`ParkedBuildersHoldNothing`). `NoWakeupIsLost` rests on builders ending only for
a closed queue.

*View.* Every step, whoever asks for it, is a pass from some record that credits
nothing new (`StepIsPass`). A pass adds to the record and to the client the same
columns, and takes from both the same, so `CreditedIsAlwaysSent` holds with
lags and `RecordCannotDrift` without. `CompleteIsWhole` is *not* a theorem of the
specification: it fails when a radius shrinks (section 5). What holds, of every
behaviour, is `CompleteUnlessSkipped`: whatever the moves, the lags and the
changes of radius, a view is mistaken for whole only between the request that
narrowed it and the first pass that is not skipped. What is on the record
otherwise is in range of the last centre (`LoadedInRange`, which every pass that
runs restores), and a subset of the square with as many columns as the square
(`SquareSize`) is the square.

*Edits.* `EditsLoseNoUpdate` holds for any number of threads: the tick has looked at
a cell since the last write in or around it, or the cell is queued (`Queued`), or
some call is between its write and its note (`Touching`). `CallInv` ties a call's place to its
verb. What clients see is proved for any number of threads too, cell by cell:
`EditsRace` refutes it only for a cell at which two calls were together, and
`raced` remembers those. `RacedInv` says that where two calls are together *now*
has been noted; `AloneInv`, of each thread, that at a cell it has had to itself
what it read still stands and what it wrote is still there, however the others
have changed the cells around it; and `HeardInv` that the last word in a session's
backlog about such a cell is the truth, unless some call still owes the
announcement (`Owes`): a call that changed nothing owes none, which is why it may
end without a word. The three are inductive together only (`MeetInv`). That gives
`EditsAreSeen` and `EditsReshapeOnly` for any number of threads, sessions and
cells, and any backlog.

*Block updates.* `UpdatesInv` joins the types of the queue, the schedule, the list
in the air, the tick and the calls to `NothingHangs` and `EverySandIsSomewhere`,
which are inductive only with three things the types do not say. The ticker's
batch is empty before it takes the next, so that nothing is overwritten; what it
is doing it does to the first cell of its batch and has seen sand there exactly if
it launches (`TickInv`); what is in the air is sand, below the top of the world and
moving down, so that it lands inside the world (`Airborne`). Each write is
followed by a note, of which `TouchFacts` says that each of the three cells is in
the queue or was refused, and no cell further off can become unstable by it
(`FarStable`). Schedules are kept in order by `Plan`, whose place for a cell is
the number of those due no later (`DueFirst`, `PlanFacts`). The step for sand is an
account: `SandChange` for the column, `FallOneFacts` for what falls. From it
`UpdatesTyped`, `UpdatesHangNothing`, `UpdatesKeepSand`.

*Furnaces.* A store is `Sound` if every index has one owner and the tick list
has exactly those with something to do. Every call under the lock is a function
from one sound store to another, shown for `Ensure`, `Refresh`, `With`, `Remove`,
`Ticked` and `Restored` one by one, together with what each holds afterwards at the
block it was for and at every other block. From the first half come
`FurnacesTyped`, `TickListIsExact` and, with a count of screens, `WatchesAreExact`;
from the second `FurnacesTickEvery`, the refinement of `EveryFurnace`: the tick
passes over only furnaces that a tick would leave as they are, and a forgotten one
held nothing.

*Lifecycle.* The invariant `LifeInv` has five parts. `SleepInv`: a thread asleep
has not missed a stop, because whoever sets the bit without the mutex still owes
the wake-up. `PhaseInv` and `LogInv`: the phases that completed are a prefix of
the four, and the transcript is that prefix and then its reverse, as far as the
teardown has come. `WorldInv`: what was served is counted before a save begins.
`SaveInv` is four statements about the save as it grows, is read, is written and
is spoken of (`Growing`, `Reading`, `Writing`, `Saying`): each says what the file
under its real name, the temporary and the copy in memory may be at that step.
From it, for any number of sessions, askers and processes: `LifeWakesEveryone`,
`LifeUndoesInReverse`, `LifeSavesAll`, `LifeSavesAreWhole`, `LifeNeverGoesBack`.

*Items.* `ItemsInv` joins the types and the four properties to three things that a
step needs. Ids on the ground are distinct from every id a client shows or is about
to hear of, when a new one is chosen. A hand has stacks only while its session is
in. And of a client that has missed nothing, `ClientOK` says more than that it will
show the ground: for each id that waits in its backlog, the *last* word about it is
what is so (`Honest`). Without that a join is not inductive, as a client begins
with what it sees and hears afterwards what was said between its subscription and
its look. The account of what a tick does is in three parts: what is selected from
a list and what is left of it add up (`TotalOfParts`, `ChosenFacts`); the merging
loop keeps, for every kind, the sum of what is left, and announces exactly the
stacks that it empties (`TurnKeeps`, and `LoopTurns` for the loop, by its least
failing turn); and what is announced ends exactly what has gone (`TickDoes`). A
pickup that fits in part is arithmetic on slots that are begun, full or empty
(`SlotsFacts`, `CollectOK`). From it, for any number of players, kinds, columns and
reaches: `ItemsTyped`, `NothingIsLost`, `ClientsCatchUp`, `FallersAreClaimed`.

*Region files.* `RunsInv` says that every run that the header on disk *or* the one
in memory names was written, is apart from every other chunk's in either, and is
known to the allocator. The two headers have to be in it together: after a failed
header write they differ, a call about another chunk publishes the difference, and
only because neither run was handed out meanwhile is that harmless. From it
`RegionOpensClean` and `RegionLeaksNothing`. `ContentInv` adds what the runs hold:
`Promised` (an entry in memory reads as the disk does, or as something tried
since), what a stub owes its file beside unless a call has spoilt it by a change of
compression (`Clash`), and what the call under way has written so far. With it each
step is shown to be a step of `ChunkMap`: `RegionIsAMap` is
`RegionSpec => OldOrNew`, for any chunks, payloads, sizes, compression schemes and
disk. `AbsentIsRight` is what can be said of a removal's "there was none": it is
right as long as no call for that chunk has failed since the last that answered
well.

*Inventory and Pockets.* `PocketsInv` types the session and says that, between two
turns of its loop, every bench shows what its cells make, nobody is still to be told
of a change, and that what is *recorded* would be come back to like that. Two
things make it hard. In the middle of a click the benches do not show what they
make: a write of a cell, or a result that was taken, is put right by the refreshes at
the end. `Showing(X, C)` states how far a click has come: the benches of `X` may show
anything, and those of `C` too if one of their cells is among what is to be told,
which is what the refreshes go by. Every click takes `Showing({}, Benches)` to itself
(`PickupShows` to `PickupAllShows`), and `RefreshedShows` takes that to
`Showing({}, {})`. And five benches share the slots: `BenchFacts` says that their cells
and results are apart, from `InventoryAssumption`, so that `Writes(i, j, D)`, "only
slots of `D` were written, and all were told", is enough to know about all the others.
That is also what shows that no click puts anything into a result: a shifted click's
destinations are slots that may be written (`DestinationsOpen`), and so are those a
drag has gone over. Clicks try runs of slots in turn, with a fold. A fold takes an
operator, which the prover cannot instantiate, so each of the eleven loops has its own
lemma (`GrowLoop` to `CopyLoop`), the same each time: there is a function whose values are
the turns (`LoopRuns`), and what is kept by each turn holds at the end (`LoopStays`).
From it `PocketsTyped` and `ResultsAreMade`, for any kinds, sizes of stacks, recipes,
and runs of slots.

*Model-checked only.* Liveness (`ClaimedColumnIsBuilt`, `DropEnds`,
`LagIsRepaired`, `EverybodyEndsUpSeeing`, `WorldSettles`, `FiresFinish`,
`StoppedServerEnds`), which is out of the prover's reach, and, so far,
`KeepsItsItems`: that a session implements `ItemBag` needs, beside the types proved
here, the sum over all slots of what each loop moves. A loop over a list is not out of reach for itself: where induction is needed
(the loop of `Pending::touch`, the merging pass, the furnaces that `Restored` puts back, how many are
due), the proofs take the least number for which the claim fails (`LeastNumber`,
from the well-foundedness of `<`) and refute it. Four invariants and a property of
steps are proved and in no run, the theorems covering every instance: `HeldIsKept`,
`ClaimedExact`, `ViewTypeOK`, `RegionTypeOK` and `InRangeIsKept`.

## 5. Findings

1. **A held column may never be built** (`StoreLostBuild`,
   `net/source.rs:451`). Between the two halves of `offer`, a column that was
   retired and is held again is still in `claimed`, so its new holder does not
   queue it; the batch it was in has been discarded.
2. **A client may keep showing a block the world does not have** (`EditsRace`,
   `net/edits.rs:580`). `break_block` decides not to announce from a read made
   before its write.

Refuted by the configurations beside the runs:

- **A view may call itself complete with the wrong columns** (`CompleteIsWhole`,
  `net/view.rs:215`). `complete` compares counts. `set_radius` keeps the centre
  and what is loaded, so a view of radius 2 that holds nine of its columns, not
  the inner nine, answers yes for radius 1, now and at every later pass, until the
  player changes column. `view.rs:204` says that it answers "Whether this client
  already holds everything a view centred on `centre` reaches".
- **A fence may come back over the block that replaced it**
  (`ReshapeIsNoPlacement`, `net/edits.rs:280`). `reshape` writes a neighbour's old
  block in a new shape over whatever another thread has put there meanwhile;
  `edits.rs:278` says that "a fence growing an arm is not a placement".
- **A dig may double a block of sand** (`NoSandIsTwice`, `net/updates.rs:532`).
  `launch` says "Air first and the entity second, so the cell is never both a
  block and an entity" (530) and does the two the other way round. A dig in
  between drops the block that also falls; a placement is erased.
- **A change in the highest layer stops the tick thread** (`LooksInsideTheWorld`,
  `net/edits.rs:523`). The cell above it is queued, and the tick's look at that
  cell panics (an assertion of `Chunk::section_index`); `edits.rs:463` says that
  every caller of `block_at` has a position the reach check has bounded.
  `WorldSettles` excepts it. (`place_block` itself goes on to `reshape`, which
  reads the same cell and ends the session's task, after the write and the note
  are made.)
- **A drag writes over what a slot was given meanwhile** (`DraggedSlotsJoin`,
  `net/inventory.rs:2374`). It ends over slots that a pickup or a creative write
  filled since it went over them, against the comment at 2371. `ItemBag` allows it
  under the name `Blur`.
- **The world moves while it is saved** (`NothingMovesWhileSaved`,
  `net/listen.rs:355`). `shutdown_background` does not wait for the sessions' tasks,
  so one that is in the middle of a turn may change the world during the save,
  against `dust-server/src/server.rs:1637`. The save is still whole, and each of its
  parts is still no older than what was acknowledged before (`LifeSavesAll`); the
  parts may differ in age.
- **A removal that is tried again may be told there was nothing**
  (`RemovedIsGone`, `dust-world/src/region/mod.rs:598`). The entry is cleared in
  memory before the header is written; after that write has failed, the second
  call finds nothing to do, and the chunk is back at the next opening.
- **A crash may leave a chunk under the wrong compression** (`CrashLeavesAPayload`,
  `dust-world/src/region/mod.rs:534`). Two external versions of a chunk with
  different schemes: between the rename and the header, the stub names the scheme
  of the old, where `store.rs:111` promises the old payload.

Met while reading, and not the subject of a configuration:

Columns, views, edits:

- `ColumnClaim::set` sorts its window (`net/residency.rs:604`), so the queue is
  worked in key order, not nearest first as `net/source.rs:172` describes.
- After a lag the record is emptied and the client is not, so the record and
  the client differ until the next passes (`net/session.rs:1517`), against "the
  record cannot drift" at 681. `CreditedWasSent` is what still holds.

Block updates and falling blocks:

- Two falling blocks may land in one cell in one tick, as when they set off from
  two heights six ticks apart: both are to be placed there and the second write
  replaces the first, against "Two falling sands are two blocks"
  (`net/falling.rs:26`). `EverySandIsSomewhere` excepts writes that find another
  block than their look did, and only those.
- A block that falls faster than one block in a tick, after about twenty, is
  asked only about the cell it arrives in and passes through a floor one thick.
- `MAX_ENTITIES` (`net/falling.rs:58`) is described as landing the oldest early;
  the code and its test refuse the new one.
- What is in the air, scheduled or queued at a stop is not saved: sand in the air
  is gone, and a torch or leaf that was due stays until something beside it
  changes. The module's heading (`net/updates.rs`) speaks of scheduled ticks "which
  the save format now has to carry".

Items, inventories, furnaces:

- A picked-up item is claimed before it is sent and recorded
  (`net/session.rs`, from 1303): a send that fails in between loses it. `Items`
  counts it as `lost`.
- One block can drop twice: the dig reads what was there
  (`net/session.rs:2003`), `break_block` answers true also for a cell that
  somebody else has emptied meanwhile (`net/edits.rs:580`), and the loot is
  rolled from the earlier read. `net/edits.rs:570` expects of that race "one
  duplicate puff".
- Changes of items are relayed only for columns in the view
  (`net/session.rs:1339`) and `visible_from` is asked only at the join, so an
  item dropped before its column was streamed is never shown, and one that goes
  while its column is out of view stays on the client. The join itself asks for a
  circle where the view is a square. `ClientShowsTheGround` is about sessions
  that held every column throughout.
- What does not fit a full inventory is dropped again as a new entity
  (`net/session.rs:1320`): as long as the player stands there it never ages out,
  against "everything despawns" (`net/items.rs:24`).
- A merge keeps the entity that comes first in the list, which need not be the
  one that has aged most: only items near somebody age (`net/items.rs:443`).
  Nobody is told the survivor's new count.
- An empty world is left alone before the ticker sets its claim
  (`net/items.rs:773`): after the last falling item is picked up its columns stay
  held until another is dropped, against "given up the moment they do" (504).
- A drag's shares are counted over all slots, so bench slots that are not part of
  the window dilute them (`net/inventory.rs:2356`).
- A shifted click on a result goes on while anything shows, so it may make two
  different things (`net/inventory.rs:1906`, against 1831 and 1883;
  `ShiftMakesOneThing`).
- What is saved of an inventory folds in the grid of a table and not the cursor,
  the stonecutter's input or the smithing table's (`net/inventory.rs:1124`, against
  1117): a connection that drops loses those. Opening another screen shuts the one
  before without recording (`net/session.rs:2092`).
- The empty bucket an ingredient leaves behind, and what an overfull swap takes
  out of its slot, go to `give`, which drops what has no room
  (`net/inventory.rs:1563`); the comments say that this "cannot lose it" (1466) and
  is done "rather than being deleted" (2189). With a full inventory both are lost.
- The save reads inventories and furnaces under separate locks
  (`dust-server/src/server.rs`, from 1700).
- A click in the open screen of a furnace that was broken meanwhile makes a
  furnace with no block, which the next one built there inherits
  (`net/session.rs:3590`, against 3429). The items are kept.
- The ticker sets a furnace's glow in two steps after the lock is gone, and may
  put a broken furnace back as a block (`net/furnaces.rs:817`); two announcements
  may overtake each other and leave an old picture (526, 656).

Stopping and saving:

- A region file's writes are never flushed. A write that fails keeps its sectors
  until the file is opened again.

## 6. What is not modelled, and why

A client that throws columns away by itself; a builder that panics (the columns
it had in hand would stay in `claimed`); the contents of columns, packets and
files; the order of the build queue as it affects *how soon* a column is built.
In `WorldUpdates`: the four cells beside a cell, with the chunk border between
them (the rules read six neighbours alike), support from the side, and what
falling blocks are shown as. In `Furnaces`: announcements to open screens and the
lit block. In `Pockets`: two sessions at one furnace (each click is a transaction
under the lock, and the other's change arrives as a mirror), the bucket a
fuel slot also takes (`Buckets` is empty in the instance), and the
menu of an anvil or a chest, which the server does not have. In `Lifecycle`:
pausing and the schedule in nanoseconds, what start-up reads besides the save (it
can only fail, which is a branch), a full disk that lies. In `RegionFile`:
timestamps, salvage of a damaged file, a power cut that reorders writes.
Of the other components: the table in section 1 and the notes in
`PROJECT.json`. Cryptography, codecs, terrain and lighting are pure functions
with tests of their own.

## 7. Plan

1. **Proofs**: `KeepsItsItems`, with `Moving` extended by an account of each kind.
2. **`Session`**: the rest of `play_loop`: keep-alive and its timeout, digs with
   their sequence numbers, teleports and acknowledgements with `dust-guard`.
3. **`Roster`** and the world clock: join, leave and move against a joiner's
   snapshot and the lag of its receiver; the pair of counters `/time` sets.
4. **`Connection`**: `dust-net`'s table of states, login, time limits and
   outbound queue.
5. **`TickEngine`**: debt, cap, pause and overflow at the ends of the clock,
   as the detailed form of `Advance` in `Lifecycle`.
6. **Composition** of `Edits` with `WorldUpdates`: one world, several writers and
   the clients that hear of falling blocks.
