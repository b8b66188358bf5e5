-------------------------------- MODULE Edits --------------------------------
(***************************************************************************)
(* The blocks players change (net/edits.rs): the map of edits, the three   *)
(* announcing verbs, the queue of cells the tick loop has yet to look at   *)
(* (net/updates.rs, Pending), and the broadcast channel by which every     *)
(* session hears about a change and passes it to its client                *)
(* (net/session.rs).                                                       *)
(*                                                                         *)
(* A verb is not atomic: it runs on its caller's thread -- a session's     *)
(* task or the tick thread -- and reads, writes, queues and announces      *)
(* under a lock at a time, so every one of those is a step.  The six reads *)
(* of `around` are taken as one.  A column has one cell here.              *)
(***************************************************************************)
EXTENDS Integers, Sequences, SequencesExt

CONSTANTS
  Cells,        \* block positions inside the world's height
  Beside,       \* Beside[c]: the cells around c, in the order of SIDES
  Writers,      \* threads that call the verbs
  Listeners,    \* sessions
  Backlog,      \* EDIT_BACKLOG
  MaxPending,   \* MAX_PENDING
  PerTick,      \* PER_TICK
  MaxVerbs,     \* how many calls a behaviour has: a bound of the model
  Worlds,       \* the worlds they may begin in: a bound of the model
  None          \* a cell of a column the client was never sent

ASSUME EditsAssumption ==
  /\ Beside \in [Cells -> Seq(Cells)]
  /\ \A c \in Cells : \A d \in ToSet(Beside[c]) : c # d /\ c \in ToSet(Beside[d])
  /\ Backlog \in Nat \ {0} /\ MaxPending \in Nat /\ PerTick \in Nat \ {0}
  /\ MaxVerbs \in Nat
  /\ Worlds \subseteq [Cells -> {"air", "stone"}]

VARIABLES
  world,     \* EditedWorld::edits over what was generated, cell by cell
  waiting,   \* Pending::queue; its set of members is Pending::waiting
  refused,   \* the cells a full queue refused
  batch,     \* what the tick has taken and not looked at
  unseen,    \* history: the cells that were written, or a cell beside them, since
             \* the tick looked there
  writer,    \* writer[w]: the call w is in
  inbox,     \* inbox[s]: s's receiver on the edit channel
  lagged,    \* lagged[s]: whether s's receiver has lost its oldest messages
  holds,     \* holds[s]: the columns of s's View
  client,    \* client[s]: what s's client has in each cell
  verbs,     \* calls made so far
  raced      \* history: the cells two calls were at at one time

worldVars == <<world, waiting, refused>>
tickVars == <<batch, unseen>>
channelVars == <<inbox, lagged>>
clientVars == <<holds, client>>
codeVars == <<world, waiting, refused, batch, unseen, writer, inbox, lagged,
              holds, client, verbs>>
editVars == <<codeVars, raced>>

-----------------------------------------------------------------------------
\* A fence takes its shape from what is beside it; air and stone have one.
States == {"air", "stone", "fence", "joined"}
ReadsNeighbours(state) == state \in {"fence", "joined"}

\* The state a block takes in c, given what is around it.
Shaped(c, state) ==
  IF ~ReadsNeighbours(state) THEN state
  ELSE IF \E n \in ToSet(Beside[c]) : world[n] # "air" THEN "joined" ELSE "fence"

Around(c) == {c} \cup ToSet(Beside[c])

Call == [ at    : {"shape", "write", "touch", "reshape", "around", "fix",
                   "fixTouch", "fixTell", "tell"},
          verb  : {"set", "break", "place"},
          cell  : Cells, state : States, previous : States,
          todo  : Seq(Cells),      \* the sides reshape has still to do
          next  : States ]         \* the state of the one it is at

Idle == [at |-> "idle"]

\* w is between the first and the last thing its call does to c: its own cell
\* from the read that begins the call, a side from the read that finds a block
\* with arms there.
AtASide == {"around", "fix", "fixTouch", "fixTell"}
On(w, c) ==
  \/ writer[w] # Idle /\ c = writer[w].cell
  \/ writer[w].at \in AtASide /\ c = Head(writer[w].todo)

Contested == {c \in Cells : \E v, w \in Writers : v # w /\ On(v, c) /\ On(w, c)}

\* Pending::push: each cell once, while there is room.
Push(queue, c) ==
  IF Len(queue) >= MaxPending \/ c \in ToSet(queue) THEN queue ELSE Append(queue, c)

\* A slip: only the changed cell is queued, not the ones beside it.
TouchAlone(c) ==
  /\ waiting' = Push(waiting, c)
  /\ refused' = refused \cup ({c} \ ToSet(waiting'))

\* Pending::touch: the cell, and then the ones around it.
Touch(c) ==
  LET cells == <<c>> \o Beside[c]
      upTo[n \in 0..Len(cells)] ==
        IF n = 0 THEN waiting ELSE Push(upTo[n - 1], cells[n])
  IN  /\ waiting' = upTo[Len(cells)]
      /\ refused' = refused \cup {d \in ToSet(cells) : d \notin ToSet(waiting')}

\* A slip: the channel drops and does not say so.
AnnounceDropping(c, state) ==
  /\ inbox' = [s \in Listeners |->
                 Append(IF Len(inbox[s]) < Backlog THEN inbox[s] ELSE Tail(inbox[s]),
                        [cell |-> c, state |-> state])]
  /\ UNCHANGED lagged

\* broadcast::Sender::send: a full receiver loses its oldest message and will
\* be told.
Announce(c, state) ==
  /\ inbox' = [s \in Listeners |->
                 Append(IF Len(inbox[s]) < Backlog THEN inbox[s] ELSE Tail(inbox[s]),
                        [cell |-> c, state |-> state])]
  /\ lagged' = [s \in Listeners |-> lagged[s] \/ Len(inbox[s]) = Backlog]

-----------------------------------------------------------------------------
Init ==
  /\ world \in Worlds
  /\ waiting = <<>> /\ refused = {} /\ batch = <<>>
  /\ unseen = {}
  /\ writer = [w \in Writers |-> Idle]
  /\ inbox = [s \in Listeners |-> <<>>]
  /\ lagged = [s \in Listeners |-> FALSE]
  /\ holds = [s \in Listeners |-> {}]
  /\ client = [s \in Listeners |-> [c \in Cells |-> None]]
  /\ verbs = 0
  /\ raced = {}

(***************************************************************************)
(* The verbs.                                                              *)
(***************************************************************************)
\* A call begins; previous is what the call reads there first.
Begin(w, at, verb, c, state) ==
  /\ writer[w] = Idle
  /\ verbs < MaxVerbs
  /\ verbs' = verbs + 1
  /\ writer' = [writer EXCEPT ![w] =
                  [ at |-> at, verb |-> verb, cell |-> c, state |-> state,
                    previous |-> world[c], todo |-> <<>>, next |-> state ]]
  /\ UNCHANGED <<worldVars, tickVars, channelVars, clientVars>>

\* set_block, for a change no player made.
SetBlock(w, c, state) == Begin(w, "write", "set", c, state)

\* break_block, which reads what was there first.
BreakBlock(w, c) == Begin(w, "write", "break", c, "air")

\* place_block, which reads what was there first.
PlaceBlock(w, c, state) == Begin(w, "shape", "place", c, state)

\* shaped_at.
ShapePlaced(w) ==
  /\ writer[w].at = "shape"
  /\ writer' = [writer EXCEPT ![w].at = "write",
                              ![w].state = Shaped(writer[w].cell, @)]
  /\ UNCHANGED <<worldVars, tickVars, channelVars, clientVars, verbs>>

\* set_block_quietly, the map.
Write(w) ==
  /\ writer[w].at = "write"
  /\ world' = [world EXCEPT ![writer[w].cell] = writer[w].state]
  /\ unseen' = unseen \cup Around(writer[w].cell)
  /\ writer' = [writer EXCEPT ![w].at = "touch"]
  /\ UNCHANGED <<waiting, refused, batch, channelVars, clientVars, verbs>>

\* set_block_quietly, the queue; a break of what was read as air ends here.
QueueUpdates(w) ==
  /\ writer[w].at = "touch"
  /\ Touch(writer[w].cell)
  /\ writer' = [writer EXCEPT ![w] =
                  IF @.verb = "set" THEN [@ EXCEPT !.at = "tell"]
                  ELSE IF @.verb = "break" /\ @.previous = "air" THEN Idle
                  ELSE [@ EXCEPT !.at = "reshape", !.todo = Beside[writer[w].cell]]]
  /\ UNCHANGED <<world, tickVars, channelVars, clientVars, verbs>>

\* The next side of reshape is done.
SideDone(call) == [call EXCEPT !.at = "reshape", !.todo = Tail(@)]

\* reshape reads a side; when all are done the call announces itself, or is a
\* placement of what was there already.
Reshape(w) ==
  /\ writer[w].at = "reshape"
  /\ writer' = [writer EXCEPT ![w] =
       IF @.todo # <<>>
       THEN IF ReadsNeighbours(world[Head(@.todo)])
            THEN [@ EXCEPT !.at = "around", !.next = world[Head(writer[w].todo)]]
            ELSE SideDone(@)
       ELSE IF @.verb = "place" /\ @.previous = @.state THEN Idle
       ELSE [@ EXCEPT !.at = "tell"]]
  /\ UNCHANGED <<worldVars, tickVars, channelVars, clientVars, verbs>>

\* reshape reads what is around the side, and decides.
ReadAround(w) ==
  /\ writer[w].at = "around"
  /\ LET next == Shaped(Head(writer[w].todo), writer[w].next)
     IN  writer' = [writer EXCEPT ![w] =
                      IF next = @.next THEN SideDone(@)
                      ELSE [@ EXCEPT !.at = "fix", !.next = next]]
  /\ UNCHANGED <<worldVars, tickVars, channelVars, clientVars, verbs>>

\* A slip: the side takes the state that was put beside it.
FixWriteOfPlaced(w) ==
  /\ writer[w].at = "fix"
  /\ world' = [world EXCEPT ![Head(writer[w].todo)] = writer[w].state]
  /\ unseen' = unseen \cup Around(Head(writer[w].todo))
  /\ writer' = [writer EXCEPT ![w].at = "fixTouch"]
  /\ UNCHANGED <<waiting, refused, batch, channelVars, clientVars, verbs>>

\* The set_block of reshape: the map, the queue, the channel.
FixWrite(w) ==
  /\ writer[w].at = "fix"
  /\ world' = [world EXCEPT ![Head(writer[w].todo)] = writer[w].next]
  /\ unseen' = unseen \cup Around(Head(writer[w].todo))
  /\ writer' = [writer EXCEPT ![w].at = "fixTouch"]
  /\ UNCHANGED <<waiting, refused, batch, channelVars, clientVars, verbs>>

FixQueue(w) ==
  /\ writer[w].at = "fixTouch"
  /\ Touch(Head(writer[w].todo))
  /\ writer' = [writer EXCEPT ![w].at = "fixTell"]
  /\ UNCHANGED <<world, tickVars, channelVars, clientVars, verbs>>

FixTell(w) ==
  /\ writer[w].at = "fixTell"
  /\ Announce(Head(writer[w].todo), writer[w].next)
  /\ writer' = [writer EXCEPT ![w] = SideDone(@)]
  /\ UNCHANGED <<worldVars, tickVars, clientVars, verbs>>

\* The announcement of the verb itself.
Tell(w) ==
  /\ writer[w].at = "tell"
  /\ Announce(writer[w].cell, writer[w].state)
  /\ writer' = [writer EXCEPT ![w] = Idle]
  /\ UNCHANGED <<worldVars, tickVars, clientVars, verbs>>

(***************************************************************************)
(* The tick thread.  What it does about a cell is a verb, of a writer.     *)
(***************************************************************************)
TakeUpdates ==
  /\ batch = <<>> /\ waiting # <<>>
  /\ LET n == IF Len(waiting) < PerTick THEN Len(waiting) ELSE PerTick
     IN  /\ batch' = SubSeq(waiting, 1, n)
         /\ waiting' = SubSeq(waiting, n + 1, Len(waiting))
  /\ UNCHANGED <<world, refused, unseen, writer, channelVars, clientVars, verbs>>

Examine ==
  /\ batch # <<>>
  /\ batch' = Tail(batch)
  /\ unseen' = unseen \ {Head(batch)}
  /\ UNCHANGED <<worldVars, writer, channelVars, clientVars, verbs>>

(***************************************************************************)
(* A session, one task.                                                    *)
(***************************************************************************)
\* A column goes out: recorded, read and sent.
SendColumn(s, c) ==
  /\ c \notin holds[s]
  /\ holds' = [holds EXCEPT ![s] = @ \cup {c}]
  /\ client' = [client EXCEPT ![s][c] = world[c]]
  /\ UNCHANGED <<worldVars, tickVars, writer, channelVars, verbs>>

\* A column the player walked away from.
ForgetColumn(s, c) ==
  /\ c \in holds[s]
  /\ holds' = [holds EXCEPT ![s] = @ \ {c}]
  /\ client' = [client EXCEPT ![s][c] = None]
  /\ UNCHANGED <<worldVars, tickVars, writer, channelVars, verbs>>

\* An edit arrives, and is passed on if the client holds the column.
Receive(s) ==
  /\ ~lagged[s] /\ inbox[s] # <<>>
  /\ LET edit == Head(inbox[s])
     IN  client' = IF edit.cell \in holds[s]
                   THEN [client EXCEPT ![s][edit.cell] = edit.state] ELSE client
  /\ inbox' = [inbox EXCEPT ![s] = Tail(@)]
  /\ UNCHANGED <<worldVars, tickVars, writer, lagged, holds, verbs>>

\* A slip: a session that missed edits carries on from the next one.
ResendCarryingOn(s) ==
  /\ lagged[s]
  /\ lagged' = [lagged EXCEPT ![s] = FALSE]
  /\ UNCHANGED <<worldVars, tickVars, writer, inbox, clientVars, verbs>>

\* RecvError::Lagged: the record is dropped, so that every column is sent again.
Resend(s) ==
  /\ lagged[s]
  /\ lagged' = [lagged EXCEPT ![s] = FALSE]
  /\ holds' = [holds EXCEPT ![s] = {}]
  /\ UNCHANGED <<worldVars, tickVars, writer, inbox, client, verbs>>

-----------------------------------------------------------------------------
CallBegins(w) ==
  \E c \in Cells :
    \/ \E state \in {"air", "stone"} : SetBlock(w, c, state)
    \/ BreakBlock(w, c)
    \/ \E state \in {"stone", "fence"} : PlaceBlock(w, c, state)

CallGoesOn(w) ==
  \/ ShapePlaced(w) \/ Write(w) \/ QueueUpdates(w) \/ Reshape(w) \/ ReadAround(w)
  \/ FixWrite(w) \/ FixQueue(w) \/ FixTell(w) \/ Tell(w)

SessionStep(s) ==
  \/ \E c \in Cells : SendColumn(s, c) \/ ForgetColumn(s, c)
  \/ Receive(s) \/ Resend(s)

EditStep ==
  \/ \E w \in Writers : CallBegins(w) \/ CallGoesOn(w)
  \/ TakeUpdates \/ Examine
  \/ \E s \in Listeners : SessionStep(s)

\* The history goes along, and decides nothing.
EditNext == EditStep /\ raced' = raced \cup Contested'

EditSpec == Init /\ [][EditNext]_editVars

\* A call that was begun goes on; the tick comes round; a session's loop comes
\* back to the edit channel.  What a player walks into is nobody's promise.
LiveEditSpec ==
  /\ EditSpec
  /\ \A w \in Writers : WF_codeVars(CallGoesOn(w))
  /\ WF_codeVars(TakeUpdates \/ Examine)
  /\ \A s \in Listeners : WF_codeVars(Receive(s) \/ Resend(s))

-----------------------------------------------------------------------------
EditsTypeOK ==
  /\ world \in [Cells -> States]
  /\ waiting \in Seq(Cells) /\ Len(waiting) <= MaxPending
  /\ refused \subseteq Cells
  /\ batch \in Seq(Cells) /\ Len(batch) <= PerTick
  /\ unseen \subseteq Cells
  /\ writer \in [Writers -> Call \cup {Idle}]
  /\ inbox \in [Listeners -> Seq([cell : Cells, state : States])]
  /\ \A s \in Listeners : Len(inbox[s]) <= Backlog
  /\ lagged \in [Listeners -> BOOLEAN]
  /\ holds \in [Listeners -> SUBSET Cells]
  /\ client \in [Listeners -> [Cells -> States \cup {None}]]
  /\ verbs \in 0..MaxVerbs
  /\ raced \subseteq Cells

Quiet == \A w \in Writers : writer[w] = Idle

\* Everybody who has heard all there is shows these cells as the world has them.
Shown(cells) ==
  Quiet => \A s \in Listeners :
    (inbox[s] = <<>> /\ ~lagged[s]) =>
      \A c \in holds[s] \cap cells : client[s][c] = world[c]

\* When nobody is in the middle of a change and a session has heard all there
\* is to hear, its client shows the world in every column it holds, whatever
\* threads wrote at the same time -- but for a cell that two of them were at
\* together (edits.rs, subscribe; session.rs, Lagged).
EverybodySees == Shown(Cells \ raced)

\* And in those cells too: "a missed one is a wrong world" (edits.rs,
\* subscribe), and of two players at one block "the world ends in the right
\* state either way" (edits.rs, break_block).
RacesAreSeen == Shown(Cells)

\* A cell that was written, or one beside it, since the tick looked there is in
\* the queue or the batch, or about to be, unless the queue was full: the write
\* comes before the note of it, so no look can fall between (edits.rs,
\* set_block_quietly).
NoUpdateLost ==
  \A c \in unseen :
    \/ c \in ToSet(waiting) \cup ToSet(batch) \cup refused
    \/ \E w \in Writers :
         \/ writer[w].at = "touch" /\ c \in Around(writer[w].cell)
         \/ writer[w].at = "fixTouch" /\ c \in Around(Head(writer[w].todo))

\* Once the calls are over every client comes to show the world and goes on
\* showing it, however slow its session was, where no two threads met.
EverybodyEndsUpSeeing ==
  <>[](\A s \in Listeners : \A c \in holds[s] \ raced : client[s][c] = world[c])

\* A fix that changes one of these cells finds a block with arms there and
\* leaves one.
FixesFences(cells) ==
  \A w \in Writers : \A c \in cells :
    (writer[w].at = "fix" /\ writer'[w].at = "fixTouch" /\ world'[c] # world[c])
      => ReadsNeighbours(world[c]) /\ ReadsNeighbours(world'[c])

\* Growing an arm replaces a block by the same block in another shape, in every
\* cell no two threads are at together: whatever others write beside it, stale
\* as the look around it may be (edits.rs, reshape).
ReshapeKeepsTheBlock == [][FixesFences(Cells \ raced)]_editVars

\* And in every other: "a fence growing an arm is not a placement" (edits.rs,
\* reshape), so it never takes the place of a block somebody put there.
ReshapeIsNoPlacement == [][FixesFences(Cells)]_editVars
=============================================================================
