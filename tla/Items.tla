------------------------------- MODULE Items -------------------------------
(***************************************************************************)
(* Items lying on the ground (net/items.rs): one list behind one lock, the *)
(* ticker that ages, moves and merges it, the channel its changes are      *)
(* announced on, and the sessions that join, relay, walk and pick up       *)
(* (net/session.rs).  One step is one acquisition of the list's lock, or   *)
(* one turn of a session's loop.                                           *)
(*                                                                         *)
(* Places are columns on a line, and a distance is a difference: which     *)
(* item falls where is chosen, who is near enough for what is not.         *)
(***************************************************************************)
EXTENDS Integers, FiniteSets, Sequences

CONSTANTS
  Sessions, Kinds,
  Places,        \* the columns of the world
  Ids,           \* entity ids: reused here once nobody knows them
  MaxStack,      \* Item::max_stack_size
  Slots,         \* the slots of an inventory that a pickup may fill
  TickRadius, PickupReach, MergeReach, ViewReach,
  Lifetime,      \* LIFETIME_TICKS
  PickupDelay,   \* PICKUP_DELAY_TICKS
  MaxEntities,   \* MAX_ENTITIES
  Backlog,       \* ITEM_BACKLOG
  Floor,         \* those an item can fall or lie in
  Cells,         \* those with blocks to break
  Rolls,         \* the counts a block's loot may come to
  MaxMade        \* a bound of the model: how many of a kind blocks ever drop

Within(a, b, reach) == a - b \in -reach..reach

ASSUME ItemsAssumption ==
  /\ IsFiniteSet(Sessions) /\ IsFiniteSet(Kinds)
  /\ Places \subseteq Int /\ Places # {} /\ IsFiniteSet(Places)
  /\ Ids \subseteq Nat /\ IsFiniteSet(Ids)
  /\ {TickRadius, PickupReach, MergeReach, ViewReach, PickupDelay, Slots} \subseteq Nat
  /\ Floor \subseteq Places /\ Cells \subseteq Floor
  /\ \A p \in Places : \A q \in Floor : Within(p, q, PickupReach) => p \in Floor
  /\ Rolls \subseteq 1..MaxStack
  /\ {MaxStack, Lifetime, MaxEntities, Backlog, MaxMade} \subseteq Nat \ {0}

VARIABLES
  ground,    \* ItemWorld::entities
  inbox,     \* inbox[s]: what s's receiver has not taken yet
  lagged,    \* lagged[s]: its next recv says Lagged; "was": one has said so
  session,   \* session[s]: where its task is, and what its client shows
  pocket,    \* pocket[s][k]: how many k its recorded inventory has
  ticker,    \* where ItemTicker::tick is, the positions it read, its claim
  made, lost \* not in the code: how many of each kind came and went

itemVars ==
  <<ground, inbox, lagged, session, pocket, ticker, made, lost>>

\* `to` is the column of (x + vx, z + vz), where the next tick looks.
Entity == [ id : Ids, item : Kinds, count : 1..MaxStack, place : Floor, to : Floor,
            age : 0..Lifetime - 1, delay : 0..PickupDelay, settled : BOOLEAN ]

\* enter: subscribed, and not yet told what is lying there.
\* `hand` is `collected`, claimed and not yet put away.  `whole` is not in the
\* code: since it subscribed the session has held every column an item can be in.
Session == [ at : {"out", "enter", "in"}, place : Places,
             shown : SUBSET Ids, hand : Seq([item : Kinds, count : 1..MaxStack]),
             whole : BOOLEAN ]

Out == [at |-> "out", place |-> CHOOSE p \in Places : TRUE, shown |-> {},
        hand |-> <<>>, whole |-> FALSE]

Present == {s \in Sessions : session[s].at # "out"}
OnGround(list) == {list[i].id : i \in DOMAIN list}

\* What is at the places I of a list, in the order of the list.
Chosen(list, I) ==
  [n \in 1..Cardinality(I) |->
     list[CHOOSE i \in I : Cardinality({j \in I : j <= i}) = n]]

\* The sum of a function to Nat: as many as there are pairs of an argument and
\* one of the numbers up to what it is sent to.
Total(f) == Cardinality(UNION {{x} \X (1..f[x]) : x \in DOMAIN f})

\* How many k a list of stacks holds.
InList(list, k) ==
  Total([i \in DOMAIN list |-> IF list[i].item = k THEN list[i].count ELSE 0])

-----------------------------------------------------------------------------
(***************************************************************************)
(* The channel: a receiver that is Backlog behind loses the oldest.        *)
(***************************************************************************)
Spawned(e) == [is |-> "spawned", id |-> e.id, place |-> e.place]
Settled(e) == [is |-> "settled", id |-> e.id, place |-> e.place]
Gone(e)    == [is |-> "gone",    id |-> e.id, place |-> e.place]

Change == [is : {"spawned", "settled", "gone"}, id : Ids, place : Floor]

Announce(changes) ==
  LET all(s) == inbox[s] \o changes
  IN  /\ inbox' = [s \in Sessions |->
           IF s \in Present
           THEN SubSeq(all(s), 1 + (IF Len(all(s)) > Backlog THEN Len(all(s)) - Backlog
                                    ELSE 0), Len(all(s)))
           ELSE <<>>]
      /\ lagged' = [s \in Sessions |->
           IF s \in Present /\ Len(all(s)) > Backlog THEN "yes" ELSE lagged[s]]

\* What a client shows once it is told of a change.
Told(shown, change) ==
  CASE change.is = "spawned" -> shown \cup {change.id}
    [] change.is = "gone"    -> shown \ {change.id}
    [] change.is = "settled" -> shown

-----------------------------------------------------------------------------
(***************************************************************************)
(* ItemWorld::pop: a new entity at the end of the list, and the first of   *)
(* the list gone if it was full.                                           *)
(***************************************************************************)
Known == OnGround(ground)
           \cup UNION {session[s].shown : s \in Sessions}
           \cup UNION {{inbox[s][i].id : i \in DOMAIN inbox[s]} : s \in Sessions}

Popped(kind, n, p, to) ==
  [ id |-> CHOOSE id \in Ids \ Known : TRUE, item |-> kind, count |-> n, place |-> p, to |-> to,
    age |-> 0, delay |-> PickupDelay, settled |-> FALSE ]

Beside(p) == {q \in Floor : Within(p, q, 1)}

Spilled(e) == [lost EXCEPT ![e.item] = @ + e.count]

\* A slip: the ceiling refuses the newest instead, after announcing it.
PopRefusing(kind, n, p) ==
  /\ Ids \ Known # {}
  /\ \E to \in Beside(p) :
       LET new == Popped(kind, n, p, to)
       IN  /\ ground' = IF Len(ground) < MaxEntities THEN Append(ground, new) ELSE ground
           /\ lost' = IF Len(ground) < MaxEntities THEN lost ELSE Spilled(new)
           /\ Announce(<<Spawned(new)>>)

Pop(kind, n, p) ==
  /\ Ids \ Known # {}
  /\ \E to \in Beside(p) :
       LET new  == Popped(kind, n, p, to)
           full == Len(ground) >= MaxEntities
       IN  /\ ground' = Append(IF full THEN Tail(ground) ELSE ground, new)
           /\ lost' = IF full THEN Spilled(Head(ground)) ELSE lost
           /\ Announce((IF full THEN <<Gone(Head(ground))>> ELSE <<>>)
                         \o <<Spawned(new)>>)

\* A block breaks, at a player's hands or the world's, and drops something.
Drop(kind, n, p) ==
  /\ made[kind] + n <= MaxMade
  /\ made' = [made EXCEPT ![kind] = @ + n]
  /\ Pop(kind, n, p)
  /\ UNCHANGED <<session, pocket, ticker>>

-----------------------------------------------------------------------------
(***************************************************************************)
(* Sessions.                                                               *)
(***************************************************************************)
\* The columns a session at p holds, once its stream has caught up (StreamView).
Square(p) == {q \in Places : Within(p, q, ViewReach)}

Covers(p) == Floor \subseteq Square(p)

\* play_loop subscribes.
Join(s) ==
  /\ session[s].at = "out"
  /\ \E p \in Places :
       session' = [session EXCEPT ![s] =
         [Out EXCEPT !.at = "enter", !.place = p, !.whole = Covers(p)]]
  /\ UNCHANGED <<ground, inbox, lagged, pocket, ticker, made, lost>>

\* ItemWorld::visible_from, for a session that has just joined.
Enter(s) ==
  /\ session[s].at = "enter"
  /\ LET seen == {i \in DOMAIN ground : ground[i].place \in Square(session[s].place)}
     IN  session' = [session EXCEPT ![s].at = "in",
                                    ![s].shown = {ground[i].id : i \in seen}]
  /\ UNCHANGED <<ground, inbox, lagged, pocket, ticker, made, lost>>

Idle(s) == session[s].at = "in" /\ session[s].hand = <<>>

\* `moved`, and the passes of the chunk stream.
Walk(s) ==
  /\ Idle(s)
  /\ \E p \in Places :
       session' = [session EXCEPT ![s].place = p, ![s].whole = @ /\ Covers(p)]
  /\ UNCHANGED <<ground, inbox, lagged, pocket, ticker, made, lost>>

\* The arm of item_changes.  After Lagged, the channel goes on from the middle.
Receive(s) ==
  /\ Idle(s)
  /\ IF lagged[s] = "yes"
     THEN /\ lagged' = [lagged EXCEPT ![s] = "was"]
          /\ UNCHANGED <<inbox, session>>
     ELSE /\ inbox[s] # <<>>
          /\ inbox' = [inbox EXCEPT ![s] = Tail(@)]
          /\ session' = [session EXCEPT ![s].shown =
               IF Head(inbox[s]).place \in Square(session[s].place)
               THEN Told(@, Head(inbox[s])) ELSE @]
          /\ UNCHANGED lagged
  /\ UNCHANGED <<ground, pocket, ticker, made, lost>>

Takes(s, e) == e.delay = 0 /\ Within(e.place, session[s].place, PickupReach)

\* ItemWorld::claim_near.
ClaimNear(s) ==
  /\ Idle(s)
  /\ LET near  == {i \in DOMAIN ground : Takes(s, ground[i])}
         taken == Chosen(ground, near)
     IN  /\ near # {}
         /\ ground' = Chosen(ground, DOMAIN ground \ near)
         /\ session' = [session EXCEPT ![s].hand =
              [i \in DOMAIN taken |-> [item |-> taken[i].item, count |-> taken[i].count]]]
         /\ Announce([i \in DOMAIN taken |-> Gone(taken[i])])
  /\ UNCHANGED <<pocket, ticker, made, lost>>

\* Inventory::collect fills what is begun and then one empty slot.
SlotsOf(n) == (n + MaxStack - 1) \div MaxStack

Used(s) == Total([k \in Kinds |-> SlotsOf(pocket[s][k])])

Room(s, kind) ==
  SlotsOf(pocket[s][kind]) * MaxStack - pocket[s][kind]
    + IF Used(s) < Slots THEN MaxStack ELSE 0

\* One turn of the loop over `collected`: collected, sent and recorded.
PutAway(s) ==
  /\ session[s].hand # <<>>
  /\ LET got == Head(session[s].hand)
     IN  /\ got.count <= Room(s, got.item)
         /\ pocket' = [pocket EXCEPT ![s][got.item] = @ + got.count]
  /\ session' = [session EXCEPT ![s].hand = Tail(@)]
  /\ UNCHANGED <<ground, inbox, lagged, ticker, made, lost>>

\* A slip: all of the stack goes back on the floor.
PutBackWhole(s) ==
  /\ session[s].hand # <<>>
  /\ LET got == Head(session[s].hand)
     IN  /\ got.count > Room(s, got.item)
         /\ pocket' = [pocket EXCEPT ![s][got.item] = @ + Room(s, got.item)]
         /\ Pop(got.item, got.count, session[s].place)
  /\ session' = [session EXCEPT ![s].hand = Tail(@)]
  /\ UNCHANGED <<ticker, made>>

\* The same, where what does not fit goes back on the floor as a new entity.
PutBack(s) ==
  /\ session[s].hand # <<>>
  /\ LET got  == Head(session[s].hand)
         room == Room(s, got.item)
     IN  /\ got.count > room
         /\ pocket' = [pocket EXCEPT ![s][got.item] = @ + room]
         /\ Pop(got.item, got.count - room, session[s].place)
  /\ session' = [session EXCEPT ![s].hand = Tail(@)]
  /\ UNCHANGED <<ticker, made>>

\* The connection fails or is closed, at whatever await the task is: what was
\* claimed and not recorded is gone.
Leave(s) ==
  /\ session[s].at # "out"
  /\ session' = [session EXCEPT ![s] = Out]
  /\ inbox' = [inbox EXCEPT ![s] = <<>>]
  /\ lagged' = [lagged EXCEPT ![s] = "no"]
  /\ lost' = [k \in Kinds |-> lost[k] + InList(session[s].hand, k)]
  /\ UNCHANGED <<ground, pocket, ticker, made>>

-----------------------------------------------------------------------------
(***************************************************************************)
(* ItemTicker::tick: where everybody is, then the claim, then the items.   *)
(***************************************************************************)
\* Between ticks.  The claim is held until the next tick sets it, and nobody
\* here asks what it is before.
Resting == [at |-> "idle", players |-> {}, claim |-> {}]

NearAny(e, players) == \E p \in players : Within(e.place, p, TickRadius)

Near(players) == {i \in DOMAIN ground : NearAny(ground[i], players)}

\* An empty world is left alone, and so is one nobody is in.
TickLook ==
  /\ ticker.at = "idle"
  /\ ground # <<>>
  /\ Present # {}
  /\ ticker' = [ticker EXCEPT !.at = "claim",
                              !.players = {session[s].place : s \in Present}]
  /\ UNCHANGED <<ground, inbox, lagged, session, pocket, made, lost>>

\* A slip: the columns the items are in.
FootprintWhereItIs(players) ==
  {ground[i].place : i \in {j \in Near(players) : ~ground[j].settled}}

\* footprint_into: the columns the falling items will look into.
Footprint(players) ==
  {ground[i].to : i \in {j \in Near(players) : ~ground[j].settled}}

TickClaim ==
  /\ ticker.at = "claim"
  /\ ticker' = [ticker EXCEPT !.at = "tick", !.claim = Footprint(ticker.players)]
  /\ UNCHANGED <<ground, inbox, lagged, session, pocket, made, lost>>

\* `step`, after the clock: an item that is not at rest moves, and may land.
Older(e) == [e EXCEPT !.age = @ + 1, !.delay = IF @ = 0 THEN 0 ELSE @ - 1]

Ends(e) == e.age + 1 >= Lifetime

Moves(e) ==
  IF e.settled THEN {e}
  ELSE {[e EXCEPT !.place = e.to, !.to = e.to, !.settled = TRUE]}
         \cup {[e EXCEPT !.place = e.to, !.to = q] : q \in Beside(e.to)}

\* The first pass of ItemWorld::tick takes each item near somebody to one of these.
Stepped(e, players) ==
  IF ~NearAny(e, players) THEN {e}
  ELSE IF Ends(e) THEN {Older(e)}
  ELSE Moves(Older(e))

\* A slip: `merged` forgets how high a stack may be.
MergedUncapped(a, b) ==
  a.item = b.item /\ Within(a.place, b.place, MergeReach)

\* `merged`.
Merged(a, b) ==
  /\ a.item = b.item
  /\ a.count + b.count <= MaxStack
  /\ Within(a.place, b.place, MergeReach)

\* One turn of the second pass, over what the turns before left of each stack
\* (nothing, of one that was merged away) and what they announced.  The survivor
\* keeps its clock, and nobody is told its count.
MergeTurn(list, near, acc, i, j) ==
  LET Now(x) == [list[x] EXCEPT !.count = acc.left[x]]
  IN  IF /\ i < j /\ {i, j} \subseteq near
         /\ acc.left[i] > 0 /\ acc.left[j] > 0
         /\ Merged(Now(i), Now(j))
      THEN [ left |-> [acc.left EXCEPT ![i] = acc.left[i] + acc.left[j], ![j] = 0],
             told |-> Append(acc.told, Gone(list[j])) ]
      ELSE acc

\* The second pass: each of the items near somebody with each that comes later
\* in the list.
MergePass(list, near) ==
  LET n == Len(list)
      upTo[t \in 0..n * n] ==
        IF t = 0 THEN [left |-> [i \in DOMAIN list |-> list[i].count], told |-> <<>>]
        ELSE MergeTurn(list, near, upTo[t - 1],
                       1 + ((t - 1) \div n), 1 + ((t - 1) % n))
  IN  upTo[n * n]

\* ItemWorld::tick, once the first pass has made `stepped` of the items.
TickTo(stepped) ==
  LET ended  == {i \in DOMAIN ground : stepped[i].age >= Lifetime}
      landed == {i \in DOMAIN ground : stepped[i].settled /\ ~ground[i].settled}
      first  == Chosen([i \in DOMAIN ground |-> IF i \in ended THEN Gone(ground[i])
                                                ELSE Settled(stepped[i])],
                       ended \cup landed)
      rest   == MergePass(stepped, Near(ticker.players) \ ended)
  IN  /\ ground' = Chosen([i \in DOMAIN ground |-> [stepped[i] EXCEPT !.count = rest.left[i]]],
                          {i \in DOMAIN ground \ ended : rest.left[i] > 0})
      /\ Announce(first \o rest.told)
      /\ lost' = [k \in Kinds |-> lost[k] + InList(Chosen(ground, ended), k)]

TickRun ==
  /\ ticker.at = "tick"
  /\ \E stepped \in [DOMAIN ground -> UNION {Stepped(ground[i], ticker.players) : i \in DOMAIN ground}] :
       /\ \A i \in DOMAIN ground : stepped[i] \in Stepped(ground[i], ticker.players)
       /\ TickTo(stepped)
  /\ ticker' = Resting
  /\ UNCHANGED <<session, pocket, made>>

-----------------------------------------------------------------------------
ItemsInit ==
  /\ ground = <<>>
  /\ inbox = [s \in Sessions |-> <<>>]
  /\ lagged = [s \in Sessions |-> "no"]
  /\ session = [s \in Sessions |-> Out]
  /\ pocket = [s \in Sessions |-> [k \in Kinds |-> 0]]
  /\ ticker = Resting
  /\ made = [k \in Kinds |-> 0] /\ lost = [k \in Kinds |-> 0]

Tick == TickLook \/ TickClaim \/ TickRun

Turn(s) == Join(s) \/ Enter(s) \/ Walk(s) \/ Receive(s) \/ ClaimNear(s)
             \/ PutAway(s) \/ PutBack(s) \/ Leave(s)

ItemsNext ==
  \/ Tick
  \/ \E s \in Sessions : Turn(s)
  \/ \E k \in Kinds : \E n \in Rolls : \E p \in Cells : Drop(k, n, p)

ItemsSpec == ItemsInit /\ [][ItemsNext]_itemVars

-----------------------------------------------------------------------------
ItemsTypeOK ==
  /\ ground \in Seq(Entity) /\ Len(ground) <= MaxEntities
  /\ \A i, j \in DOMAIN ground : ground[i].id = ground[j].id => i = j
  /\ session \in [Sessions -> Session]
  /\ inbox \in [Sessions -> Seq(Change)]
  /\ lagged \in [Sessions -> {"no", "yes", "was"}]
  /\ pocket \in [Sessions -> [Kinds -> Nat]]
  /\ \A s \in Sessions : Len(inbox[s]) <= Backlog /\ Used(s) <= Slots
  /\ ticker \in [at : {"idle", "claim", "tick"}, players : SUBSET Places,
                 claim : SUBSET Places]
  /\ {made, lost} \subseteq [Kinds -> Nat]

\* How many k there are: on the ground, in hands and in inventories.
InWorld(k) ==
  InList(ground, k)
    + Total([s \in Sessions |-> pocket[s][k] + InList(session[s].hand, k)])

\* Items are neither made nor lost but where the code says so: what blocks
\* dropped is on the ground, claimed or in an inventory, unless it aged out,
\* was over the ceiling, or was in the hand of a session that ended.  Merging,
\* claiming and giving back what does not fit change none of it.
EveryItemIsSomewhere == \A k \in Kinds : made[k] = InWorld(k) + lost[k]

\* What a client that shows some entities will show, once it has been told of
\* some changes: what it shows or is told of, and not told the end of since.
WillShow(shown, changes) ==
  LET Ended(id, i) == \E j \in DOMAIN changes :
                       j > i /\ changes[j].is = "gone" /\ changes[j].id = id
  IN  {id \in shown : ~Ended(id, 0)}
        \cup {changes[i].id : i \in {j \in DOMAIN changes :
                changes[j].is = "spawned" /\ ~Ended(changes[j].id, j)}}

\* "Better sent twice than not at all" (session.rs, at the subscription): once
\* a client that missed nothing has been told what waits for it, it shows
\* exactly the items on the ground, however its join and its pickups interleave
\* with drops, ticks and merges.
ClientShowsTheGround ==
  \A s \in Sessions :
    session[s].at = "in" /\ session[s].whole /\ lagged[s] = "no"
      => WillShow(session[s].shown, inbox[s]) = OnGround(ground)

\* The column an item falls into is claimed before the tick that looks there
\* ("where it will be, not where it is", items.rs), whatever sessions drop, take
\* or do between the claim and the tick.  An item that is new may not be.
FallingIsClaimed ==
  ticker.at = "tick" =>
    \A i \in DOMAIN ground :
      ~ground[i].settled /\ NearAny(ground[i], ticker.players) /\ ground[i].age > 0
        => ground[i].to \in ticker.claim

=============================================================================
