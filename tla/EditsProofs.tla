----------------------------- MODULE EditsProofs -----------------------------
(***************************************************************************)
(* For any number of cells, threads and sessions and any limits: the tick  *)
(* misses no cell that changed; and clients come to see the world, and a   *)
(* reshape changes no block for another, in every cell that no two threads *)
(* were at together.                                                       *)
(***************************************************************************)
EXTENDS Edits, SequenceTheorems, WellFoundedInduction, TLAPS

\* The order of the numbers, as a set of pairs.
Before == {p \in Nat \X Nat : p[1] < p[2]}

LEMMA BeforeWellFounded == IsWellFoundedOn(Before, Nat)
BY NatLessThanWellFounded DEF Before, OpToRel

LEMMA BeforeIsLess ==
  ASSUME NEW m \in Nat, NEW n \in Nat
  PROVE  <<m, n>> \in Before <=> m < n
BY DEF Before

\* Induction over numbers, as a statement about sets: a set of numbers that is
\* not empty has a least one.
LEMMA LeastNumber ==
  ASSUME NEW T, T \subseteq Nat, T # {}
  PROVE  \E n \in T : \A m \in T : n <= m
<1>1. PICK n \in T : \A m \in T : <<m, n>> \notin Before
  BY BeforeWellFounded, WFMin
<1>2. ASSUME NEW m \in T PROVE n <= m
  <2>1. m \in Nat /\ n \in Nat /\ <<m, n>> \notin Before
    BY <1>1
  <2> QED BY <2>1, BeforeIsLess
<1> QED BY <1>2

\* What a sequence holds, after the operations the queue goes through.
LEMMA Members ==
  ASSUME NEW S, NEW q \in Seq(S)
  PROVE  /\ ToSet(q) \subseteq S
         /\ \A x \in S : ToSet(Append(q, x)) = ToSet(q) \cup {x}
         /\ q # <<>> => Head(q) \in ToSet(q) /\ ToSet(q) = {Head(q)} \cup ToSet(Tail(q))
<1>1. ToSet(q) \subseteq S
  BY ElementOfSeq DEF ToSet
<1>2. ASSUME NEW x \in S PROVE ToSet(Append(q, x)) = ToSet(q) \cup {x}
  BY AppendProperties DEF ToSet
<1>3. ASSUME q # <<>> PROVE Head(q) \in ToSet(q) /\ ToSet(q) = {Head(q)} \cup ToSet(Tail(q))
  <2>1. /\ Len(q) \in Nat \ {0} /\ DOMAIN q = 1..Len(q) /\ Head(q) = q[1]
        /\ Len(Tail(q)) = Len(q) - 1 /\ DOMAIN Tail(q) = 1..Len(Tail(q))
        /\ \A i \in 1..Len(q) - 1 : Tail(q)[i] = q[i + 1]
    BY <1>3, HeadTailProperties, LenProperties, EmptySeq
  <2>2. ASSUME NEW x \in ToSet(q), x # Head(q) PROVE x \in ToSet(Tail(q))
    <3>1. PICK i \in 1..Len(q) : x = q[i]
      BY <2>1, <2>2 DEF ToSet
    <3>2. i # 1 /\ i - 1 \in 1..Len(q) - 1 /\ Tail(q)[i - 1] = q[i]
      BY <2>1, <2>2, <3>1
    <3> QED BY <2>1, <3>1, <3>2 DEF ToSet
  <2>3. Head(q) \in ToSet(q)
    BY <2>1 DEF ToSet
  <2>4. ASSUME NEW x \in ToSet(Tail(q)) PROVE x \in ToSet(q)
    BY <2>1, <2>4 DEF ToSet
  <2> QED BY <2>2, <2>3, <2>4
<1> QED BY <1>1, <1>2, <1>3

-----------------------------------------------------------------------------
(***************************************************************************)
(* The loop of Pending::touch.                                             *)
(***************************************************************************)
Turns(g, q, cells, n) ==
  g = [i \in 0..n |-> IF i = 0 THEN q ELSE Push(g[i - 1], cells[i])]

\* The first so many turns of the loop are a function.
LEMMA LoopTurns ==
  ASSUME NEW q, NEW cells, NEW n \in Nat
  PROVE  \E g : Turns(g, q, cells, n)
<1> DEFINE T == {m \in Nat : \A g : ~Turns(g, q, cells, m)}
<1>0. T \subseteq Nat /\ \A m \in Nat : m \in T \/ \E g : Turns(g, q, cells, m)
  OBVIOUS
<1>1. ASSUME T # {} PROVE FALSE
  <2>1. PICK m \in T : \A k \in T : m <= k
    <3> HIDE DEF T
    <3> QED BY <1>0, <1>1, LeastNumber
  <2>2. m # 0
    <3>1. Turns([i \in 0..0 |-> q], q, cells, 0)
      BY DEF Turns
    <3> QED BY <3>1
  <2>3. m \in Nat /\ m - 1 \in Nat /\ m - 1 \notin T
    <3> HIDE DEF T
    <3> QED BY <1>0, <2>1, <2>2
  <2>4. PICK g : Turns(g, q, cells, m - 1)
    BY <2>3
  <2> DEFINE h == [i \in 0..m |-> IF i < m THEN g[i] ELSE Push(g[m - 1], cells[m])]
  <2>5. \A i \in 0..m : h[i] = IF i = 0 THEN q ELSE Push(h[i - 1], cells[i])
    <3> SUFFICES ASSUME NEW i \in 0..m PROVE h[i] = IF i = 0 THEN q ELSE Push(h[i - 1], cells[i])
      OBVIOUS
    <3>1. CASE i < m
      <4>1. i \in 0..m - 1 /\ h[i] = g[i] /\ (i # 0 => i - 1 \in 0..m /\ i - 1 < m)
        BY <3>1, <2>2
      <4>2. i # 0 => h[i - 1] = g[i - 1]
        BY <4>1
      <4>3. g[i] = IF i = 0 THEN q ELSE Push(g[i - 1], cells[i])
        BY <4>1, <2>4 DEF Turns
      <4> QED BY <4>1, <4>2, <4>3
    <3>2. CASE i = m
      <4>1. h[i] = Push(g[m - 1], cells[m]) /\ h[m - 1] = g[m - 1] /\ i # 0
        BY <3>2, <2>2
      <4> QED BY <3>2, <4>1
    <3> QED BY <3>1, <3>2
  <2>6. Turns(h, q, cells, m)
    BY <2>5 DEF Turns
  <2> QED BY <2>1, <2>6
<1>2. n \notin T
  BY <1>1
<1> HIDE DEF T
<1> QED BY <1>0, <1>2

\* What the loop leaves: a queue that holds what it held, and grows while there
\* is room.
LEMMA LoopGrows ==
  ASSUME NEW q \in Seq(Cells), Len(q) <= MaxPending, NEW cells \in Seq(Cells),
         NEW n \in 0..Len(cells), NEW g, Turns(g, q, cells, n)
  PROVE  /\ g[n] \in Seq(Cells) /\ Len(g[n]) <= MaxPending
         /\ ToSet(q) \subseteq ToSet(g[n])
<1> DEFINE Good(m) == /\ g[m] \in Seq(Cells) /\ Len(g[m]) <= MaxPending
                      /\ ToSet(q) \subseteq ToSet(g[m])
           T == {m \in 0..n : ~Good(m)}
<1>1. ASSUME T # {} PROVE FALSE
  <2>1. PICK m \in T : \A k \in T : m <= k
    <3>1. T \subseteq Nat
      OBVIOUS
    <3> HIDE DEF T
    <3> QED BY <1>1, <3>1, LeastNumber
  <2>2. m # 0 /\ m \in 0..n /\ Len(cells) \in Nat
    BY <2>1, LenProperties DEF Turns
  <2>3. m - 1 \in 0..n /\ Good(m - 1)
    <3>1. m - 1 \in 0..n /\ m - 1 \notin T
      <4> HIDE DEF T
      <4> QED BY <2>1, <2>2
    <3> QED BY <3>1
  <2>4. g[m] = Push(g[m - 1], cells[m]) /\ cells[m] \in Cells
    BY <2>2, ElementOfSeq DEF Turns
  <2>5. CASE g[m] = g[m - 1]
    BY <2>5, <2>3, <2>1
  <2>6. CASE g[m] = Append(g[m - 1], cells[m]) /\ Len(g[m - 1]) < MaxPending
    <3>1. g[m] \in Seq(Cells) /\ Len(g[m]) = Len(g[m - 1]) + 1
      BY <2>3, <2>4, <2>6, AppendProperties
    <3>2. ToSet(g[m]) = ToSet(g[m - 1]) \cup {cells[m]}
      BY <2>3, <2>4, <2>6, Members
    <3>3. Len(g[m]) <= MaxPending
      BY <2>3, <2>6, <3>1, EditsAssumption, LenProperties
    <3>4. Good(m)
      BY <2>3, <3>1, <3>2, <3>3
    <3> QED BY <2>1, <3>4
  <2>7. Len(g[m - 1]) \in Nat
    BY <2>3, LenProperties
  <2> QED BY <2>4, <2>5, <2>6, <2>7, EditsAssumption DEF Push
<1>2. n \in 0..n
  OBVIOUS
<1> QED BY <1>1, <1>2

LEMMA BesideTyped ==
  ASSUME NEW c \in Cells
  PROVE  /\ Beside[c] \in Seq(Cells) /\ ToSet(Beside[c]) \subseteq Cells
         /\ \A d \in ToSet(Beside[c]) : c # d /\ c \in ToSet(Beside[d])
         /\ Around(c) \subseteq Cells
<1>1. Beside[c] \in Seq(Cells)
  BY EditsAssumption
<1>2. ToSet(Beside[c]) \subseteq Cells
  BY <1>1, Members
<1> QED BY <1>1, <1>2, EditsAssumption DEF Around

\* Being around is mutual.
LEMMA AroundIsMutual ==
  ASSUME NEW c \in Cells, NEW d \in Around(c)
  PROVE  d \in Cells /\ c \in Around(d)
BY BesideTyped DEF Around

\* Touching a cell: it and what is around it is in the queue, or was refused,
\* and nothing that waited is forgotten.
LEMMA TouchFacts ==
  ASSUME NEW c \in Cells, waiting \in Seq(Cells), Len(waiting) <= MaxPending,
         refused \subseteq Cells, Touch(c)
  PROVE  /\ waiting' \in Seq(Cells) /\ Len(waiting') <= MaxPending /\ refused' \subseteq Cells
         /\ ToSet(waiting) \subseteq ToSet(waiting') /\ refused \subseteq refused'
         /\ Around(c) \subseteq ToSet(waiting') \cup refused'
<1> DEFINE cells == <<c>> \o Beside[c]
           g == CHOOSE f : Turns(f, waiting, cells, Len(cells))
<1>1. cells \in Seq(Cells) /\ Len(cells) \in Nat /\ DOMAIN cells = 1..Len(cells)
  BY BesideTyped, ConcatProperties, LenProperties
<1>2. waiting' = g[Len(cells)]
  BY DEF Touch, Turns
<1>3. refused' = refused \cup {d \in ToSet(cells) : d \notin ToSet(waiting')}
  BY DEF Touch
<1>4. Turns(g, waiting, cells, Len(cells))
  BY <1>1, LoopTurns
<1>5. /\ waiting' \in Seq(Cells) /\ Len(waiting') <= MaxPending
      /\ ToSet(waiting) \subseteq ToSet(waiting')
  <2>1. Len(cells) \in 0..Len(cells)
    BY <1>1
  <2> HIDE DEF g, cells
  <2> QED BY <1>1, <1>2, <1>4, <2>1, LoopGrows
<1>6. Around(c) \subseteq ToSet(cells) /\ ToSet(cells) \subseteq Cells
  <2>1. ToSet(cells) \subseteq Cells
    BY <1>1, Members
  <2>2. Len(cells) = 1 + Len(Beside[c]) /\ cells[1] = c
        /\ \A i \in 1..Len(Beside[c]) : cells[i + 1] = Beside[c][i]
    <3>1. <<c>> \in Seq(Cells) /\ Len(<<c>>) = 1 /\ <<c>>[1] = c
      OBVIOUS
    <3>2. Len(Beside[c]) \in Nat
      BY BesideTyped, LenProperties
    <3> HIDE DEF cells
    <3>3. /\ Len(cells) = Len(<<c>>) + Len(Beside[c])
          /\ \A i \in 1..Len(<<c>>) + Len(Beside[c]) :
               cells[i] = IF i <= Len(<<c>>) THEN <<c>>[i] ELSE Beside[c][i - Len(<<c>>)]
      BY <3>1, BesideTyped, ConcatProperties DEF cells
    <3> QED BY <3>1, <3>2, <3>3
  <2>3. DOMAIN Beside[c] = 1..Len(Beside[c]) /\ Len(Beside[c]) \in Nat
    BY BesideTyped, LenProperties
  <2>4. c \in ToSet(cells)
    BY <1>1, <2>2, <2>3 DEF ToSet
  <2>5. ASSUME NEW d \in ToSet(Beside[c]) PROVE d \in ToSet(cells)
    <3>1. PICK i \in 1..Len(Beside[c]) : d = Beside[c][i]
      BY <2>3 DEF ToSet
    <3>2. i + 1 \in DOMAIN cells /\ cells[i + 1] = d
      BY <1>1, <2>2, <2>3, <3>1
    <3> QED BY <3>2 DEF ToSet
  <2> QED BY <2>1, <2>4, <2>5 DEF Around
<1> QED BY <1>3, <1>5, <1>6

-----------------------------------------------------------------------------
(***************************************************************************)
(* What a call knows: a side it is at is one of those it has still to do,  *)
(* and those are beside the cell it changes.                               *)
(***************************************************************************)
CallInv ==
  \A w \in Writers : writer[w] # Idle =>
    /\ ToSet(writer[w].todo) \subseteq ToSet(Beside[writer[w].cell])
    /\ writer[w].at \in AtASide => writer[w].todo # <<>>

LEMMA IdleIsNoCall == Idle \notin Call /\ Idle.at = "idle"
BY DEF Idle, Call

\* The parts of a call under way.
LEMMA CallTyped ==
  ASSUME EditsTypeOK, CallInv, NEW w \in Writers, writer[w].at # "idle"
  PROVE  /\ writer[w] \in Call /\ writer[w] # Idle
         /\ writer[w].cell \in Cells /\ writer[w].state \in States
         /\ writer[w].previous \in States /\ writer[w].next \in States
         /\ writer[w].todo \in Seq(Cells)
         /\ ToSet(writer[w].todo) \subseteq ToSet(Beside[writer[w].cell])
         /\ writer[w].todo # <<>> =>
              /\ Head(writer[w].todo) \in Cells
              /\ Head(writer[w].todo) \in ToSet(Beside[writer[w].cell])
              /\ Tail(writer[w].todo) \in Seq(Cells)
              /\ ToSet(Tail(writer[w].todo)) \subseteq ToSet(Beside[writer[w].cell])
<1>1. writer[w] \in Call /\ writer[w] # Idle
  BY DEF EditsTypeOK, Idle
<1>2. /\ writer[w].cell \in Cells /\ writer[w].state \in States
      /\ writer[w].previous \in States /\ writer[w].next \in States
      /\ writer[w].todo \in Seq(Cells)
  BY <1>1 DEF Call
<1>3. ToSet(writer[w].todo) \subseteq ToSet(Beside[writer[w].cell])
  BY <1>1 DEF CallInv
<1>4. ASSUME writer[w].todo # <<>>
      PROVE  /\ Head(writer[w].todo) \in ToSet(writer[w].todo)
             /\ ToSet(Tail(writer[w].todo)) \subseteq ToSet(writer[w].todo)
             /\ Tail(writer[w].todo) \in Seq(Cells)
  BY <1>2, <1>4, Members, HeadTailProperties
<1>5. ToSet(writer[w].todo) \subseteq Cells
  BY <1>2, Members
<1> QED BY <1>1, <1>2, <1>3, <1>4, <1>5

\* One call moves on and keeps to its sides; nothing else of the calls changes.
Moves(w) ==
  /\ writer' = [writer EXCEPT ![w] = writer'[w]]
  /\ writer'[w] # Idle =>
       /\ writer'[w] \in Call
       /\ ToSet(writer'[w].todo) \subseteq ToSet(Beside[writer'[w].cell])
       /\ writer'[w].at \in AtASide => writer'[w].todo # <<>>

LEMMA MovesKeeps ==
  ASSUME EditsTypeOK, CallInv, NEW w \in Writers, Moves(w)
  PROVE  writer' \in [Writers -> Call \cup {Idle}] /\ CallInv'
<1>1. writer'[w] \in Call \cup {Idle}
  BY DEF Moves
<1>2. writer' \in [Writers -> Call \cup {Idle}]
  BY <1>1 DEF Moves, EditsTypeOK
<1>3. ASSUME NEW v \in Writers, v # w PROVE writer'[v] = writer[v]
  BY <1>3 DEF Moves, EditsTypeOK
<1>4. CallInv'
  BY <1>3 DEF Moves, CallInv
<1> QED BY <1>2, <1>4

LEMMA StatesShaped ==
  ASSUME NEW c, NEW state \in States
  PROVE  Shaped(c, state) \in States
BY DEF Shaped, States

\* Every step of a call moves that call and no other.
LEMMA CallMoves ==
  ASSUME EditsTypeOK, CallInv, NEW w \in Writers, CallBegins(w) \/ CallGoesOn(w)
  PROVE  Moves(w)
<1> USE DEF AtASide
<1>0. writer \in [Writers -> Call \cup {Idle}] /\ world \in [Cells -> States] /\ w \in DOMAIN writer
  BY DEF EditsTypeOK
<1>1. ASSUME NEW at \in {"shape", "write"}, NEW verb \in {"set", "break", "place"},
             NEW c \in Cells, NEW state \in States, Begin(w, at, verb, c, state)
      PROVE  Moves(w)
  <2>1. <<>> \in Seq(Cells) /\ ToSet(<<>>) = {}
    BY DEF ToSet
  <2>2. writer'[w] = [ at |-> at, verb |-> verb, cell |-> c, state |-> state,
                       previous |-> world[c], todo |-> <<>>, next |-> state ]
    BY <1>0, <1>1 DEF Begin
  <2>3. writer'[w] \in Call
    BY <1>0, <2>1, <2>2 DEF Call
  <2>4. writer' = [writer EXCEPT ![w] = writer'[w]]
    BY <1>0, <1>1, <2>2 DEF Begin
  <2> QED BY <2>1, <2>2, <2>3, <2>4 DEF Moves
<1>2. CASE CallBegins(w)
  <2> {"air", "stone", "fence"} \subseteq States
    BY DEF States
  <2> QED BY <1>1, <1>2 DEF CallBegins, SetBlock, BreakBlock, PlaceBlock
<1>3. CASE ShapePlaced(w)
  <2>1. writer[w].at = "shape"
    BY <1>3 DEF ShapePlaced
  <2>2. writer[w] \in Call /\ ToSet(writer[w].todo) \subseteq ToSet(Beside[writer[w].cell])
    BY <2>1, CallTyped
  <2>3. writer'[w] = [writer[w] EXCEPT !.at = "write", !.state = Shaped(writer[w].cell, writer[w].state)]
    BY <1>0, <1>3, <2>2 DEF ShapePlaced, Call
  <2>4. Shaped(writer[w].cell, writer[w].state) \in States
    BY <2>1, CallTyped, StatesShaped
  <2>5. /\ writer'[w] \in Call /\ writer'[w].at = "write"
        /\ writer'[w].todo = writer[w].todo /\ writer'[w].cell = writer[w].cell
    BY <2>2, <2>3, <2>4 DEF Call
  <2>6. writer' = [writer EXCEPT ![w] = writer'[w]]
    BY <1>0, <1>3, <2>2, <2>3 DEF ShapePlaced, Call
  <2> QED BY <2>2, <2>5, <2>6 DEF Moves
<1>4. CASE Write(w) \/ FixWrite(w) \/ FixQueue(w)
  <2>1. writer[w].at \in {"write", "fix", "fixTouch"}
    BY <1>4 DEF Write, FixWrite, FixQueue
  <2>2. /\ writer[w] \in Call /\ ToSet(writer[w].todo) \subseteq ToSet(Beside[writer[w].cell])
        /\ writer[w].at # "write" => writer[w].todo # <<>>
    BY <2>1, CallTyped DEF CallInv
  <2>3. \E t \in {"touch", "fixTouch", "fixTell"} :
          /\ writer' = [writer EXCEPT ![w].at = t]
          /\ t # "touch" => writer[w].at # "write"
    BY <1>4 DEF Write, FixWrite, FixQueue
  <2>4. PICK t \in {"touch", "fixTouch", "fixTell"} :
          /\ writer' = [writer EXCEPT ![w] = [writer[w] EXCEPT !.at = t]]
          /\ t # "touch" => writer[w].at # "write"
    BY <2>3
  <2>5. writer'[w] = [writer[w] EXCEPT !.at = t]
    BY <1>0, <2>4
  <2>6. /\ writer'[w] \in Call /\ writer'[w].at = t
        /\ writer'[w].todo = writer[w].todo /\ writer'[w].cell = writer[w].cell
    BY <2>2, <2>5 DEF Call
  <2>7. writer' = [writer EXCEPT ![w] = writer'[w]]
    BY <2>4, <2>5
  <2> QED BY <2>2, <2>4, <2>6, <2>7 DEF Moves
<1>5. CASE QueueUpdates(w)
  <2>1. writer[w].at = "touch"
    BY <1>5 DEF QueueUpdates
  <2>2. /\ writer[w] \in Call /\ ToSet(writer[w].todo) \subseteq ToSet(Beside[writer[w].cell])
        /\ Beside[writer[w].cell] \in Seq(Cells)
    BY <2>1, CallTyped, BesideTyped
  <2>3. writer' = [writer EXCEPT ![w] = writer'[w]]
        /\ writer'[w] \in {[writer[w] EXCEPT !.at = "tell"], Idle,
             [writer[w] EXCEPT !.at = "reshape", !.todo = Beside[writer[w].cell]]}
    BY <1>0, <1>5 DEF QueueUpdates
  <2> QED BY <2>2, <2>3 DEF Moves, Call
<1>6. CASE Reshape(w)
  <2>1. writer[w].at = "reshape"
    BY <1>6 DEF Reshape
  <2>2. CASE writer[w].todo # <<>>
    <3>1. writer' = [writer EXCEPT ![w] = writer'[w]]
          /\ writer'[w] \in {[writer[w] EXCEPT !.at = "around", !.next = world[Head(writer[w].todo)]],
                             SideDone(writer[w])}
      BY <1>0, <1>6, <2>2 DEF Reshape
    <3>2. world[Head(writer[w].todo)] \in States
      BY <1>0, <2>1, <2>2, CallTyped
    <3> QED BY <2>1, <2>2, <3>1, <3>2, CallTyped DEF Moves, Call, SideDone
  <2>3. CASE writer[w].todo = <<>>
    <3>1. writer' = [writer EXCEPT ![w] = writer'[w]]
          /\ writer'[w] \in {Idle, [writer[w] EXCEPT !.at = "tell"]}
      BY <1>0, <1>6, <2>3 DEF Reshape
    <3> QED BY <2>1, <2>3, <3>1, CallTyped DEF Moves, Call
  <2> QED BY <2>2, <2>3
<1>7. CASE ReadAround(w)
  <2>1. writer[w].at = "around"
    BY <1>7 DEF ReadAround
  <2>2. writer[w].todo # <<>>
    BY <2>1, CallTyped DEF CallInv
  <2> DEFINE n == Shaped(Head(writer[w].todo), writer[w].next)
  <2>3. n \in States
    BY <2>1, CallTyped, StatesShaped
  <2>4. writer' = [writer EXCEPT ![w] = writer'[w]]
        /\ writer'[w] \in {SideDone(writer[w]), [writer[w] EXCEPT !.at = "fix", !.next = n]}
    BY <1>0, <1>7 DEF ReadAround
  <2> HIDE DEF n
  <2> QED BY <2>1, <2>2, <2>3, <2>4, CallTyped DEF Moves, Call, SideDone
<1>8. CASE FixTell(w)
  <2>1. writer[w].at = "fixTell"
    BY <1>8 DEF FixTell
  <2>2. writer[w].todo # <<>>
    BY <2>1, CallTyped DEF CallInv
  <2>3. writer' = [writer EXCEPT ![w] = writer'[w]] /\ writer'[w] = SideDone(writer[w])
    BY <1>0, <1>8 DEF FixTell
  <2> QED BY <2>1, <2>2, <2>3, CallTyped DEF Moves, Call, SideDone
<1>9. CASE Tell(w)
  <2>1. writer' = [writer EXCEPT ![w] = writer'[w]] /\ writer'[w] = Idle
    BY <1>0, <1>9 DEF Tell
  <2> QED BY <2>1 DEF Moves
<1> QED BY <1>2, <1>3, <1>4, <1>5, <1>6, <1>7, <1>8, <1>9 DEF CallGoesOn

-----------------------------------------------------------------------------
(***************************************************************************)
(* Types.                                                                  *)
(***************************************************************************)
Message == [cell : Cells, state : States]

\* A full receiver makes room.
LEMMA AnnounceTyped ==
  ASSUME EditsTypeOK, NEW c \in Cells, NEW state \in States, Announce(c, state)
  PROVE  /\ inbox' \in [Listeners -> Seq(Message)]
         /\ \A s \in Listeners : Len(inbox'[s]) <= Backlog
         /\ lagged' \in [Listeners -> BOOLEAN]
<1> DEFINE m == [cell |-> c, state |-> state]
           old(s) == IF Len(inbox[s]) < Backlog THEN inbox[s] ELSE Tail(inbox[s])
<1>1. m \in Message
  BY DEF Message
<1>2. ASSUME NEW s \in Listeners
      PROVE  old(s) \in Seq(Message) /\ Len(old(s)) < Backlog
  <2>1. inbox[s] \in Seq(Message) /\ Len(inbox[s]) \in Nat /\ Len(inbox[s]) <= Backlog
    BY LenProperties DEF EditsTypeOK, Message
  <2>2. Backlog \in Nat \ {0}
    BY EditsAssumption
  <2>3. CASE Len(inbox[s]) = Backlog
    <3>1. inbox[s] # <<>>
      BY <2>2, <2>3
    <3> QED BY <2>1, <2>2, <2>3, <3>1, HeadTailProperties
  <2> QED BY <2>1, <2>2, <2>3
<1>3. inbox' = [s \in Listeners |-> Append(old(s), m)]
  BY DEF Announce
<1>4. ASSUME NEW s \in Listeners
      PROVE  Append(old(s), m) \in Seq(Message) /\ Len(Append(old(s), m)) <= Backlog
  <2> HIDE DEF old, m
  <2>1. Append(old(s), m) \in Seq(Message) /\ Len(Append(old(s), m)) = Len(old(s)) + 1
    BY <1>1, <1>2, AppendProperties
  <2> QED BY <1>2, <2>1, EditsAssumption, LenProperties
<1>5. lagged' \in [Listeners -> BOOLEAN]
  BY DEF Announce, EditsTypeOK
<1> HIDE DEF old, m
<1> QED BY <1>3, <1>4, <1>5

\* What a call's step leaves is well typed.
LEMMA CallKeepsTypes ==
  ASSUME EditsTypeOK, CallInv, NEW w \in Writers, CallBegins(w) \/ CallGoesOn(w), raced' \subseteq Cells
  PROVE  EditsTypeOK' /\ CallInv'
<1> DEFINE Rest == UNCHANGED <<batch, holds, client>>
           Queue == UNCHANGED <<waiting, refused>>
           Channel == UNCHANGED <<inbox, lagged>>
<1> USE DEF worldVars, tickVars, channelVars, clientVars
<1>1. writer' \in [Writers -> Call \cup {Idle}] /\ CallInv'
  BY CallMoves, MovesKeeps
<1>2. Rest
  BY DEF CallBegins, CallGoesOn, SetBlock, BreakBlock, PlaceBlock, Begin, ShapePlaced, Write,
         QueueUpdates, Reshape, ReadAround, FixWrite, FixQueue, FixTell, Tell
<1>3. verbs' \in 0..MaxVerbs
  BY EditsAssumption DEF EditsTypeOK, CallBegins, CallGoesOn, SetBlock, BreakBlock, PlaceBlock, Begin, ShapePlaced, Write,
         QueueUpdates, Reshape, ReadAround, FixWrite, FixQueue, FixTell, Tell
<1>4. world' \in [Cells -> States]
  <2>1. CASE Write(w)
    <3>1. writer[w].cell \in Cells /\ writer[w].state \in States
      BY <2>1, CallTyped DEF Write
    <3> QED BY <2>1, <3>1 DEF Write, EditsTypeOK
  <2>2. CASE FixWrite(w)
    <3>1. writer[w].at = "fix" /\ writer[w].todo # <<>>
      BY <2>2, CallTyped DEF FixWrite, CallInv, AtASide
    <3>2. Head(writer[w].todo) \in Cells /\ writer[w].next \in States
      BY <3>1, CallTyped
    <3> QED BY <2>2, <3>2 DEF FixWrite, EditsTypeOK
  <2>3. CASE world' = world
    BY <2>3 DEF EditsTypeOK
  <2> QED BY <2>1, <2>2, <2>3 DEF CallBegins, CallGoesOn, SetBlock, BreakBlock, PlaceBlock, Begin,
         ShapePlaced, QueueUpdates, Reshape, ReadAround, FixQueue, FixTell, Tell
<1>5. waiting' \in Seq(Cells) /\ Len(waiting') <= MaxPending /\ refused' \subseteq Cells
  <2>1. CASE QueueUpdates(w)
    <3>1. writer[w].cell \in Cells
      BY <2>1, CallTyped DEF QueueUpdates
    <3> QED BY <2>1, <3>1, TouchFacts DEF QueueUpdates, EditsTypeOK
  <2>2. CASE FixQueue(w)
    <3>1. writer[w].at = "fixTouch" /\ writer[w].todo # <<>>
      BY <2>2, CallTyped DEF FixQueue, CallInv, AtASide
    <3>2. Head(writer[w].todo) \in Cells
      BY <3>1, CallTyped
    <3> QED BY <2>2, <3>2, TouchFacts DEF FixQueue, EditsTypeOK
  <2>3. CASE Queue
    BY <2>3 DEF EditsTypeOK
  <2> QED BY <2>1, <2>2, <2>3 DEF CallBegins, CallGoesOn, SetBlock, BreakBlock, PlaceBlock, Begin,
         ShapePlaced, Write, Reshape, ReadAround, FixWrite, FixTell, Tell
<1>6. /\ inbox' \in [Listeners -> Seq(Message)]
      /\ \A s \in Listeners : Len(inbox'[s]) <= Backlog
      /\ lagged' \in [Listeners -> BOOLEAN]
  <2>1. CASE Tell(w)
    <3>1. writer[w].cell \in Cells /\ writer[w].state \in States
      BY <2>1, CallTyped DEF Tell
    <3> QED BY <2>1, <3>1, AnnounceTyped DEF Tell
  <2>2. CASE FixTell(w)
    <3>1. writer[w].at = "fixTell" /\ writer[w].todo # <<>>
      BY <2>2, CallTyped DEF FixTell, CallInv, AtASide
    <3>2. Head(writer[w].todo) \in Cells /\ writer[w].next \in States
      BY <3>1, CallTyped
    <3> QED BY <2>2, <3>2, AnnounceTyped DEF FixTell
  <2>3. CASE Channel
    BY <2>3 DEF EditsTypeOK, Message
  <2> QED BY <2>1, <2>2, <2>3 DEF CallBegins, CallGoesOn, SetBlock, BreakBlock, PlaceBlock, Begin,
         ShapePlaced, Write, QueueUpdates, Reshape, ReadAround, FixWrite, FixQueue
<1>7. unseen' \subseteq Cells
  <2>1. CASE Write(w)
    <3>1. writer[w].cell \in Cells
      BY <2>1, CallTyped DEF Write
    <3> QED BY <2>1, <3>1, BesideTyped DEF Write, EditsTypeOK
  <2>2. CASE FixWrite(w)
    <3>1. writer[w].at = "fix" /\ writer[w].todo # <<>>
      BY <2>2, CallTyped DEF FixWrite, CallInv, AtASide
    <3>2. Head(writer[w].todo) \in Cells
      BY <3>1, CallTyped
    <3> QED BY <2>2, <3>2, BesideTyped DEF FixWrite, EditsTypeOK
  <2>3. CASE unseen' = unseen
    BY <2>3 DEF EditsTypeOK
  <2> QED BY <2>1, <2>2, <2>3 DEF CallBegins, CallGoesOn, SetBlock, BreakBlock, PlaceBlock, Begin,
         ShapePlaced, QueueUpdates, Reshape, ReadAround, FixQueue, FixTell, Tell
<1> QED BY <1>1, <1>2, <1>3, <1>4, <1>5, <1>6, <1>7 DEF EditsTypeOK, Message

\* What the tick takes, and what it leaves.
LEMMA TakeSplits ==
  ASSUME EditsTypeOK, TakeUpdates
  PROVE  /\ batch' \in Seq(Cells) /\ Len(batch') <= PerTick
         /\ waiting' \in Seq(Cells) /\ Len(waiting') <= MaxPending
         /\ ToSet(waiting) \subseteq ToSet(batch') \cup ToSet(waiting')
<1> DEFINE n == IF Len(waiting) < PerTick THEN Len(waiting) ELSE PerTick
<1>1. waiting \in Seq(Cells) /\ Len(waiting) \in Nat /\ Len(waiting) <= MaxPending
  BY LenProperties DEF EditsTypeOK
<1>2. n \in 0..Len(waiting) /\ n <= PerTick /\ PerTick \in Nat /\ MaxPending \in Nat
  BY <1>1, EditsAssumption
<1>3. batch' = SubSeq(waiting, 1, n) /\ waiting' = SubSeq(waiting, n + 1, Len(waiting))
  BY DEF TakeUpdates
<1> HIDE DEF n
<1>4. /\ batch' \in Seq(Cells) /\ Len(batch') = n
      /\ \A i \in 1..n : batch'[i] = waiting[i]
  BY <1>1, <1>2, <1>3, SubSeqProperties
<1>5. /\ waiting' \in Seq(Cells) /\ Len(waiting') = Len(waiting) - n
      /\ \A i \in 1..Len(waiting) - n : waiting'[i] = waiting[n + i]
  <2>1. n + 1 \in 1..Len(waiting) + 1
    BY <1>1, <1>2
  <2>2. /\ waiting' \in Seq(Cells)
        /\ Len(waiting') = IF n + 1 <= Len(waiting) THEN Len(waiting) - (n + 1) + 1 ELSE 0
        /\ \A i \in 1..Len(waiting) - (n + 1) + 1 : waiting'[i] = waiting[n + 1 + i - 1]
    BY <1>1, <1>2, <1>3, <2>1, SubSeqProperties
  <2> QED BY <1>1, <1>2, <2>2
<1>6. ASSUME NEW c \in ToSet(waiting) PROVE c \in ToSet(batch') \cup ToSet(waiting')
  <2>1. PICK i \in 1..Len(waiting) : c = waiting[i]
    BY <1>1, LenProperties DEF ToSet
  <2>2. CASE i <= n
    <3>1. i \in DOMAIN batch' /\ batch'[i] = c
      BY <1>2, <1>4, <2>1, <2>2, LenProperties
    <3> QED BY <3>1 DEF ToSet
  <2>3. CASE i > n
    <3>1. i - n \in 1..Len(waiting) - n /\ n + (i - n) = i
      BY <1>1, <1>2, <2>1, <2>3
    <3>2. i - n \in DOMAIN waiting' /\ waiting'[i - n] = c
      BY <1>5, <2>1, <3>1, LenProperties
    <3> QED BY <3>2 DEF ToSet
  <2> QED BY <1>2, <2>1, <2>2, <2>3
<1> QED BY <1>1, <1>2, <1>4, <1>5, <1>6

LEMMA TickKeepsTypes ==
  ASSUME EditsTypeOK, CallInv, TakeUpdates \/ Examine, raced' \subseteq Cells
  PROVE  EditsTypeOK' /\ CallInv'
<1> USE DEF worldVars, tickVars, channelVars, clientVars
<1>1. CASE TakeUpdates
  BY <1>1, TakeSplits DEF TakeUpdates, EditsTypeOK, CallInv
<1>2. CASE Examine
  <2>1. batch' \in Seq(Cells) /\ Len(batch') <= PerTick
    <3>1. batch \in Seq(Cells) /\ batch # <<>> /\ Len(batch) \in Nat /\ Len(batch) <= PerTick
      BY <1>2, LenProperties DEF Examine, EditsTypeOK
    <3>2. Tail(batch) \in Seq(Cells) /\ Len(Tail(batch)) = Len(batch) - 1
      BY <3>1, HeadTailProperties
    <3> QED BY <1>2, <3>1, <3>2, EditsAssumption DEF Examine
  <2>2. unseen' \subseteq Cells
    BY <1>2 DEF Examine, EditsTypeOK
  <2> QED BY <1>2, <2>1, <2>2 DEF Examine, EditsTypeOK, CallInv
<1> QED BY <1>1, <1>2

LEMMA SessionKeepsTypes ==
  ASSUME EditsTypeOK, CallInv, NEW s \in Listeners, SessionStep(s), raced' \subseteq Cells
  PROVE  EditsTypeOK' /\ CallInv'
<1> USE DEF worldVars, tickVars, channelVars, clientVars
<1>0. UNCHANGED <<world, waiting, refused, batch, unseen, writer, verbs>>
  BY DEF SessionStep, SendColumn, ForgetColumn, Receive, Resend
<1>1. holds' \in [Listeners -> SUBSET Cells] /\ lagged' \in [Listeners -> BOOLEAN]
  <2>0. holds \in [Listeners -> SUBSET Cells] /\ lagged \in [Listeners -> BOOLEAN]
    BY DEF EditsTypeOK
  <2>1. ASSUME NEW c \in Cells, SendColumn(s, c) \/ ForgetColumn(s, c)
        PROVE  holds' \in [Listeners -> SUBSET Cells] /\ lagged' = lagged
    BY <2>0, <2>1 DEF SendColumn, ForgetColumn
  <2>2. CASE Receive(s) \/ Resend(s)
    BY <2>0, <2>2 DEF Receive, Resend
  <2> QED BY <2>0, <2>1, <2>2 DEF SessionStep
<1>2. /\ inbox' \in [Listeners -> Seq(Message)]
      /\ \A l \in Listeners : Len(inbox'[l]) <= Backlog
      /\ client' \in [Listeners -> [Cells -> States \cup {None}]]
  <2>0. /\ inbox \in [Listeners -> Seq(Message)] /\ \A l \in Listeners : Len(inbox[l]) <= Backlog
        /\ client \in [Listeners -> [Cells -> States \cup {None}]] /\ world \in [Cells -> States]
    BY DEF EditsTypeOK, Message
  <2>1. ASSUME NEW c \in Cells, SendColumn(s, c) PROVE client' \in [Listeners -> [Cells -> States \cup {None}]]
    BY <2>0, <2>1 DEF SendColumn
  <2>2. ASSUME NEW c \in Cells, ForgetColumn(s, c) PROVE client' \in [Listeners -> [Cells -> States \cup {None}]]
    BY <2>0, <2>2 DEF ForgetColumn
  <2>3. CASE Receive(s)
    <3>1. inbox[s] \in Seq(Message) /\ inbox[s] # <<>> /\ Len(inbox[s]) \in Nat /\ Len(inbox[s]) <= Backlog
      BY <2>0, <2>3, LenProperties DEF Receive
    <3>2. /\ Tail(inbox[s]) \in Seq(Message) /\ Len(Tail(inbox[s])) = Len(inbox[s]) - 1
          /\ Head(inbox[s]) \in Message
      BY <3>1, HeadTailProperties
    <3>3. Head(inbox[s]).cell \in Cells /\ Head(inbox[s]).state \in States
      BY <3>2 DEF Message
    <3>4. Len(Tail(inbox[s])) <= Backlog
      BY <3>1, <3>2, EditsAssumption
    <3>5. inbox' = [inbox EXCEPT ![s] = Tail(inbox[s])]
      BY <2>3 DEF Receive
    <3>6. client' \in [Listeners -> [Cells -> States \cup {None}]]
      BY <2>0, <2>3, <3>3 DEF Receive
    <3> QED BY <2>0, <3>2, <3>4, <3>5, <3>6
  <2>4. CASE Resend(s)
    BY <2>0, <2>4 DEF Resend
  <2> QED BY <2>0, <2>1, <2>2, <2>3, <2>4 DEF SessionStep, SendColumn, ForgetColumn
<1> QED BY <1>0, <1>1, <1>2 DEF EditsTypeOK, CallInv, Message

LEMMA EditsInitTyped == Init => EditsTypeOK /\ CallInv
<1> SUFFICES ASSUME Init PROVE EditsTypeOK /\ CallInv
  OBVIOUS
<1>1. world \in [Cells -> States]
  BY EditsAssumption DEF Init, States
<1>2. <<>> \in Seq(Cells) /\ Len(<<>>) = 0
  OBVIOUS
<1>7. <<>> \in Seq(Message)
  OBVIOUS
<1>3. /\ waiting \in Seq(Cells) /\ Len(waiting) <= MaxPending /\ refused \subseteq Cells
      /\ batch \in Seq(Cells) /\ Len(batch) <= PerTick /\ verbs \in 0..MaxVerbs
  BY <1>2, EditsAssumption DEF Init
<1>4. inbox \in [Listeners -> Seq(Message)] /\ \A s \in Listeners : Len(inbox[s]) <= Backlog
  BY <1>2, <1>7, EditsAssumption DEF Init
<1>5. /\ unseen = {} /\ raced \subseteq Cells
      /\ lagged \in [Listeners -> BOOLEAN] /\ holds \in [Listeners -> SUBSET Cells]
      /\ client \in [Listeners -> [Cells -> States \cup {None}]]
  BY DEF Init
<1>6. writer \in [Writers -> Call \cup {Idle}] /\ CallInv
  BY DEF Init, CallInv
<1> QED BY <1>1, <1>3, <1>4, <1>5, <1>6 DEF EditsTypeOK, Message

LEMMA EditsStepTyped == EditsTypeOK /\ CallInv /\ [EditNext]_editVars => EditsTypeOK' /\ CallInv'
<1> SUFFICES ASSUME EditsTypeOK, CallInv, [EditNext]_editVars PROVE EditsTypeOK' /\ CallInv'
  OBVIOUS
<1>1. CASE UNCHANGED editVars
  BY <1>1 DEF editVars, codeVars, EditsTypeOK, CallInv
<1>2. CASE EditNext
  <2>1. raced' \subseteq Cells
    BY <1>2 DEF EditNext, EditsTypeOK, Contested
  <2> QED BY <1>2, <2>1, CallKeepsTypes, TickKeepsTypes, SessionKeepsTypes DEF EditNext, EditStep
<1> QED BY <1>1, <1>2

\* The queue keeps to its limit and the channel to its backlog, every position
\* is one, and a call is at a side of the cell it changes.
THEOREM EditsTyped == EditSpec => [](EditsTypeOK /\ CallInv)
<1> QED BY EditsInitTyped, EditsStepTyped, PTL DEF EditSpec

-----------------------------------------------------------------------------
(***************************************************************************)
(* No update is lost, whoever writes.                                      *)
(***************************************************************************)
\* w has written in or around c and not yet queued it.
Touching(w, c) ==
  \/ writer[w].at = "touch" /\ c \in Around(writer[w].cell)
  \/ writer[w].at = "fixTouch" /\ c \in Around(Head(writer[w].todo))

Queued(c) == c \in ToSet(waiting) \cup ToSet(batch) \cup refused

\* A step that writes nothing, forgets nothing and finishes no touch.
LEMMA UnseenStays ==
  ASSUME EditsTypeOK, NoUpdateLost, UNCHANGED unseen,
         \A c \in Cells : Queued(c) => Queued(c)',
         \A w \in Writers, c \in Cells : Touching(w, c) => Touching(w, c)' \/ Queued(c)'
  PROVE  NoUpdateLost'
<1> SUFFICES ASSUME NEW c, c \in unseen'
             PROVE  Queued(c)' \/ \E w \in Writers : Touching(w, c)'
  BY DEF NoUpdateLost, Queued, Touching
<1>1. c \in Cells /\ (Queued(c) \/ \E w \in Writers : Touching(w, c))
  BY DEF NoUpdateLost, Queued, Touching, EditsTypeOK
<1> QED BY <1>1

\* What a write leaves unseen is about to be touched.
LEMMA WrittenIsTouched ==
  ASSUME EditsTypeOK, NoUpdateLost, NEW w \in Writers, NEW d \in Cells,
         unseen' = unseen \cup Around(d), UNCHANGED <<waiting, batch, refused>>,
         \A c \in Cells : c \in Around(d) => Touching(w, c)',
         \A v \in Writers, c \in Cells : Touching(v, c) => Touching(v, c)'
  PROVE  NoUpdateLost'
<1> SUFFICES ASSUME NEW c, c \in unseen'
             PROVE  Queued(c)' \/ \E v \in Writers : Touching(v, c)'
  BY DEF NoUpdateLost, Queued, Touching
<1>1. CASE c \in Around(d)
  BY <1>1, BesideTyped
<1>2. CASE c \in unseen
  <2>1. c \in Cells /\ (Queued(c) \/ \E v \in Writers : Touching(v, c))
    BY <1>2 DEF NoUpdateLost, Queued, Touching, EditsTypeOK
  <2> QED BY <2>1 DEF Queued
<1> QED BY <1>1, <1>2

\* The steps of a call that write nothing and queue nothing.
LEMMA OtherSteps ==
  ASSUME EditsTypeOK, CallInv, NEW w \in Writers,
         \/ CallBegins(w) \/ ShapePlaced(w) \/ Reshape(w) \/ ReadAround(w)
         \/ FixTell(w) \/ Tell(w)
  PROVE  /\ UNCHANGED <<unseen, waiting, batch, refused>>
         /\ writer[w].at \notin {"touch", "fixTouch"}
         /\ \A v \in Writers : v # w => writer'[v] = writer[v]
<1> USE DEF worldVars, tickVars
<1>1. Moves(w)
  BY CallMoves DEF CallGoesOn
<1>2. \A v \in Writers : v # w => writer'[v] = writer[v]
  BY <1>1 DEF Moves, EditsTypeOK
<1> QED BY <1>2, IdleIsNoCall DEF CallBegins, SetBlock, BreakBlock, PlaceBlock, Begin, ShapePlaced, Reshape, ReadAround,
        FixTell, Tell

LEMMA CallLosesNoUpdate ==
  ASSUME EditsTypeOK, CallInv, NoUpdateLost, NEW w \in Writers, CallBegins(w) \/ CallGoesOn(w)
  PROVE  NoUpdateLost'
<1> USE DEF worldVars, tickVars
<1>0. \A v \in Writers : v # w => writer'[v] = writer[v]
  BY CallMoves DEF Moves, EditsTypeOK
<1>1. CASE \/ CallBegins(w) \/ ShapePlaced(w) \/ Reshape(w) \/ ReadAround(w)
           \/ FixTell(w) \/ Tell(w)
  <2>1. /\ UNCHANGED <<unseen, waiting, batch, refused>>
        /\ writer[w].at \notin {"touch", "fixTouch"}
    BY <1>1, OtherSteps
  <2>2. \A v \in Writers, c \in Cells : Touching(v, c) => Touching(v, c)'
    BY <1>0, <2>1 DEF Touching, Around
  <2> QED BY <2>1, <2>2, UnseenStays DEF Queued
<1>2. CASE Write(w)
  <2>1. /\ writer[w].at = "write" /\ writer' = [writer EXCEPT ![w].at = "touch"]
        /\ unseen' = unseen \cup Around(writer[w].cell)
        /\ UNCHANGED <<waiting, batch, refused>>
    BY <1>2 DEF Write
  <2>2. writer[w].cell \in Cells /\ writer[w] \in Call /\ w \in DOMAIN writer
    BY <2>1, CallTyped DEF EditsTypeOK
  <2>3. writer'[w].at = "touch" /\ writer'[w].cell = writer[w].cell
    BY <2>1, <2>2 DEF Call
  <2>4. \A c \in Cells : c \in Around(writer[w].cell) => Touching(w, c)'
    BY <2>3 DEF Touching, Around
  <2>5. \A v \in Writers, c \in Cells : Touching(v, c) => Touching(v, c)'
    BY <1>0, <2>1 DEF Touching, Around
  <2> QED BY <2>1, <2>2, <2>4, <2>5, WrittenIsTouched
<1>3. CASE FixWrite(w)
  <2>1. /\ writer[w].at = "fix" /\ writer' = [writer EXCEPT ![w].at = "fixTouch"]
        /\ unseen' = unseen \cup Around(Head(writer[w].todo))
        /\ UNCHANGED <<waiting, batch, refused>>
    BY <1>3 DEF FixWrite
  <2>2. Head(writer[w].todo) \in Cells /\ writer[w] \in Call /\ w \in DOMAIN writer
    BY <2>1, CallTyped DEF EditsTypeOK, CallInv, AtASide
  <2>3. writer'[w].at = "fixTouch" /\ writer'[w].todo = writer[w].todo
    BY <2>1, <2>2 DEF Call
  <2>4. \A c \in Cells : c \in Around(Head(writer[w].todo)) => Touching(w, c)'
    BY <2>3 DEF Touching, Around
  <2>5. \A v \in Writers, c \in Cells : Touching(v, c) => Touching(v, c)'
    BY <1>0, <2>1 DEF Touching, Around
  <2> QED BY <2>1, <2>2, <2>4, <2>5, WrittenIsTouched
<1>4. CASE QueueUpdates(w) \/ FixQueue(w)
  <2>1. \E d \in Cells :
          /\ Touch(d) /\ UNCHANGED <<unseen, batch>>
          /\ \A c \in Cells : Touching(w, c) => c \in Around(d)
    <3>1. CASE QueueUpdates(w)
      <4>1. writer[w].at = "touch" /\ writer[w].cell \in Cells
        BY <3>1, CallTyped DEF QueueUpdates
      <4> QED BY <3>1, <4>1 DEF QueueUpdates, Touching
    <3>2. CASE FixQueue(w)
      <4>1. writer[w].at = "fixTouch" /\ Head(writer[w].todo) \in Cells
        BY <3>2, CallTyped DEF FixQueue, CallInv, AtASide
      <4> QED BY <3>2, <4>1 DEF FixQueue, Touching
    <3> QED BY <1>4, <3>1, <3>2
  <2>2. PICK d \in Cells :
          /\ Touch(d) /\ UNCHANGED <<unseen, batch>>
          /\ \A c \in Cells : Touching(w, c) => c \in Around(d)
    BY <2>1
  <2>3. /\ ToSet(waiting) \subseteq ToSet(waiting') /\ refused \subseteq refused'
        /\ Around(d) \subseteq ToSet(waiting') \cup refused'
    BY <2>2, TouchFacts DEF EditsTypeOK
  <2>4. \A c \in Cells : Queued(c) => Queued(c)'
    BY <2>2, <2>3 DEF Queued
  <2>5. \A v \in Writers, c \in Cells : Touching(v, c) => Touching(v, c)' \/ Queued(c)'
    BY <1>0, <2>2, <2>3 DEF Touching, Around, Queued
  <2> QED BY <2>2, <2>4, <2>5, UnseenStays
<1> QED BY <1>1, <1>2, <1>3, <1>4 DEF CallGoesOn

\* What the tick takes it holds in hand, and what it has looked at it has seen.
LEMMA TickLosesNoUpdate ==
  ASSUME EditsTypeOK, CallInv, NoUpdateLost, TakeUpdates \/ Examine
  PROVE  NoUpdateLost'
<1> USE DEF worldVars, channelVars
<1>1. CASE TakeUpdates
  <2>1. ToSet(waiting) \subseteq ToSet(batch') \cup ToSet(waiting')
    BY <1>1, TakeSplits
  <2>2. UNCHANGED <<unseen, writer, refused>> /\ ToSet(batch) = {}
    BY <1>1 DEF TakeUpdates, ToSet
  <2>3. \A c \in Cells : Queued(c) => Queued(c)'
    BY <2>1, <2>2 DEF Queued
  <2> QED BY <2>2, <2>3, UnseenStays DEF Touching, Around
<1>2. CASE Examine
  <2> DEFINE h == Head(batch)
  <2>1. /\ batch' = Tail(batch) /\ unseen' = unseen \ {h}
        /\ UNCHANGED <<waiting, refused, writer>>
    BY <1>2 DEF Examine
  <2>2. ToSet(batch) = {h} \cup ToSet(batch')
    BY <1>2, <2>1, Members DEF Examine, EditsTypeOK
  <2> SUFFICES ASSUME NEW c, c \in unseen'
               PROVE  Queued(c)' \/ \E w \in Writers : Touching(w, c)'
    BY DEF NoUpdateLost, Queued, Touching
  <2>3. c # h /\ (Queued(c) \/ \E w \in Writers : Touching(w, c))
    BY <2>1 DEF NoUpdateLost, Queued, Touching
  <2>4. Queued(c) => Queued(c)'
    BY <2>1, <2>2, <2>3 DEF Queued
  <2>5. \A w \in Writers : Touching(w, c) => Touching(w, c)'
    BY <2>1 DEF Touching, Around
  <2> QED BY <2>3, <2>4, <2>5
<1> QED BY <1>1, <1>2

\* A change in or around a cell is one the tick has seen, or has it coming, or
\* a full queue refused it -- whatever any number of threads do meanwhile.
THEOREM EditsLoseNoUpdate == EditSpec => []NoUpdateLost
<1>1. Init => NoUpdateLost
  BY DEF Init, NoUpdateLost
<1>2. EditsTypeOK /\ CallInv /\ NoUpdateLost /\ [EditNext]_editVars => NoUpdateLost'
  <2> SUFFICES ASSUME EditsTypeOK, CallInv, NoUpdateLost, [EditNext]_editVars PROVE NoUpdateLost'
    OBVIOUS
  <2>1. ASSUME UNCHANGED <<unseen, waiting, batch, refused, writer>> PROVE NoUpdateLost'
    BY <2>1, UnseenStays DEF Queued, Touching, Around
  <2>2. ASSUME NEW s \in Listeners, SessionStep(s) PROVE NoUpdateLost'
    BY <2>1, <2>2 DEF SessionStep, SendColumn, ForgetColumn, Receive, Resend, worldVars, tickVars
  <2>3. CASE UNCHANGED editVars
    BY <2>1, <2>3 DEF editVars, codeVars
  <2> QED BY <2>2, <2>3, CallLosesNoUpdate, TickLosesNoUpdate DEF EditNext, EditStep
<1> QED BY <1>1, <1>2, EditsTyped, PTL DEF EditSpec

-----------------------------------------------------------------------------
(***************************************************************************)
(* Where no two threads meet.  What a session has still to hear of a cell, *)
(* or else what its client shows there, is the world -- but for what a     *)
(* call under way owes an announcement.                                    *)
(***************************************************************************)
\* The last that is said of c to s is the message at i.
LastWord(s, c, i) ==
  /\ inbox[s][i].cell = c
  /\ \A j \in DOMAIN inbox[s] : j > i => inbox[s][j].cell # c

Heard(s, c) ==
  /\ \A i \in DOMAIN inbox[s] : LastWord(s, c, i) => inbox[s][i].state = world[c]
  /\ (\A i \in DOMAIN inbox[s] : inbox[s][i].cell # c) /\ c \in holds[s] /\ ~lagged[s]
       => client[s][c] = world[c]

Written == {"touch", "reshape", "around", "fix", "fixTouch", "fixTell", "tell"}
Fixed == {"fixTouch", "fixTell"}

\* A call that left its cell as it found it owes nothing: that is why it may
\* end without a word.
Owes(w, c) ==
  \/ writer[w].at \in Written /\ c = writer[w].cell /\ writer[w].previous # writer[w].state
  \/ writer[w].at \in Fixed /\ c = Head(writer[w].todo)

HeardInv ==
  \A s \in Listeners, c \in Cells \ raced : Heard(s, c) \/ \E w \in Writers : Owes(w, c)

\* In a cell it has to itself, what a call has read still stands, and what it
\* wrote is still there.
OwnInv(w) ==
  writer[w] # Idle /\ writer[w].cell \notin raced =>
    /\ writer[w].at \in {"shape", "write"} => world[writer[w].cell] = writer[w].previous
    /\ writer[w].at \in Written => world[writer[w].cell] = writer[w].state

SideInv(w) ==
  writer[w].at \in AtASide /\ Head(writer[w].todo) \notin raced =>
    /\ writer[w].at \in {"around", "fix"} => ReadsNeighbours(world[Head(writer[w].todo)])
    /\ writer[w].at \in Fixed => world[Head(writer[w].todo)] = writer[w].next

ShapeInv(w) == writer[w].at \in {"around", "fix"} => ReadsNeighbours(writer[w].next)

BreakInv(w) == writer[w] # Idle /\ writer[w].verb = "break" => writer[w].state = "air"

AloneInv(w) == OwnInv(w) /\ SideInv(w) /\ ShapeInv(w) /\ BreakInv(w)

\* Where two calls are together now has been noted.
RacedInv == Contested \subseteq raced

LEMMA JoinedIsShaped ==
  ASSUME NEW c, NEW state, ReadsNeighbours(state)
  PROVE  ReadsNeighbours(Shaped(c, state))
BY DEF Shaped, ReadsNeighbours

\* Where it is by itself, what a call knows of the world stays true by its own
\* steps.
LEMMA AloneStep ==
  ASSUME EditsTypeOK, CallInv, NEW w \in Writers, AloneInv(w), CallBegins(w) \/ CallGoesOn(w),
         raced \subseteq raced'
  PROVE  AloneInv(w)'
<1> USE DEF AtASide, Written, Fixed, worldVars
<1>0. /\ writer \in [Writers -> Call \cup {Idle}] /\ w \in DOMAIN writer
      /\ writer'[w] \in Call \cup {Idle}
  BY CallMoves, MovesKeeps DEF EditsTypeOK
<1>1. ASSUME NEW at \in {"shape", "write"}, NEW verb, NEW c \in Cells, NEW state,
             Begin(w, at, verb, c, state), verb = "break" => state = "air"
      PROVE  AloneInv(w)'
  <2>1. writer'[w] = [ at |-> at, verb |-> verb, cell |-> c, state |-> state,
                       previous |-> world[c], todo |-> <<>>, next |-> state ]
        /\ world' = world
    BY <1>0, <1>1 DEF Begin
  <2>2. /\ writer'[w].at = at /\ writer'[w].verb = verb /\ writer'[w].cell = c
        /\ writer'[w].state = state /\ writer'[w].previous = world[c]
    BY <2>1
  <2> QED BY <1>1, <2>1, <2>2 DEF AloneInv, OwnInv, SideInv, ShapeInv, BreakInv
<1>2. CASE CallBegins(w)
  BY <1>1, <1>2 DEF CallBegins, SetBlock, BreakBlock, PlaceBlock
<1>3. CASE ShapePlaced(w)
  <2>1. writer[w].at = "shape" /\ writer[w] \in Call /\ world' = world
    BY <1>3, CallTyped DEF ShapePlaced
  <2>2. writer'[w] = [writer[w] EXCEPT !.at = "write", !.state = Shaped(writer[w].cell, writer[w].state)]
    BY <1>0, <1>3, <2>1 DEF ShapePlaced, Call
  <2>3. ~ReadsNeighbours("air") /\ Shaped(writer[w].cell, "air") = "air"
    BY DEF ReadsNeighbours, Shaped
  <2>4. /\ writer'[w].at = "write" /\ writer'[w].cell = writer[w].cell
        /\ writer'[w].previous = writer[w].previous /\ writer'[w].verb = writer[w].verb
        /\ writer'[w].state = Shaped(writer[w].cell, writer[w].state)
        /\ writer[w] # Idle
    BY <2>1, <2>2, IdleIsNoCall DEF Call
  <2> QED BY <2>1, <2>3, <2>4 DEF AloneInv, OwnInv, SideInv, ShapeInv, BreakInv
<1>4. CASE Write(w)
  <2>1. writer[w].at = "write" /\ writer[w] \in Call /\ writer[w].cell \in Cells
    BY <1>4, CallTyped DEF Write
  <2>2. writer'[w] = [writer[w] EXCEPT !.at = "touch"]
    BY <1>0, <1>4 DEF Write
  <2>3. world'[writer[w].cell] = writer[w].state
    BY <1>4, <2>1 DEF Write, EditsTypeOK
  <2>4. /\ writer'[w].at = "touch" /\ writer'[w].cell = writer[w].cell
        /\ writer'[w].verb = writer[w].verb
        /\ writer'[w].state = writer[w].state /\ writer[w] # Idle
    BY <2>1, <2>2, IdleIsNoCall DEF Call
  <2> QED BY <2>3, <2>4 DEF AloneInv, OwnInv, SideInv, ShapeInv, BreakInv
<1>5. CASE QueueUpdates(w)
  <2>1. writer[w].at = "touch" /\ writer[w] \in Call /\ world' = world /\ writer[w] # Idle
    BY <1>5, CallTyped DEF QueueUpdates
  <2>2. writer'[w] \in {[writer[w] EXCEPT !.at = "tell"], Idle,
             [writer[w] EXCEPT !.at = "reshape", !.todo = Beside[writer[w].cell]]}
    BY <1>0, <1>5 DEF QueueUpdates
  <2>3. writer'[w] = Idle \/ /\ writer'[w].at \in {"tell", "reshape"} /\ writer'[w].cell = writer[w].cell
                             /\ writer'[w].verb = writer[w].verb /\ writer'[w].state = writer[w].state
    BY <2>1, <2>2 DEF Call
  <2> QED BY <2>1, <2>3, IdleIsNoCall DEF AloneInv, OwnInv, SideInv, ShapeInv, BreakInv
<1>6. CASE Reshape(w)
  <2>1. writer[w].at = "reshape" /\ writer[w] \in Call /\ world' = world /\ writer[w] # Idle
    BY <1>6, CallTyped DEF Reshape
  <2>2. CASE writer[w].todo # <<>> /\ ReadsNeighbours(world[Head(writer[w].todo)])
    <3>1. writer'[w] = [writer[w] EXCEPT !.at = "around", !.next = world[Head(writer[w].todo)]]
      BY <1>0, <1>6, <2>2 DEF Reshape
    <3>2. /\ writer'[w].at = "around" /\ writer'[w].cell = writer[w].cell
          /\ writer'[w].verb = writer[w].verb /\ writer'[w].state = writer[w].state
          /\ writer'[w].todo = writer[w].todo /\ writer'[w].next = world[Head(writer[w].todo)]
      BY <2>1, <3>1 DEF Call
    <3> QED BY <2>1, <2>2, <3>2 DEF AloneInv, OwnInv, SideInv, ShapeInv, BreakInv, ReadsNeighbours
  <2>3. CASE ~(writer[w].todo # <<>> /\ ReadsNeighbours(world[Head(writer[w].todo)]))
    <3>1. writer'[w] \in {Idle, [writer[w] EXCEPT !.at = "tell"], SideDone(writer[w])}
      BY <1>0, <1>6, <2>3 DEF Reshape
    <3>2. writer'[w] = Idle \/ /\ writer'[w].at \in {"tell", "reshape"} /\ writer'[w].cell = writer[w].cell
                               /\ writer'[w].verb = writer[w].verb /\ writer'[w].state = writer[w].state
      BY <2>1, <3>1 DEF Call, SideDone
    <3> QED BY <2>1, <3>2, IdleIsNoCall DEF AloneInv, OwnInv, SideInv, ShapeInv, BreakInv
  <2> QED BY <2>2, <2>3
<1>7. CASE ReadAround(w)
  <2> DEFINE n == Shaped(Head(writer[w].todo), writer[w].next)
  <2>1. writer[w].at = "around" /\ writer[w] \in Call /\ world' = world /\ writer[w] # Idle
    BY <1>7, CallTyped DEF ReadAround
  <2>2. writer'[w] \in {SideDone(writer[w]), [writer[w] EXCEPT !.at = "fix", !.next = n]}
    BY <1>0, <1>7 DEF ReadAround
  <2>3. ReadsNeighbours(n)
    BY <2>1, JoinedIsShaped DEF AloneInv, OwnInv, SideInv, ShapeInv, BreakInv
  <2> HIDE DEF n
  <2>4. /\ writer'[w].at \in {"reshape", "fix"} /\ writer'[w].cell = writer[w].cell
        /\ writer'[w].verb = writer[w].verb /\ writer'[w].state = writer[w].state
        /\ writer'[w].at = "fix" => writer'[w].next = n /\ writer'[w].todo = writer[w].todo
    BY <2>1, <2>2 DEF Call, SideDone
  <2> QED BY <2>1, <2>3, <2>4 DEF AloneInv, OwnInv, SideInv, ShapeInv, BreakInv, ReadsNeighbours
<1>8. CASE FixWrite(w)
  <2>1. writer[w].at = "fix" /\ writer[w] \in Call /\ writer[w] # Idle /\ writer[w].todo # <<>>
    BY <1>8, CallTyped DEF FixWrite, CallInv
  <2>2. /\ writer[w].cell \in Cells /\ Head(writer[w].todo) \in Cells
        /\ Head(writer[w].todo) # writer[w].cell
    BY <2>1, CallTyped, BesideTyped
  <2>3. writer'[w] = [writer[w] EXCEPT !.at = "fixTouch"]
    BY <1>0, <1>8 DEF FixWrite
  <2>4. /\ world'[Head(writer[w].todo)] = writer[w].next
        /\ world'[writer[w].cell] = world[writer[w].cell]
    BY <1>8, <2>2 DEF FixWrite, EditsTypeOK
  <2>5. /\ writer'[w].at = "fixTouch" /\ writer'[w].cell = writer[w].cell
        /\ writer'[w].verb = writer[w].verb /\ writer'[w].state = writer[w].state
        /\ writer'[w].todo = writer[w].todo /\ writer'[w].next = writer[w].next
    BY <2>1, <2>3 DEF Call
  <2> QED BY <2>1, <2>4, <2>5 DEF AloneInv, OwnInv, SideInv, ShapeInv, BreakInv
<1>9. CASE FixQueue(w)
  <2>1. writer[w].at = "fixTouch" /\ writer[w] \in Call /\ writer[w] # Idle /\ world' = world
    BY <1>9, CallTyped DEF FixQueue
  <2>2. writer'[w] = [writer[w] EXCEPT !.at = "fixTell"]
    BY <1>0, <1>9 DEF FixQueue
  <2>3. /\ writer'[w].at = "fixTell" /\ writer'[w].cell = writer[w].cell
        /\ writer'[w].verb = writer[w].verb /\ writer'[w].state = writer[w].state
        /\ writer'[w].todo = writer[w].todo /\ writer'[w].next = writer[w].next
    BY <2>1, <2>2 DEF Call
  <2> QED BY <2>1, <2>3 DEF AloneInv, OwnInv, SideInv, ShapeInv, BreakInv
<1>10. CASE FixTell(w)
  <2>1. writer[w].at = "fixTell" /\ writer[w] \in Call /\ writer[w] # Idle /\ world' = world
    BY <1>10, CallTyped DEF FixTell
  <2>2. writer'[w] = SideDone(writer[w])
    BY <1>0, <1>10 DEF FixTell
  <2>3. /\ writer'[w].at = "reshape" /\ writer'[w].cell = writer[w].cell
        /\ writer'[w].verb = writer[w].verb /\ writer'[w].state = writer[w].state
    BY <2>1, <2>2 DEF Call, SideDone
  <2> QED BY <2>1, <2>3 DEF AloneInv, OwnInv, SideInv, ShapeInv, BreakInv
<1>11. CASE Tell(w)
  <2>1. writer'[w] = Idle
    BY <1>0, <1>11 DEF Tell
  <2> QED BY <2>1, IdleIsNoCall DEF AloneInv, OwnInv, SideInv, ShapeInv, BreakInv
<1> QED BY <1>2, <1>3, <1>4, <1>5, <1>6, <1>7, <1>8, <1>9, <1>10, <1>11 DEF CallGoesOn

-----------------------------------------------------------------------------
\* Announcing what the world holds of a cell: of that cell everybody will have heard, and
\* of the others nobody has heard less -- or has lost the oldest, and will be told.
LEMMA AnnouncedIsHeard ==
  ASSUME EditsTypeOK, NEW d \in Cells, NEW state \in States, Announce(d, state),
         UNCHANGED <<world, holds, client>>,
         NEW s \in Listeners, NEW c \in Cells, c = d => state = world[d], c # d => Heard(s, c)
  PROVE  Heard(s, c)'
<1> DEFINE m == [cell |-> d, state |-> state]
           old == IF Len(inbox[s]) < Backlog THEN inbox[s] ELSE Tail(inbox[s])
           gone == IF Len(inbox[s]) < Backlog THEN 0 ELSE 1
<1>1. /\ inbox[s] \in Seq(Message) /\ Len(inbox[s]) \in Nat /\ DOMAIN inbox[s] = 1..Len(inbox[s])
      /\ Len(inbox[s]) <= Backlog /\ Backlog \in Nat \ {0}
  BY EditsAssumption, LenProperties DEF EditsTypeOK, Message
<1>2. m \in Message
  BY DEF Message, EditsTypeOK
<1>3. /\ old \in Seq(Message) /\ Len(old) \in Nat /\ Len(old) = Len(inbox[s]) - gone
      /\ \A i \in 1..Len(old) : i + gone \in DOMAIN inbox[s] /\ old[i] = inbox[s][i + gone]
  <2>1. CASE Len(inbox[s]) < Backlog
    BY <1>1, <2>1
  <2>2. CASE Len(inbox[s]) = Backlog
    <3>1. inbox[s] # <<>>
      BY <1>1, <2>2
    <3>2. /\ Tail(inbox[s]) \in Seq(Message) /\ Len(Tail(inbox[s])) = Len(inbox[s]) - 1
          /\ \A i \in 1..Len(inbox[s]) - 1 : Tail(inbox[s])[i] = inbox[s][i + 1]
      BY <1>1, <3>1, HeadTailProperties
    <3> QED BY <1>1, <2>2, <3>2
  <2> QED BY <1>1, <2>1, <2>2
<1>4. inbox'[s] = Append(old, m) /\ lagged'[s] = (lagged[s] \/ Len(inbox[s]) = Backlog)
  BY DEF Announce
<1>5. gone \in {0, 1} /\ (gone = 0 \/ lagged'[s])
  <2>1. CASE Len(inbox[s]) < Backlog
    BY <2>1
  <2>2. CASE Len(inbox[s]) = Backlog
    <3>1. lagged'[s]
      BY <1>4, <2>2
    <3> QED BY <3>1
  <2> QED BY <1>1, <2>1, <2>2
<1> HIDE DEF old, gone
<1>6. /\ DOMAIN inbox'[s] = 1..Len(old) + 1
      /\ inbox'[s][Len(old) + 1] = m
      /\ \A i \in 1..Len(old) : inbox'[s][i] = old[i]
  <2> HIDE DEF m
  <2> QED BY <1>2, <1>3, <1>4, AppendProperties, LenProperties
<1>7. m.cell = d /\ m.state = state
  OBVIOUS
<1> HIDE DEF m
<1>8. ASSUME NEW i \in DOMAIN inbox'[s], LastWord(s, c, i)'
      PROVE  inbox'[s][i].state = world'[c]
  <2>1. /\ inbox'[s][i].cell = c
        /\ \A j \in DOMAIN inbox'[s] : j > i => inbox'[s][j].cell # c
    BY <1>8 DEF LastWord
  <2>2. CASE c = d
    <3>1. i = Len(old) + 1
      <4>1. Len(old) + 1 \in DOMAIN inbox'[s] /\ inbox'[s][Len(old) + 1].cell = c
        BY <1>3, <1>6, <1>7, <2>2
      <4>2. ~(Len(old) + 1 > i)
        BY <2>1, <4>1
      <4> QED BY <1>3, <1>6, <4>2
    <3> QED BY <1>6, <1>7, <2>2, <3>1
  <2>3. CASE c # d
    <3>1. i \in 1..Len(old) /\ i + gone \in DOMAIN inbox[s] /\ inbox'[s][i] = inbox[s][i + gone]
      BY <1>3, <1>6, <1>7, <2>1, <2>3
    <3>2. ASSUME NEW j \in DOMAIN inbox[s], j > i + gone PROVE inbox[s][j].cell # c
      <4>0. j \in 1..Len(inbox[s]) /\ Len(old) = Len(inbox[s]) - gone /\ gone \in {0, 1}
            /\ Len(inbox[s]) \in Nat /\ i \in 1..Len(old) /\ j > i + gone
        BY <1>1, <1>3, <1>5, <3>1, <3>2
      <4>1. /\ j - gone \in 1..Len(old) /\ j - gone > i /\ (j - gone) + gone = j
            /\ j - gone \in 1..Len(old) + 1
        BY ONLY <4>0
      <4>2. inbox'[s][j - gone] = inbox[s][j]
        BY <1>3, <1>6, <4>1
      <4> QED BY <1>6, <2>1, <4>1, <4>2
    <3>3. LastWord(s, c, i + gone)
      BY <2>1, <3>1, <3>2 DEF LastWord
    <3> QED BY <2>3, <3>1, <3>3 DEF Heard
  <2> QED BY <2>2, <2>3
<1>9. ASSUME \A i \in DOMAIN inbox'[s] : inbox'[s][i].cell # c, c \in holds'[s], ~lagged'[s]
      PROVE  client'[s][c] = world'[c]
  <2>1. c # d
    <3>1. Len(old) + 1 \in DOMAIN inbox'[s] /\ inbox'[s][Len(old) + 1].cell = d
      BY <1>3, <1>6, <1>7
    <3> QED BY <1>9, <3>1
  <2>2. gone = 0 /\ ~lagged[s]
    BY <1>4, <1>5, <1>9 DEF EditsTypeOK
  <2>3. ASSUME NEW i \in DOMAIN inbox[s] PROVE inbox[s][i].cell # c
    BY <1>1, <1>3, <1>6, <1>9, <2>2
  <2> QED BY <1>9, <2>1, <2>2, <2>3 DEF Heard
<1> QED BY <1>8, <1>9 DEF Heard

\* A session's turn: what it hears it shows, and what it streams it reads.
LEMMA SessionHears ==
  ASSUME EditsTypeOK, NEW t \in Listeners, SessionStep(t),
         NEW s \in Listeners, NEW c \in Cells, Heard(s, c)
  PROVE  Heard(s, c)'
<1> USE DEF worldVars, channelVars
<1>0. /\ holds \in [Listeners -> SUBSET Cells] /\ client \in [Listeners -> [Cells -> States \cup {None}]]
      /\ lagged \in [Listeners -> BOOLEAN] /\ inbox \in [Listeners -> Seq(Message)]
  BY DEF EditsTypeOK, Message
<1>1. ASSUME NEW d \in Cells, SendColumn(t, d) PROVE Heard(s, c)'
  <2>1. UNCHANGED <<world, inbox, lagged>>
    BY <1>1 DEF SendColumn
  <2>2. c \in holds'[s] =>
          (c \in holds[s] /\ client'[s][c] = client[s][c]) \/ client'[s][c] = world[c]
    BY <1>0, <1>1 DEF SendColumn
  <2> QED BY <2>1, <2>2 DEF Heard, LastWord
<1>2. ASSUME NEW d \in Cells, ForgetColumn(t, d) PROVE Heard(s, c)'
  <2>1. UNCHANGED <<world, inbox, lagged>>
    BY <1>2 DEF ForgetColumn
  <2>2. c \in holds'[s] => c \in holds[s] /\ client'[s][c] = client[s][c]
    BY <1>0, <1>2 DEF ForgetColumn
  <2> QED BY <2>1, <2>2 DEF Heard, LastWord
<1>3. CASE Resend(t)
  <2>1. UNCHANGED <<world, inbox, client>>
    BY <1>3 DEF Resend
  <2>2. c \in holds'[s] => c \in holds[s] /\ lagged'[s] = lagged[s]
    BY <1>0, <1>3 DEF Resend
  <2> QED BY <2>1, <2>2 DEF Heard, LastWord
<1>4. CASE Receive(t)
  <2>1. UNCHANGED <<world, lagged, holds>>
    BY <1>4 DEF Receive
  <2>2. CASE s # t
    <3>1. inbox'[s] = inbox[s] /\ client'[s] = client[s]
      BY <1>0, <1>4, <2>2 DEF Receive
    <3> QED BY <2>1, <3>1 DEF Heard, LastWord
  <2>3. CASE s = t
    <3> DEFINE edit == Head(inbox[s])
    <3>1. /\ inbox[s] \in Seq(Message) /\ inbox[s] # <<>> /\ inbox'[s] = Tail(inbox[s])
          /\ DOMAIN inbox[s] = 1..Len(inbox[s]) /\ Len(inbox[s]) \in Nat \ {0}
      BY <1>0, <1>4, <2>3, LenProperties, EmptySeq DEF Receive
    <3>2. /\ edit = inbox[s][1] /\ edit \in Message
          /\ DOMAIN inbox'[s] = 1..Len(inbox[s]) - 1
          /\ \A i \in 1..Len(inbox[s]) - 1 : inbox'[s][i] = inbox[s][i + 1]
      BY <3>1, HeadTailProperties, LenProperties
    <3>3. client'[s][c] = IF edit.cell = c /\ c \in holds[s] THEN edit.state ELSE client[s][c]
      BY <1>0, <1>4, <2>3, <3>2 DEF Receive, Message
    <3> HIDE DEF edit
    <3>4. ASSUME NEW i \in DOMAIN inbox'[s], LastWord(s, c, i)'
          PROVE  inbox'[s][i].state = world'[c]
      <4>1. i + 1 \in DOMAIN inbox[s] /\ inbox'[s][i] = inbox[s][i + 1]
        BY <3>1, <3>2
      <4>2. ASSUME NEW j \in DOMAIN inbox[s], j > i + 1 PROVE inbox[s][j].cell # c
        <5>1. j - 1 \in DOMAIN inbox'[s] /\ j - 1 > i /\ inbox'[s][j - 1] = inbox[s][j]
          BY <3>1, <3>2, <4>1, <4>2
        <5> QED BY <3>4, <5>1 DEF LastWord
      <4>3. LastWord(s, c, i + 1)
        BY <3>4, <4>1, <4>2 DEF LastWord
      <4> QED BY <2>1, <4>1, <4>3 DEF Heard
    <3>5. ASSUME \A i \in DOMAIN inbox'[s] : inbox'[s][i].cell # c, c \in holds'[s], ~lagged'[s]
          PROVE  client'[s][c] = world'[c]
      <4>1. ASSUME NEW j \in DOMAIN inbox[s], j > 1 PROVE inbox[s][j].cell # c
        <5>1. j - 1 \in DOMAIN inbox'[s] /\ inbox'[s][j - 1] = inbox[s][j]
          BY <3>1, <3>2, <4>1
        <5> QED BY <3>5, <5>1
      <4>2. CASE edit.cell = c
        <5>1. 1 \in DOMAIN inbox[s] /\ LastWord(s, c, 1)
          BY <3>1, <3>2, <4>1, <4>2 DEF LastWord
        <5> QED BY <2>1, <3>2, <3>3, <3>5, <4>2, <5>1 DEF Heard
      <4>3. CASE edit.cell # c
        <5>1. \A j \in DOMAIN inbox[s] : inbox[s][j].cell # c
          BY <3>1, <3>2, <4>1, <4>3
        <5> QED BY <2>1, <3>3, <3>5, <4>3, <5>1 DEF Heard
      <4> QED BY <4>2, <4>3
    <3> QED BY <3>4, <3>5 DEF Heard
  <2> QED BY <2>2, <2>3
<1> QED BY <1>1, <1>2, <1>3, <1>4 DEF SessionStep

\* A cell that nothing happened to.
LEMMA HeardStays ==
  ASSUME NEW s \in Listeners, NEW c \in Cells, Heard(s, c), world'[c] = world[c],
         UNCHANGED <<inbox, lagged, holds, client>>
  PROVE  Heard(s, c)'
BY DEF Heard, LastWord

LEMMA CallHeard ==
  ASSUME EditsTypeOK, CallInv, NEW w \in Writers, AloneInv(w), CallBegins(w) \/ CallGoesOn(w),
         NEW s \in Listeners, NEW c \in Cells \ raced, Owes(w, c) \/ Heard(s, c), ~Owes(w, c)'
  PROVE  Heard(s, c)'
<1> USE DEF AtASide, Written, Fixed, worldVars, channelVars, clientVars
<1>0. /\ writer \in [Writers -> Call \cup {Idle}] /\ w \in DOMAIN writer
      /\ world \in [Cells -> States]
  BY DEF EditsTypeOK
<1>1. Owes(w, c) \/ Heard(s, c)
  OBVIOUS
<1>2. CASE CallBegins(w)
  <2>1. writer[w] = Idle /\ UNCHANGED <<world, inbox, lagged, holds, client>>
    BY <1>2 DEF CallBegins, SetBlock, BreakBlock, PlaceBlock, Begin
  <2>2. ~Owes(w, c)
    BY <2>1, IdleIsNoCall DEF Owes
  <2> QED BY <1>1, <2>1, <2>2, HeardStays
<1>3. CASE ShapePlaced(w)
  <2>1. writer[w].at = "shape" /\ UNCHANGED <<world, inbox, lagged, holds, client>>
    BY <1>3 DEF ShapePlaced
  <2>2. ~Owes(w, c)
    BY <2>1 DEF Owes
  <2> QED BY <1>1, <2>1, <2>2, HeardStays
<1>4. CASE Write(w)
  <2>1. /\ writer[w].at = "write" /\ writer[w] \in Call /\ writer[w].cell \in Cells
        /\ world' = [world EXCEPT ![writer[w].cell] = writer[w].state]
        /\ UNCHANGED <<inbox, lagged, holds, client>>
    BY <1>4, CallTyped DEF Write
  <2>2. writer'[w] = [writer[w] EXCEPT !.at = "touch"]
    BY <1>0, <1>4 DEF Write
  <2>3. /\ writer'[w].at = "touch" /\ writer'[w].cell = writer[w].cell
        /\ writer'[w].previous = writer[w].previous /\ writer'[w].state = writer[w].state
    BY <2>1, <2>2 DEF Call
  <2>4. ~Owes(w, c)
    BY <2>1 DEF Owes
  <2>5. c # writer[w].cell \/ writer[w].previous = writer[w].state
    BY <2>3 DEF Owes
  <2>6. c = writer[w].cell => world[c] = writer[w].previous
    BY <2>1, IdleIsNoCall DEF AloneInv, OwnInv
  <2>7. world'[c] = world[c]
    BY <1>0, <2>1, <2>5, <2>6
  <2> QED BY <1>1, <2>1, <2>4, <2>7, HeardStays
<1>5. CASE QueueUpdates(w)
  <2>1. /\ writer[w].at = "touch" /\ writer[w] \in Call /\ writer[w] # Idle
        /\ UNCHANGED <<world, inbox, lagged, holds, client>>
    BY <1>5, CallTyped DEF QueueUpdates
  <2>2. \/ writer'[w] = [writer[w] EXCEPT !.at = "tell"]
        \/ writer'[w] = Idle /\ writer[w].verb = "break" /\ writer[w].previous = "air"
        \/ writer'[w] = [writer[w] EXCEPT !.at = "reshape", !.todo = Beside[writer[w].cell]]
    <3>1. writer'[w] = IF writer[w].verb = "set" THEN [writer[w] EXCEPT !.at = "tell"]
                       ELSE IF writer[w].verb = "break" /\ writer[w].previous = "air" THEN Idle
                       ELSE [writer[w] EXCEPT !.at = "reshape", !.todo = Beside[writer[w].cell]]
      BY <1>0, <1>5 DEF QueueUpdates
    <3> HIDE DEF Idle
    <3> QED BY <3>1
  <2>3. \/ writer'[w] = Idle /\ writer[w].verb = "break" /\ writer[w].previous = "air"
        \/ /\ writer'[w].at \in {"tell", "reshape"} /\ writer'[w].cell = writer[w].cell
           /\ writer'[w].previous = writer[w].previous /\ writer'[w].state = writer[w].state
    BY <2>1, <2>2 DEF Call
  <2>4. ~Owes(w, c)
    BY <2>1, <2>3 DEF Owes, AloneInv, BreakInv
  <2> QED BY <1>1, <2>1, <2>4, HeardStays
<1>6. CASE Reshape(w) \/ ReadAround(w) \/ FixQueue(w)
  <2>1. /\ writer[w].at \in {"reshape", "around", "fixTouch"} /\ writer[w] \in Call /\ writer[w] # Idle
        /\ UNCHANGED <<world, inbox, lagged, holds, client>>
    BY <1>6, CallTyped DEF Reshape, ReadAround, FixQueue
  <2>2. \/ writer'[w] = Idle /\ writer[w].previous = writer[w].state /\ writer[w].at = "reshape"
        \/ /\ writer'[w].at \in Written /\ writer'[w].cell = writer[w].cell
           /\ writer'[w].previous = writer[w].previous /\ writer'[w].state = writer[w].state
           /\ writer[w].at = "fixTouch" => writer'[w].at = "fixTell" /\ writer'[w].todo = writer[w].todo
    <3>1. CASE Reshape(w)
      <4>1. \/ writer'[w] = Idle /\ writer[w].previous = writer[w].state
            \/ writer'[w] = [writer[w] EXCEPT !.at = "tell"]
            \/ writer'[w] = SideDone(writer[w])
            \/ writer'[w] = [writer[w] EXCEPT !.at = "around", !.next = world[Head(writer[w].todo)]]
        BY <1>0, <3>1 DEF Reshape
      <4>2. writer[w].at = "reshape"
        BY <3>1 DEF Reshape
      <4> QED BY <2>1, <4>1, <4>2 DEF Call, SideDone
    <3>2. CASE ReadAround(w)
      <4>1. \/ writer'[w] = SideDone(writer[w])
            \/ writer'[w] = [writer[w] EXCEPT !.at = "fix",
                               !.next = Shaped(Head(writer[w].todo), writer[w].next)]
        BY <1>0, <3>2 DEF ReadAround
      <4>2. writer[w].at = "around"
        BY <3>2 DEF ReadAround
      <4> QED BY <2>1, <4>1, <4>2 DEF Call, SideDone
    <3>3. CASE FixQueue(w)
      <4>1. writer'[w] = [writer[w] EXCEPT !.at = "fixTell"]
        BY <1>0, <3>3 DEF FixQueue
      <4> QED BY <2>1, <4>1 DEF Call
    <3> QED BY <1>6, <3>1, <3>2, <3>3
  <2>3. ~Owes(w, c)
    BY <2>1, <2>2 DEF Owes
  <2> QED BY <1>1, <2>1, <2>3, HeardStays
<1>7. CASE FixWrite(w)
  <2>1. /\ writer[w].at = "fix" /\ writer[w] \in Call /\ writer[w].todo # <<>>
        /\ world' = [world EXCEPT ![Head(writer[w].todo)] = writer[w].next]
        /\ UNCHANGED <<inbox, lagged, holds, client>>
    BY <1>7, CallTyped DEF FixWrite, CallInv
  <2>2. writer'[w] = [writer[w] EXCEPT !.at = "fixTouch"]
    BY <1>0, <1>7 DEF FixWrite
  <2>3. /\ writer'[w].at = "fixTouch" /\ writer'[w].cell = writer[w].cell
        /\ writer'[w].previous = writer[w].previous /\ writer'[w].state = writer[w].state
        /\ writer'[w].todo = writer[w].todo
    BY <2>1, <2>2 DEF Call
  <2>4. ~Owes(w, c) /\ c # Head(writer[w].todo)
    BY <2>1, <2>3 DEF Owes
  <2>5. world'[c] = world[c]
    BY <1>0, <2>1, <2>4
  <2> QED BY <1>1, <2>1, <2>4, <2>5, HeardStays
<1>8. CASE FixTell(w)
  <2>1. /\ writer[w].at = "fixTell" /\ writer[w] \in Call /\ writer[w].todo # <<>>
        /\ Announce(Head(writer[w].todo), writer[w].next)
        /\ UNCHANGED <<world, holds, client>>
    BY <1>8, CallTyped DEF FixTell, CallInv
  <2>2. /\ Head(writer[w].todo) \in Cells /\ writer[w].next \in States
        /\ c = Head(writer[w].todo) => world[c] = writer[w].next
    BY <2>1, CallTyped DEF AloneInv, SideInv
  <2>3. writer'[w] = SideDone(writer[w])
    BY <1>0, <1>8 DEF FixTell
  <2>4. /\ writer'[w].at = "reshape" /\ writer'[w].cell = writer[w].cell
        /\ writer'[w].previous = writer[w].previous /\ writer'[w].state = writer[w].state
    BY <2>1, <2>3 DEF Call, SideDone
  <2>5. c = Head(writer[w].todo) \/ ~Owes(w, c)
    BY <2>1, <2>4 DEF Owes
  <2> QED BY <1>1, <2>1, <2>2, <2>5, AnnouncedIsHeard
<1>9. CASE Tell(w)
  <2>1. /\ writer[w].at = "tell" /\ writer[w].cell \in Cells
        /\ Announce(writer[w].cell, writer[w].state)
        /\ UNCHANGED <<world, holds, client>>
    BY <1>9, CallTyped DEF Tell
  <2>2. writer[w].state \in States /\ (c = writer[w].cell => world[c] = writer[w].state)
    BY <2>1, CallTyped, IdleIsNoCall DEF AloneInv, OwnInv, Tell
  <2>3. c = writer[w].cell \/ ~Owes(w, c)
    BY <2>1 DEF Owes
  <2> QED BY <1>1, <2>1, <2>2, <2>3, AnnouncedIsHeard
<1> QED BY <1>2, <1>3, <1>4, <1>5, <1>6, <1>7, <1>8, <1>9 DEF CallGoesOn

\* What one thread writes, another that is at a cell of its own does not see.
LEMMA OthersStay ==
  ASSUME EditsTypeOK, CallInv, RacedInv, NEW w \in Writers, CallBegins(w) \/ CallGoesOn(w),
         raced \subseteq raced', NEW v \in Writers, v # w, AloneInv(v)
  PROVE  writer'[v] = writer[v] /\ AloneInv(v)'
<1> USE DEF worldVars
<1>1. writer'[v] = writer[v]
  BY CallMoves DEF Moves, EditsTypeOK
<1>2. ASSUME NEW c \in Cells, On(v, c), c \notin raced PROVE world'[c] = world[c]
  <2>1. ~On(w, c)
    BY <1>2 DEF RacedInv, Contested
  <2>2. CASE Write(w)
    <3>1. writer[w].at = "write" /\ c # writer[w].cell
      BY <2>1, <2>2, IdleIsNoCall DEF Write, On
    <3> QED BY <2>2, <3>1 DEF Write, EditsTypeOK
  <2>3. CASE FixWrite(w)
    <3>1. writer[w].at = "fix" /\ c # Head(writer[w].todo)
      BY <2>1, <2>3 DEF FixWrite, On, AtASide
    <3> QED BY <2>3, <3>1 DEF FixWrite, EditsTypeOK
  <2> QED BY <2>2, <2>3 DEF CallBegins, CallGoesOn, SetBlock, BreakBlock, PlaceBlock, Begin,
         ShapePlaced, QueueUpdates, Reshape, ReadAround, FixQueue, FixTell, Tell
<1>3. OwnInv(v)'
  <2> SUFFICES ASSUME writer[v] # Idle, writer[v].cell \notin raced PROVE OwnInv(v)'
    BY <1>1 DEF OwnInv
  <2>1. writer[v].cell \in Cells /\ On(v, writer[v].cell)
    BY DEF EditsTypeOK, Call, On
  <2> QED BY <1>1, <1>2, <2>1 DEF AloneInv, OwnInv
<1>4. SideInv(v)'
  <2> SUFFICES ASSUME writer[v].at \in AtASide, Head(writer[v].todo) \notin raced PROVE SideInv(v)'
    BY <1>1 DEF SideInv
  <2>1. writer[v].at # "idle" /\ writer[v].todo # <<>>
    BY IdleIsNoCall DEF CallInv, AtASide
  <2>2. Head(writer[v].todo) \in Cells /\ On(v, Head(writer[v].todo))
    BY <2>1, CallTyped DEF On
  <2> QED BY <1>1, <1>2, <2>2 DEF AloneInv, SideInv, ReadsNeighbours
<1> QED BY <1>1, <1>3, <1>4 DEF AloneInv, ShapeInv, BreakInv

MeetInv == RacedInv /\ (\A w \in Writers : AloneInv(w)) /\ HeardInv

LEMMA MeetInductive ==
  EditsTypeOK /\ CallInv /\ MeetInv /\ [EditNext]_editVars => MeetInv'
<1> SUFFICES ASSUME EditsTypeOK, CallInv, MeetInv, [EditNext]_editVars
             PROVE  RacedInv' /\ (\A w \in Writers : AloneInv(w)') /\ HeardInv'
  BY DEF MeetInv
<1>0. RacedInv /\ (\A w \in Writers : AloneInv(w)) /\ HeardInv
  BY DEF MeetInv
<1>1. raced \subseteq raced'
  BY DEF EditNext, editVars
<1>2. RacedInv'
  <2>1. CASE UNCHANGED editVars
    BY <1>0, <2>1 DEF RacedInv, Contested, On, editVars, codeVars
  <2> QED BY <2>1 DEF EditNext, RacedInv
<1>3. ASSUME NEW w \in Writers, CallBegins(w) \/ CallGoesOn(w)
      PROVE  (\A v \in Writers : AloneInv(v)') /\ HeardInv'
  <2>1. AloneInv(w)'
    BY <1>0, <1>1, <1>3, AloneStep
  <2>2. ASSUME NEW v \in Writers, v # w PROVE writer'[v] = writer[v] /\ AloneInv(v)'
    BY <1>0, <1>1, <1>3, <2>2, OthersStay
  <2>3. ASSUME NEW s \in Listeners, NEW c \in Cells, c \notin raced
        PROVE  Heard(s, c)' \/ \E v \in Writers : Owes(v, c)'
    <3>1. Heard(s, c) \/ \E v \in Writers : Owes(v, c)
      BY <1>0, <2>3 DEF HeardInv
    <3>2. ASSUME NEW v \in Writers, v # w, Owes(v, c) PROVE Owes(v, c)'
      BY <2>2, <3>2 DEF Owes
    <3>3. Owes(w, c)' \/ Heard(s, c)' \/ ~(Owes(w, c) \/ Heard(s, c))
      BY <1>0, <1>3, <2>3, CallHeard
    <3> QED BY <3>1, <3>2, <3>3
  <2>4. HeardInv'
    BY <1>1, <2>3 DEF HeardInv
  <2> QED BY <2>1, <2>2, <2>4
<1>4. ASSUME UNCHANGED <<world, writer>>,
             \A s \in Listeners, c \in Cells : Heard(s, c) => Heard(s, c)'
      PROVE  (\A v \in Writers : AloneInv(v)') /\ HeardInv'
  <2>1. ASSUME NEW v \in Writers PROVE AloneInv(v)'
    <3>1. AloneInv(v)
      BY <1>0
    <3> QED BY <1>1, <1>4, <3>1 DEF AloneInv, OwnInv, SideInv, ShapeInv, BreakInv, ReadsNeighbours
  <2>2. \A v \in Writers, c \in Cells : Owes(v, c) => Owes(v, c)'
    BY <1>4 DEF Owes
  <2>3. HeardInv'
    BY <1>0, <1>1, <1>4, <2>2 DEF HeardInv
  <2> QED BY <2>1, <2>3
<1>5. ASSUME NEW t \in Listeners, SessionStep(t) PROVE (\A v \in Writers : AloneInv(v)') /\ HeardInv'
  <2>1. UNCHANGED <<world, writer>>
    BY <1>5 DEF SessionStep, SendColumn, ForgetColumn, Receive, Resend, worldVars
  <2> QED BY <1>4, <1>5, <2>1, SessionHears
<1>6. ASSUME TakeUpdates \/ Examine \/ UNCHANGED editVars
      PROVE  (\A v \in Writers : AloneInv(v)') /\ HeardInv'
  <2>1. UNCHANGED <<world, writer, inbox, lagged, holds, client>>
    BY <1>6 DEF TakeUpdates, Examine, editVars, codeVars, worldVars, channelVars, clientVars
  <2> QED BY <1>4, <2>1, HeardStays
<1>7. \/ \E w \in Writers : CallBegins(w) \/ CallGoesOn(w)
      \/ \E t \in Listeners : SessionStep(t)
      \/ TakeUpdates \/ Examine \/ UNCHANGED editVars
  BY DEF EditNext, EditStep
<1>8. (\A v \in Writers : AloneInv(v)') /\ HeardInv'
  BY ONLY <1>3, <1>5, <1>6, <1>7
<1> QED BY <1>2, <1>8

LEMMA MeetInitially == Init => MeetInv
<1> SUFFICES ASSUME Init PROVE RacedInv /\ (\A w \in Writers : AloneInv(w)) /\ HeardInv
  BY DEF MeetInv
<1>1. \A w \in Writers : writer[w] = Idle
  BY DEF Init
<1>2. ASSUME NEW w \in Writers PROVE AloneInv(w)
  BY <1>1, IdleIsNoCall DEF AloneInv, OwnInv, SideInv, ShapeInv, BreakInv, AtASide
<1>3. \A s \in Listeners : DOMAIN inbox[s] = {} /\ holds[s] = {}
  BY DEF Init
<1>4. HeardInv
  BY <1>3 DEF HeardInv, Heard
<1>5. RacedInv
  BY <1>1, IdleIsNoCall DEF RacedInv, Contested, On, AtASide
<1> QED BY <1>2, <1>4, <1>5

\* Whenever nobody is in the middle of a change, a client whose session has
\* heard everything shows the world in every column it holds and in every cell
\* no two threads were at together: any number of threads writing at once,
\* lags, streaming and forgetting included.
THEOREM EditsAreSeen == EditSpec => []EverybodySees
<1>1. EditsTypeOK /\ MeetInv => EverybodySees
  <2> SUFFICES ASSUME EditsTypeOK, MeetInv, \A w \in Writers : writer[w] = Idle,
                      NEW s \in Listeners, inbox[s] = <<>>, ~lagged[s],
                      NEW c \in holds[s], c \in Cells, c \notin raced
               PROVE  client[s][c] = world[c]
    BY DEF EverybodySees, Shown, Quiet
  <2>1. \A w \in Writers : ~Owes(w, c)
    BY IdleIsNoCall DEF Owes, Written, Fixed
  <2>2. DOMAIN inbox[s] = {}
    OBVIOUS
  <2> QED BY <2>1, <2>2 DEF MeetInv, HeardInv, Heard
<1> QED BY <1>1, MeetInitially, MeetInductive, EditsTyped, PTL DEF EditSpec

\* Growing an arm replaces a block that has arms by the same block in another
\* shape, in every cell no two threads were at together -- whatever was written
\* next to it since it looked around.
THEOREM EditsReshapeOnly == EditSpec => ReshapeKeepsTheBlock
<1>1. EditsTypeOK /\ CallInv /\ MeetInv /\ [EditNext]_editVars => [FixesFences(Cells \ raced)]_editVars
  <2> SUFFICES ASSUME EditsTypeOK, CallInv, MeetInv, EditStep, NEW me \in Writers,
                      NEW c \in Cells, c \notin raced,
                      writer[me].at = "fix", writer'[me].at = "fixTouch", world'[c] # world[c]
               PROVE  ReadsNeighbours(world[c]) /\ ReadsNeighbours(world'[c])
    BY DEF FixesFences, EditNext
  <2>1. FixWrite(me)
    <3>1. \A t \in Listeners : SessionStep(t) => writer' = writer
      BY DEF SessionStep, SendColumn, ForgetColumn, Receive, Resend
    <3>2. TakeUpdates \/ Examine => writer' = writer
      BY DEF TakeUpdates, Examine
    <3>3. CallBegins(me) => writer[me] = Idle
      BY DEF CallBegins, SetBlock, BreakBlock, PlaceBlock, Begin
    <3>4. ASSUME NEW w \in Writers, w # me, CallBegins(w) \/ CallGoesOn(w) PROVE writer'[me] = writer[me]
      BY <3>4, CallMoves DEF Moves, EditsTypeOK
    <3>5. CallBegins(me) \/ CallGoesOn(me)
      BY <3>1, <3>2, <3>4 DEF EditStep
    <3> QED BY <3>3, <3>5, IdleIsNoCall DEF CallGoesOn, ShapePlaced, Write, QueueUpdates, Reshape,
              ReadAround, FixQueue, FixTell, Tell
  <2>2. c = Head(writer[me].todo) /\ world'[c] = writer[me].next
    BY <2>1 DEF FixWrite, EditsTypeOK
  <2> QED BY <2>2 DEF MeetInv, AloneInv, SideInv, ShapeInv, AtASide
<1> QED BY <1>1, MeetInitially, MeetInductive, EditsTyped, PTL DEF EditSpec, ReshapeKeepsTheBlock
=============================================================================
