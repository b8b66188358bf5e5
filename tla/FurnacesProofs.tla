--------------------------- MODULE FurnacesProofs ---------------------------
(***************************************************************************)
(* The furnaces tick as if every block had one and each burned at every    *)
(* tick, for any blocks, players, recipes and fuels.                       *)
(*                                                                         *)
(* The argument: a call under the lock takes a store of furnaces that is   *)
(* sound -- every index has one owner, and the tick list has exactly those *)
(* with something to do -- to another sound one, and changes what is held  *)
(* at the block it was for and nowhere else.  What the tick passes over is *)
(* what a tick would leave as it is.                                       *)
(***************************************************************************)
EXTENDS Furnaces, SequenceTheorems, FiniteSetTheorems, WellFoundedInduction, TLAPS

-----------------------------------------------------------------------------
(***************************************************************************)
(* One furnace.                                                            *)
(***************************************************************************)
LEMMA EmptyIsNoStack == Empty \notin Stack /\ Empty.count = 0 /\ Empty.kind \notin Kinds
BY StacksAssumption DEF Empty, Stack

LEMMA NewFurnaceFacts ==
  /\ NewFurnace \in FurnaceState /\ ~IsActive(NewFurnace) /\ IsBare(NewFurnace)
BY StacksAssumption DEF NewFurnace, FurnaceState, IsActive, IsBare, HasRecipe, Fire

LEMMA FireCools == \A n \in Fire : n \in Nat /\ (n > 0 => n - 1 \in Fire)
BY StacksAssumption DEF Fire

LEMMA LessTyped ==
  ASSUME NEW s \in Stack, NEW n \in Nat
  PROVE  Less(s, n) \in Stack \cup {Empty}
BY DEF Less, Stack

\* Lighting leaves what can be in the slots, and a fire the fuel allows.
LEMMA LightTyped ==
  ASSUME NEW f \in FurnaceState
  PROVE  /\ Light(f) \in FurnaceState
         /\ Light(f).input = f.input /\ Light(f).output = f.output /\ Light(f).cooking = f.cooking
<1>1. CASE f.fuel = Empty \/ f.fuel.kind \notin Burning
  BY <1>1 DEF Light
<1>2. CASE f.fuel # Empty /\ f.fuel.kind \in Burning
  <2>1. f.fuel \in Stack /\ f.fuel.kind \in Kinds
    BY <1>2 DEF FurnaceState, Stack
  <2>2. Burn[f.fuel.kind] \in Fire
    BY <2>1, StacksAssumption DEF Fire
  <2> DEFINE left == IF f.fuel.count > 1 THEN Less(f.fuel, 1)
                     ELSE IF Remainder[f.fuel.kind] = NoKind THEN Empty
                     ELSE One(Remainder[f.fuel.kind])
  <2>3. left \in Stack \cup {Empty}
    <3>1. Remainder[f.fuel.kind] # NoKind => One(Remainder[f.fuel.kind]) \in Stack
      BY <2>1, StacksAssumption DEF One, Stack
    <3> QED BY <2>1, <3>1, LessTyped
  <2>4. Light(f) = [f EXCEPT !.lit = Burn[f.fuel.kind], !.fuel = left]
    BY <1>2 DEF Light
  <2> HIDE DEF left
  <2> QED BY <2>2, <2>3, <2>4 DEF FurnaceState
<1> QED BY <1>1, <1>2

LEMMA TickTyped == \A f \in FurnaceState : FurnaceTick(f) \in FurnaceState
<1> SUFFICES ASSUME NEW f \in FurnaceState PROVE FurnaceTick(f) \in FurnaceState
  OBVIOUS
<1> DEFINE burnt == [f EXCEPT !.lit = IF @ > 0 THEN @ - 1 ELSE 0]
           tended == burnt.lit > 0 \/ (f.fuel # Empty /\ f.input # Empty)
           hot == IF burnt.lit = 0 /\ CanBurn(f) THEN Light(burnt) ELSE burnt
<1>1. FurnaceTick(f) = IF ~tended THEN Cool(burnt)
                       ELSE IF hot.lit = 0 \/ ~CanBurn(f) THEN [hot EXCEPT !.cooking = 0]
                       ELSE IF hot.cooking + 1 < CookTicks THEN [hot EXCEPT !.cooking = @ + 1]
                       ELSE Smelt([hot EXCEPT !.cooking = 0])
  BY DEF FurnaceTick
<1>2. burnt \in FurnaceState
  BY FireCools DEF FurnaceState, Fire
<1>3. hot \in FurnaceState /\ hot.input = f.input /\ hot.output = f.output
  <2>1. burnt.input = f.input /\ burnt.output = f.output
    BY DEF FurnaceState
  <2> HIDE DEF burnt
  <2> QED BY <1>2, <2>1, LightTyped
<1> HIDE DEF burnt, hot, tended
<1>4. Cool(burnt) \in FurnaceState
  BY <1>2, StacksAssumption DEF Cool, CoolSpeed, FurnaceState
<1>5. [hot EXCEPT !.cooking = 0] \in FurnaceState
  BY <1>3, StacksAssumption DEF FurnaceState
<1>6. ASSUME hot.cooking + 1 < CookTicks PROVE [hot EXCEPT !.cooking = @ + 1] \in FurnaceState
  BY <1>3, <1>6, StacksAssumption DEF FurnaceState
<1>7. ASSUME CanBurn(f) PROVE Smelt([hot EXCEPT !.cooking = 0]) \in FurnaceState
  <2> DEFINE cold == [hot EXCEPT !.cooking = 0]
             made == Cooked[cold.input.kind]
  <2>1. cold \in FurnaceState /\ cold.input = f.input /\ cold.output = f.output
    BY <1>3, <1>5 DEF FurnaceState
  <2> HIDE DEF cold
  <2>2. f.input \in Stack /\ f.input.kind \in Kinds /\ made \in Stack
    <3>1. f.input # Empty /\ Cooked[f.input.kind] # Empty
      BY <1>7 DEF CanBurn, HasRecipe
    <3>2. f.input \in Stack
      BY <3>1 DEF FurnaceState
    <3>3. f.input.kind \in Kinds
      BY <3>2 DEF Stack
    <3> QED BY <2>1, <3>1, <3>2, <3>3, StacksAssumption
  <2>3. f.output.count \in Nat
    BY DEF FurnaceState, Stack, Empty
  <2>4. [made EXCEPT !.count = cold.output.count + made.count] \in Stack
    BY <2>1, <2>2, <2>3 DEF Stack
  <2>5. Less(cold.input, 1) \in Stack \cup {Empty}
    BY <2>1, <2>2, LessTyped
  <2> HIDE DEF made
  <2>6. Smelt(cold) = [cold EXCEPT !.output = [made EXCEPT !.count = cold.output.count + made.count],
                                   !.input = Less(cold.input, 1), !.banked = TRUE]
    BY DEF Smelt, made
  <2>7. Smelt(cold) \in FurnaceState
    BY <2>1, <2>4, <2>5, <2>6 DEF FurnaceState
  <2> QED BY <2>7 DEF cold
<1> QED BY <1>1, <1>4, <1>5, <1>6, <1>7

\* A furnace with nothing to do is as a tick leaves it: it need not be ticked.
LEMMA IdleTick == \A f \in FurnaceState : ~IsActive(f) => FurnaceTick(f) = f
<1> SUFFICES ASSUME NEW f \in FurnaceState, ~IsActive(f) PROVE FurnaceTick(f) = f
  OBVIOUS
<1>1. f.lit = 0 /\ f.cooking = 0 /\ (CanBurn(f) => f.fuel = Empty \/ f.fuel.kind \notin Burning)
  BY FireCools, StacksAssumption DEF IsActive, FurnaceState, CanBurn
<1>2. [f EXCEPT !.lit = 0] = f /\ [f EXCEPT !.cooking = 0] = f
  BY <1>1 DEF FurnaceState
<1>3. [f EXCEPT !.lit = IF @ > 0 THEN @ - 1 ELSE 0] = f
  BY <1>1, <1>2
<1>4. Cool(f) = f
  BY <1>1, <1>2 DEF Cool, CoolSpeed
<1>5. CanBurn(f) => Light(f) = f
  BY <1>1 DEF Light
<1> QED BY <1>1, <1>2, <1>3, <1>4, <1>5 DEF FurnaceTick

-----------------------------------------------------------------------------
(***************************************************************************)
(* A store of furnaces.                                                    *)
(***************************************************************************)
\* Indexed, of any store.
Owned(w) ==
  /\ w \in World
  /\ Len(w.active) = Len(w.cells)
  /\ \A b \in Blocks : w.at[b] # 0 =>
       /\ w.at[b] \in DOMAIN w.cells
       /\ w.cells[w.at[b]].at = b
  /\ \A i \in DOMAIN w.cells :
       IF w.cells[i] = Gone THEN \E j \in DOMAIN w.free : w.free[j] = i
                            ELSE w.at[w.cells[i].at] = i
  /\ \A j \in DOMAIN w.free :
       /\ w.free[j] \in DOMAIN w.cells
       /\ w.cells[w.free[j]] = Gone
       /\ \A k \in DOMAIN w.free : w.free[j] = w.free[k] => j = k

\* The tick list is right about one index.
Listed(w, i) ==
  /\ w.active[i] = IF IsActive(w.cells[i].furnace) THEN 1 ELSE 0
  /\ w.cells[i].active = IsActive(w.cells[i].furnace)

Sound(w) == Owned(w) /\ \A i \in DOMAIN w.cells : Listed(w, i)

\* What is held at a block; FurnaceAt is that of the world.
HeldAt(w, b) == IF w.at[b] = 0 THEN NewFurnace ELSE w.cells[w.at[b]].furnace

LEMMA GoneIsNoCell == Gone \notin Cell /\ \A cell \in Cell : cell.at \in Blocks
BY FurnacesAssumption DEF Gone, Cell

\* One entry of a list changed.
LEMMA EntryChanged ==
  ASSUME NEW S, NEW s \in Seq(S), NEW i \in DOMAIN s, NEW x \in S, NEW t, t = [s EXCEPT ![i] = x]
  PROVE  /\ t \in Seq(S) /\ Len(t) = Len(s) /\ DOMAIN t = 1..Len(s)
         /\ \A j \in 1..Len(s) : t[j] = IF j = i THEN x ELSE s[j]
<1>1. i \in 1..Len(s)
  BY LenProperties
<1>2. [s EXCEPT ![i] = x] \in Seq(S) /\ Len([s EXCEPT ![i] = x]) = Len(s)
  BY <1>1, ExceptSeq
<1>3. DOMAIN t = 1..Len(t)
  BY <1>2, LenProperties
<1> QED BY <1>1, <1>2, <1>3, LenProperties

LEMMA ListIsSeq ==
  ASSUME NEW S, NEW n \in Nat, NEW f \in [1..n -> S]
  PROVE  f \in Seq(S) /\ Len(f) = n /\ DOMAIN f = 1..n
OBVIOUS

\* The lists of a store, as functions.
LEMMA OwnedParts ==
  ASSUME NEW w, w \in World, Len(w.active) = Len(w.cells)
  PROVE  /\ w.cells \in Seq(Cell \cup {Gone}) /\ Len(w.cells) \in Nat
         /\ DOMAIN w.cells = 1..Len(w.cells) /\ DOMAIN w.active = 1..Len(w.cells)
         /\ \A i \in DOMAIN w.cells : w.cells[i] \in Cell \cup {Gone} /\ w.active[i] \in Nat
         /\ w.active \in Seq(Nat) /\ w.at \in [Blocks -> Nat]
         /\ w.free \in Seq(Nat) /\ Len(w.free) \in Nat /\ DOMAIN w.free = 1..Len(w.free)
         /\ \A j \in DOMAIN w.free : w.free[j] \in Nat
         /\ w = [cells |-> w.cells, at |-> w.at, free |-> w.free, active |-> w.active]
<1>1. /\ w.cells \in Seq(Cell \cup {Gone}) /\ w.active \in Seq(Nat)
      /\ w.at \in [Blocks -> Nat] /\ w.free \in Seq(Nat)
      /\ w = [cells |-> w.cells, at |-> w.at, free |-> w.free, active |-> w.active]
  BY DEF World
<1>2. /\ Len(w.cells) \in Nat /\ DOMAIN w.cells = 1..Len(w.cells)
      /\ DOMAIN w.active = 1..Len(w.active)
      /\ Len(w.free) \in Nat /\ DOMAIN w.free = 1..Len(w.free)
  BY <1>1, LenProperties
<1>3. \A i \in 1..Len(w.cells) : w.cells[i] \in Cell \cup {Gone}
  BY <1>1, ElementOfSeq
<1>4. \A i \in 1..Len(w.active) : w.active[i] \in Nat
  BY <1>1, ElementOfSeq
<1>5. \A j \in 1..Len(w.free) : w.free[j] \in Nat
  BY <1>1, ElementOfSeq
<1> QED BY <1>1, <1>2, <1>3, <1>4, <1>5

\* What changes in the cells but who they are for leaves every index its owner.
LEMMA FrameOwned ==
  ASSUME NEW w, NEW v, Owned(w), v \in World, v.at = w.at, v.free = w.free,
         Len(v.cells) = Len(w.cells), Len(v.active) = Len(w.cells),
         \A i \in DOMAIN w.cells : /\ v.cells[i] = Gone <=> w.cells[i] = Gone
                                   /\ v.cells[i].at = w.cells[i].at
  PROVE  Owned(v)
<1>1. DOMAIN v.cells = DOMAIN w.cells /\ Len(w.active) = Len(w.cells) /\ w \in World
  BY OwnedParts DEF Owned
<1> QED BY <1>1 DEF Owned

\* Who holds what, where every index has one owner.
LEMMA OwnersApart ==
  ASSUME NEW w, Owned(w)
  PROVE  /\ \A b \in Blocks : w.at[b] # 0 =>
              /\ w.at[b] \in DOMAIN w.cells /\ w.cells[w.at[b]] \in Cell
              /\ w.cells[w.at[b]].at = b
         /\ \A b, c \in Blocks : w.at[b] # 0 /\ w.at[b] = w.at[c] => b = c
         /\ \A b \in Blocks : HeldAt(w, b) \in FurnaceState
<1>1. /\ w \in World /\ Len(w.active) = Len(w.cells)
      /\ \A i \in DOMAIN w.cells : w.cells[i] \in Cell \cup {Gone}
  BY OwnedParts DEF Owned
<1>2. ASSUME NEW b \in Blocks, w.at[b] # 0
      PROVE  w.at[b] \in DOMAIN w.cells /\ w.cells[w.at[b]] \in Cell /\ w.cells[w.at[b]].at = b
  <2>1. w.at[b] \in DOMAIN w.cells /\ w.cells[w.at[b]].at = b
    BY <1>2 DEF Owned
  <2>2. w.cells[w.at[b]] # Gone
    BY <2>1, FurnacesAssumption DEF Gone
  <2> QED BY <1>1, <2>1, <2>2
<1>3. \A b \in Blocks : HeldAt(w, b) \in FurnaceState
  BY <1>2, NewFurnaceFacts DEF HeldAt, Cell
<1> QED BY <1>2, <1>3

-----------------------------------------------------------------------------
(***************************************************************************)
(* Furnaces::with, call by call.                                           *)
(***************************************************************************)
LEMMA EnsureFacts ==
  ASSUME NEW w, Sound(w), NEW b \in Blocks, NEW m, m = Ensure(w, b)
  PROVE  /\ Sound(m) /\ m.at[b] # 0
         /\ \A c \in Blocks : HeldAt(m, c) = HeldAt(w, c)
<1> DEFINE i == NextIndex(w)
           cell == [at |-> b, furnace |-> NewFurnace, active |-> FALSE]
<1>1. CASE w.at[b] # 0
  BY <1>1 DEF Ensure
<1>2. CASE w.at[b] = 0
  <2>1. /\ w \in World /\ Len(w.active) = Len(w.cells) /\ Owned(w)
    BY DEF Sound, Owned
  <2>2. cell \in Cell /\ cell # Gone /\ cell.at = b /\ cell.furnace = NewFurnace /\ cell.active = FALSE
    BY NewFurnaceFacts, FurnacesAssumption DEF Cell, Gone
  <2>3. /\ w.cells \in Seq(Cell \cup {Gone}) /\ Len(w.cells) \in Nat
        /\ DOMAIN w.cells = 1..Len(w.cells)
        /\ w.active \in Seq(Nat) /\ w.at \in [Blocks -> Nat]
        /\ w.free \in Seq(Nat) /\ Len(w.free) \in Nat /\ DOMAIN w.free = 1..Len(w.free)
    BY <2>1, OwnedParts
  <2> HIDE DEF cell
  \* What is left to show of a store with that cell at a new index.
  <2>4. ASSUME m \in World, Len(m.active) = Len(m.cells), DOMAIN w.cells \subseteq DOMAIN m.cells,
               DOMAIN m.cells \subseteq DOMAIN w.cells \cup {i}, i \in DOMAIN m.cells, i # 0,
               i \in DOMAIN w.cells => w.cells[i] = Gone,
               m.at = [w.at EXCEPT ![b] = i], m.cells[i] = cell, m.active[i] = 0,
               \A j \in DOMAIN w.cells : j # i => m.cells[j] = w.cells[j] /\ m.active[j] = w.active[j],
               \A j \in DOMAIN m.cells : j # i /\ m.cells[j] = Gone =>
                 \E k \in DOMAIN m.free : m.free[k] = j,
               \A j \in DOMAIN m.free :
                 /\ m.free[j] \in DOMAIN w.cells /\ m.free[j] # i /\ w.cells[m.free[j]] = Gone
                 /\ \A k \in DOMAIN m.free : m.free[j] = m.free[k] => j = k
        PROVE  Sound(m) /\ m.at[b] # 0 /\ \A c \in Blocks : HeldAt(m, c) = HeldAt(w, c)
    <3> HIDE DEF i
    <3>1. \A c \in Blocks : c # b => m.at[c] = w.at[c]
      BY <2>3, <2>4
    <3>2. m.at[b] = i
      BY <2>3, <2>4
    <3>3. \A c \in Blocks : w.at[c] # 0 => w.at[c] \in DOMAIN w.cells /\ w.at[c] # i
                                           /\ w.cells[w.at[c]].at = c
      BY <2>1, <2>4, OwnersApart, GoneIsNoCell
    <3>4. \A c \in Blocks : m.at[c] # 0 => m.at[c] \in DOMAIN m.cells /\ m.cells[m.at[c]].at = c
      BY <1>2, <2>2, <2>4, <3>1, <3>2, <3>3
    <3>5. \A j \in DOMAIN m.cells : j # i /\ m.cells[j] # Gone => m.at[m.cells[j].at] = j
      <4> SUFFICES ASSUME NEW j \in DOMAIN m.cells, j # i, m.cells[j] # Gone
                   PROVE  m.at[m.cells[j].at] = j
        OBVIOUS
      <4>1. j \in DOMAIN w.cells /\ m.cells[j] = w.cells[j]
        BY <2>4
      <4>2. w.cells[j] \in Cell
        BY <2>1, <4>1, OwnedParts
      <4>3. w.at[w.cells[j].at] = j /\ w.cells[j].at \in Blocks
        BY <2>1, <4>1, <4>2, GoneIsNoCell DEF Owned
      <4>4. j # 0
        BY <2>3, <4>1
      <4> QED BY <1>2, <3>1, <4>1, <4>3, <4>4
    <3>6. \A j \in DOMAIN m.cells :
            IF m.cells[j] = Gone THEN \E k \in DOMAIN m.free : m.free[k] = j
                                 ELSE m.at[m.cells[j].at] = j
      BY <2>2, <2>4, <3>2, <3>5
    <3>7. \A j \in DOMAIN m.free :
            /\ m.free[j] \in DOMAIN m.cells /\ m.cells[m.free[j]] = Gone
            /\ \A k \in DOMAIN m.free : m.free[j] = m.free[k] => j = k
      BY <2>4
    <3>8. Owned(m)
      BY <2>4, <3>4, <3>6, <3>7 DEF Owned
    <3>9. \A j \in DOMAIN m.cells : Listed(m, j)
      <4>1. /\ m.cells[i].furnace = NewFurnace /\ m.cells[i].active = FALSE
            /\ IsActive(NewFurnace) = FALSE /\ m.active[i] = 0
        BY <2>2, <2>4, NewFurnaceFacts
      <4>2. Listed(m, i)
        BY <4>1 DEF Listed
      <4>3. \A j \in DOMAIN m.cells : j # i => j \in DOMAIN w.cells /\ Listed(w, j)
        BY <2>4 DEF Sound
      <4> QED BY <2>4, <4>2, <4>3 DEF Listed
    <3>10. ASSUME NEW c \in Blocks PROVE HeldAt(m, c) = HeldAt(w, c)
      <4>1. CASE c = b
        BY <1>2, <2>2, <2>4, <3>2, <4>1 DEF HeldAt
      <4>2. CASE c # b
        BY <2>4, <3>1, <3>3, <4>2 DEF HeldAt
      <4> QED BY <4>1, <4>2
    <3> QED BY <2>4, <3>2, <3>8, <3>9, <3>10 DEF Sound
  <2>5. CASE w.free = <<>>
    <3>1. /\ i = Len(w.cells) + 1
          /\ m = [w EXCEPT !.cells = Append(@, cell), !.active = Append(@, 0), !.at[b] = i]
      BY <1>2, <2>5 DEF Ensure, NextIndex, cell
    <3>2. /\ m.cells = Append(w.cells, cell) /\ m.active = Append(w.active, 0)
          /\ m.free = w.free /\ m.at = [w.at EXCEPT ![b] = i]
          /\ m = [cells |-> m.cells, at |-> m.at, free |-> m.free, active |-> m.active]
      BY <2>1, <3>1 DEF World
    <3>a. i \in Nat /\ i # 0 /\ w.active \in Seq(Nat) /\ 0 \in Nat
      BY <2>3, <3>1
    <3> HIDE DEF i
    <3>3. /\ m.cells \in Seq(Cell \cup {Gone}) /\ Len(m.cells) = Len(w.cells) + 1
          /\ m.cells[i] = cell /\ \A j \in 1..Len(w.cells) : m.cells[j] = w.cells[j]
      BY <2>2, <2>3, <3>1, <3>2, AppendProperties
    <3>4. /\ m.active \in Seq(Nat) /\ Len(m.active) = Len(w.cells) + 1
          /\ m.active[i] = 0 /\ \A j \in 1..Len(w.cells) : m.active[j] = w.active[j]
      BY <2>1, <2>3, <3>1, <3>2, AppendProperties
    <3>5. m \in World
      BY <2>3, <3>a, <3>2, <3>3, <3>4 DEF World
    <3>6. DOMAIN m.cells = 1..Len(w.cells) + 1
      BY <3>3, LenProperties
    <3>7. DOMAIN m.free = {}
      BY <2>3, <2>5, <3>2, EmptySeq
    <3>8. \A j \in DOMAIN w.cells : w.cells[j] # Gone
      BY <2>1, <3>2, <3>7 DEF Owned
    <3>9. /\ Len(m.active) = Len(m.cells) /\ DOMAIN w.cells \subseteq DOMAIN m.cells
          /\ DOMAIN m.cells \subseteq DOMAIN w.cells \cup {i} /\ i \in DOMAIN m.cells
          /\ i \notin DOMAIN w.cells
      BY <2>3, <3>1, <3>3, <3>4, <3>6
    <3>10. \A j \in DOMAIN w.cells : m.cells[j] = w.cells[j] /\ m.active[j] = w.active[j]
      BY <2>3, <3>3, <3>4
    <3> QED BY <2>4, <3>a, <3>2, <3>3, <3>4, <3>5, <3>7, <3>8, <3>9, <3>10
  <2>6. CASE w.free # <<>>
    <3>1. /\ i = w.free[Len(w.free)]
          /\ m = [w EXCEPT !.cells[i] = cell, !.free = SubSeq(@, 1, Len(@) - 1), !.at[b] = i]
      BY <1>2, <2>6 DEF Ensure, NextIndex, cell
    <3>2. Len(w.free) \in Nat \ {0}
      BY <2>3, <2>6, EmptySeq
    <3>3. i \in DOMAIN w.cells /\ w.cells[i] = Gone /\ i \in Nat
      <4>1. Len(w.free) \in DOMAIN w.free
        BY <2>3, <3>2
      <4> HIDE DEF i
      <4>2. i \in DOMAIN w.cells /\ w.cells[i] = Gone
        BY <2>1, <3>1, <4>1 DEF Owned
      <4> QED BY <2>3, <4>2
    <3>4. /\ m.cells = [w.cells EXCEPT ![i] = cell] /\ m.active = w.active
          /\ m.free = SubSeq(w.free, 1, Len(w.free) - 1) /\ m.at = [w.at EXCEPT ![b] = i]
          /\ m = [cells |-> m.cells, at |-> m.at, free |-> m.free, active |-> m.active]
      BY <2>1, <3>1 DEF World
    <3> HIDE DEF i
    <3>5. /\ m.cells \in Seq(Cell \cup {Gone}) /\ Len(m.cells) = Len(w.cells)
          /\ \A j \in 1..Len(w.cells) : m.cells[j] = IF j = i THEN cell ELSE w.cells[j]
      BY <2>2, <2>3, <3>3, <3>4, ExceptSeq
    <3>6. /\ m.free \in Seq(Nat) /\ DOMAIN m.free = 1..Len(w.free) - 1
          /\ \A j \in 1..Len(w.free) - 1 : m.free[j] = w.free[j]
      <4>1. \A j \in 1..Len(w.free) - 1 : w.free[j] \in Nat
        BY <2>3, <3>2, ElementOfSeq
      <4>2. /\ m.free \in Seq(Nat) /\ \A j \in 1..Len(w.free) - 1 - 1 + 1 : m.free[j] = w.free[1 + j - 1]
            /\ Len(m.free) = IF 1 <= Len(w.free) - 1 THEN Len(w.free) - 1 - 1 + 1 ELSE 0
        <5>1. 1 \in Int /\ Len(w.free) - 1 \in Int /\ m.free = SubSeq(w.free, 1, Len(w.free) - 1)
          BY <3>2, <3>4
        <5> QED BY <4>1, <5>1, SubSeqProperties
      <4>3. Len(m.free) = Len(w.free) - 1 /\ DOMAIN m.free = 1..Len(m.free)
        BY <3>2, <4>2, LenProperties
      <4>4. \A j \in 1..Len(w.free) - 1 : j \in 1..Len(w.free) - 1 - 1 + 1 /\ 1 + j - 1 = j
        BY <3>2
      <4>5. \A j \in 1..Len(w.free) - 1 : m.free[j] = w.free[j]
        BY <4>2, <4>4
      <4> QED BY <4>2, <4>3, <4>5
    <3>7. m \in World
      BY <2>3, <3>3, <3>4, <3>5, <3>6 DEF World
    <3>8. DOMAIN m.cells = DOMAIN w.cells
      BY <2>3, <3>5, LenProperties
    <3>9. \A j \in DOMAIN w.cells : j # i /\ w.cells[j] = Gone =>
            \E k \in DOMAIN m.free : m.free[k] = j
      <4> SUFFICES ASSUME NEW j \in DOMAIN w.cells, j # i, w.cells[j] = Gone
                   PROVE  \E k \in DOMAIN m.free : m.free[k] = j
        OBVIOUS
      <4>1. PICK k \in DOMAIN w.free : w.free[k] = j
        BY <2>1 DEF Owned
      <4>2. k \in 1..Len(w.free) - 1
        BY <2>3, <3>1, <3>2, <4>1
      <4> QED BY <3>6, <4>1, <4>2
    <3>10. \A j \in DOMAIN m.free :
             /\ m.free[j] \in DOMAIN w.cells /\ m.free[j] # i /\ w.cells[m.free[j]] = Gone
             /\ \A k \in DOMAIN m.free : m.free[j] = m.free[k] => j = k
      <4>1. \A j \in DOMAIN m.free : j \in DOMAIN w.free /\ j # Len(w.free) /\ m.free[j] = w.free[j]
        <5>1. \A j \in 1..Len(w.free) - 1 : j \in 1..Len(w.free) /\ j # Len(w.free)
          BY <3>2
        <5> QED BY <2>3, <3>6, <5>1
      <4>2. Len(w.free) \in DOMAIN w.free
        BY <2>3, <3>2
      <4> QED BY <2>1, <3>1, <4>1, <4>2 DEF Owned
    <3>11. m.active[i] = 0
      <4>1. Listed(w, i) /\ ~IsActive(Gone.furnace)
        BY <3>3, NewFurnaceFacts DEF Sound, Gone
      <4> QED BY <3>3, <3>4, <4>1 DEF Listed
    <3>12. i # 0
      BY <2>3, <3>3
    <3>13. /\ Len(m.active) = Len(m.cells) /\ m.cells[i] = cell
           /\ \A j \in DOMAIN w.cells : j # i => m.cells[j] = w.cells[j] /\ m.active[j] = w.active[j]
      BY <2>1, <2>3, <3>3, <3>4, <3>5
    <3> QED BY <2>4, <3>3, <3>4, <3>7, <3>8, <3>9, <3>10, <3>11, <3>12, <3>13
  <2> QED BY <2>5, <2>6
<1> QED BY <1>1, <1>2

\* The furnace left as the caller leaves it, and in or out of the tick list.
LEMMA EnlistFacts ==
  ASSUME NEW m, Sound(m), NEW i \in DOMAIN m.cells, m.cells[i] \in Cell,
         NEW after \in FurnaceState,
         NEW e, e = Enlist([m EXCEPT !.cells[i] = [@ EXCEPT !.furnace = after]], i)
  PROVE  /\ Sound(e) /\ i \in DOMAIN e.cells /\ e.cells[i] \in Cell
         /\ e.cells[i].at = m.cells[i].at /\ e.cells[i].furnace = after
         /\ e.at = m.at /\ \A j \in DOMAIN m.cells : j # i => e.cells[j] = m.cells[j]
<1> DEFINE n == [m EXCEPT !.cells[i] = [@ EXCEPT !.furnace = after]]
           cell == [at |-> m.cells[i].at, furnace |-> after, active |-> IsActive(after)]
           mark == IF IsActive(after) THEN 1 ELSE 0
<1>1. m \in World /\ Len(m.active) = Len(m.cells) /\ Owned(m) /\ Listed(m, i)
  BY DEF Sound, Owned
<1>2. /\ m.cells \in Seq(Cell \cup {Gone}) /\ Len(m.cells) \in Nat /\ DOMAIN m.cells = 1..Len(m.cells)
      /\ m.active \in Seq(Nat) /\ DOMAIN m.active = 1..Len(m.cells)
  BY <1>1, OwnedParts
<1>3. n.cells[i] = [m.cells[i] EXCEPT !.furnace = after]
  BY <1>1, <1>2 DEF World
<1>4. /\ n.cells[i].furnace = after /\ n.cells[i].active = m.cells[i].active
      /\ [n.cells[i] EXCEPT !.active = IsActive(after)] = cell
  BY <1>3 DEF Cell
<1>5. /\ n.cells = [m.cells EXCEPT ![i] = n.cells[i]] /\ n.active = m.active
      /\ n.at = m.at /\ n.free = m.free
      /\ n = [cells |-> n.cells, at |-> n.at, free |-> n.free, active |-> n.active]
  <2> DEFINE cells == [m.cells EXCEPT ![i] = [m.cells[i] EXCEPT !.furnace = after]]
  <2>1. n = [m EXCEPT !.cells = cells]
    OBVIOUS
  <2>2. cells = [m.cells EXCEPT ![i] = n.cells[i]]
    BY <1>3
  <2> HIDE DEF n, cells
  <2>3. /\ n.cells = cells /\ n.active = m.active /\ n.at = m.at /\ n.free = m.free
        /\ n = [cells |-> n.cells, at |-> n.at, free |-> n.free, active |-> n.active]
    BY ONLY <1>1, <2>1 DEF World
  <2> QED BY <2>2, <2>3
<1>6. m.active[i] = IF m.cells[i].active THEN 1 ELSE 0
  BY <1>1 DEF Listed
<1>7. /\ e.cells = [n.cells EXCEPT ![i] = [@ EXCEPT !.active = IsActive(after)]] /\ e.at = n.at /\ e.free = n.free
      /\ e.active = [n.active EXCEPT ![i] = IF IsActive(after) /\ ~n.cells[i].active THEN @ + 1
                                            ELSE IF n.cells[i].active /\ ~IsActive(after) THEN 0 ELSE @]
      /\ e = [cells |-> e.cells, at |-> e.at, free |-> e.free, active |-> e.active]
  <2>1. e = [n EXCEPT !.cells[i] = [@ EXCEPT !.active = IsActive(n.cells[i].furnace)],
                      !.active[i] = IF IsActive(n.cells[i].furnace) /\ ~n.cells[i].active THEN @ + 1
                                    ELSE IF n.cells[i].active /\ ~IsActive(n.cells[i].furnace) THEN 0
                                    ELSE @]
    BY DEF Enlist
  <2> HIDE DEF n
  <2> QED BY <1>4, <1>5, <2>1
<1>8. e.active = [m.active EXCEPT ![i] = mark]
  <2> HIDE DEF n
  <2>1. e.active = [m.active EXCEPT ![i] =
                      IF IsActive(after) /\ ~m.cells[i].active THEN m.active[i] + 1
                      ELSE IF m.cells[i].active /\ ~IsActive(after) THEN 0 ELSE m.active[i]]
    BY <1>4, <1>5, <1>7
  <2>2. CASE IsActive(after)
    BY <1>6, <2>1, <2>2
  <2>3. CASE ~IsActive(after)
    BY <1>6, <2>1, <2>3
  <2> QED BY <2>2, <2>3
<1>9. e.cells = [m.cells EXCEPT ![i] = cell]
  <2>1. n.cells \in [1..Len(m.cells) -> Cell \cup {Gone, n.cells[i]}] /\ i \in 1..Len(m.cells)
    <3>1. \A j \in 1..Len(m.cells) : m.cells[j] \in Cell \cup {Gone}
      BY <1>2, ElementOfSeq
    <3> HIDE DEF n
    <3> QED BY <1>2, <1>5, <3>1
  <2> HIDE DEF n, cell
  <2>2. e.cells = [n.cells EXCEPT ![i] = cell]
    BY <1>4, <1>7
  <2>3. DOMAIN n.cells = DOMAIN m.cells /\ \A j \in DOMAIN m.cells : j # i => n.cells[j] = m.cells[j]
    BY <1>5
  <2> QED BY <2>2, <2>3
<1>10. cell \in Cell /\ cell # Gone /\ mark \in Nat /\ cell \in Cell \cup {Gone}
  <2>1. IsActive(after) \in BOOLEAN
    BY DEF IsActive
  <2>2. m.cells[i].at \in Blocks
    BY GoneIsNoCell
  <2>3. cell \in Cell
    BY <2>1, <2>2 DEF Cell
  <2> HIDE DEF cell
  <2> QED BY <2>3, GoneIsNoCell
<1> HIDE DEF n, cell, mark
<1>11. /\ e.cells \in Seq(Cell \cup {Gone}) /\ Len(e.cells) = Len(m.cells)
       /\ \A j \in 1..Len(m.cells) : e.cells[j] = IF j = i THEN cell ELSE m.cells[j]
  BY ONLY <1>2, <1>9, <1>10, i \in DOMAIN m.cells, EntryChanged
<1>12. /\ e.active \in Seq(Nat) /\ Len(e.active) = Len(m.cells)
       /\ \A j \in 1..Len(m.cells) : e.active[j] = IF j = i THEN mark ELSE m.active[j]
  <2>1. Len(m.active) = Len(m.cells) /\ i \in 1..Len(m.active)
    BY <1>1, <1>2
  <2>2. /\ e.active \in Seq(Nat) /\ Len(e.active) = Len(m.active)
        /\ \A j \in 1..Len(m.active) : e.active[j] = IF j = i THEN mark ELSE m.active[j]
    BY ONLY <1>2, <1>8, <1>10, i \in DOMAIN m.cells, EntryChanged
  <2> QED BY <2>1, <2>2
<1>13. e \in World /\ e.at = m.at /\ e.free = m.free
  BY <1>1, <1>5, <1>7, <1>11, <1>12 DEF World
<1>14. /\ cell.at = m.cells[i].at /\ cell.furnace = after /\ cell.active = IsActive(after)
       /\ m.cells[i] # Gone
  BY GoneIsNoCell DEF cell
<1>15. Owned(e)
  <2>1. \A j \in DOMAIN m.cells : /\ e.cells[j] = Gone <=> m.cells[j] = Gone
                                  /\ e.cells[j].at = m.cells[j].at
    BY <1>2, <1>10, <1>11, <1>14
  <2>2. Len(e.cells) = Len(m.cells) /\ Len(e.active) = Len(m.cells)
    BY <1>11, <1>12
  <2> QED BY ONLY <1>1, <1>13, <2>1, <2>2, FrameOwned
<1>16. DOMAIN e.cells = 1..Len(m.cells)
  BY <1>11, LenProperties
<1>17. ASSUME NEW j \in DOMAIN e.cells PROVE Listed(e, j)
  <2>1. CASE j = i
    <3>1. e.cells[j].furnace = after /\ e.cells[j].active = IsActive(after) /\ e.active[j] = mark
      BY <1>2, <1>11, <1>12, <1>14, <2>1
    <3> QED BY <3>1 DEF Listed, mark
  <2>2. CASE j # i
    <3>1. e.cells[j] = m.cells[j] /\ e.active[j] = m.active[j] /\ Listed(m, j)
      BY <1>2, <1>11, <1>12, <1>16, <2>2 DEF Sound
    <3> QED BY <3>1 DEF Listed
  <2> QED BY <2>1, <2>2
<1> QED BY <1>2, <1>10, <1>11, <1>13, <1>14, <1>15, <1>16, <1>17 DEF Sound

\* Forgetting a furnace: its cell is free, and its block has a new one.
LEMMA DropFacts ==
  ASSUME NEW w, Sound(w), NEW i \in DOMAIN w.cells, w.cells[i] \in Cell,
         NEW d, d = Drop(w, i)
  PROVE  /\ Sound(d)
         /\ \A c \in Blocks : HeldAt(d, c) = IF c = w.cells[i].at THEN NewFurnace ELSE HeldAt(w, c)
<1> DEFINE b == w.cells[i].at
<1>1. w \in World /\ Len(w.active) = Len(w.cells) /\ Owned(w)
  BY DEF Sound, Owned
<1>2. /\ w.cells \in Seq(Cell \cup {Gone}) /\ Len(w.cells) \in Nat /\ DOMAIN w.cells = 1..Len(w.cells)
      /\ w.active \in Seq(Nat) /\ DOMAIN w.active = 1..Len(w.cells) /\ w.at \in [Blocks -> Nat]
      /\ w.free \in Seq(Nat) /\ Len(w.free) \in Nat /\ DOMAIN w.free = 1..Len(w.free)
  BY <1>1, OwnedParts
<1>3. b \in Blocks /\ w.cells[i] # Gone /\ i \in Nat /\ i # 0 /\ w.at[b] = i
  BY <1>1, <1>2, GoneIsNoCell DEF Owned
<1>4. /\ d.cells = [w.cells EXCEPT ![i] = Gone] /\ d.at = [w.at EXCEPT ![b] = 0]
      /\ d.free = Append(w.free, i) /\ d.active = [w.active EXCEPT ![i] = 0]
      /\ d = [cells |-> d.cells, at |-> d.at, free |-> d.free, active |-> d.active]
  BY <1>1 DEF Drop, World
<1> HIDE DEF b
<1>5. /\ d.cells \in Seq(Cell \cup {Gone}) /\ Len(d.cells) = Len(w.cells)
      /\ \A j \in 1..Len(w.cells) : d.cells[j] = IF j = i THEN Gone ELSE w.cells[j]
  BY <1>2, <1>4, ExceptSeq
<1>6. /\ d.active \in Seq(Nat) /\ Len(d.active) = Len(w.cells)
      /\ \A j \in 1..Len(w.cells) : d.active[j] = IF j = i THEN 0 ELSE w.active[j]
  <2>1. Len(w.active) = Len(w.cells) /\ i \in 1..Len(w.active) /\ 0 \in Nat
    BY <1>1, <1>2
  <2> QED BY <1>2, <1>4, <2>1, ExceptSeq
<1>7. /\ d.free \in Seq(Nat) /\ DOMAIN d.free = 1..Len(w.free) + 1 /\ d.free[Len(w.free) + 1] = i
      /\ \A k \in 1..Len(w.free) : d.free[k] = w.free[k]
  BY <1>2, <1>3, <1>4, AppendProperties, LenProperties
<1>8. DOMAIN d.cells = DOMAIN w.cells /\ d \in World
  <2>1. d.at \in [Blocks -> Nat]
    <3>1. d.at = [w.at EXCEPT ![b] = 0] /\ w.at \in [Blocks -> Nat]
      BY <1>2, <1>4
    <3>2. d.at = [c \in Blocks |-> IF c = b THEN 0 ELSE w.at[c]]
      BY <3>1
    <3>3. \A c \in Blocks : w.at[c] \in Nat
      BY <3>1
    <3> QED BY ONLY <3>2, <3>3
  <2>2. DOMAIN d.cells = 1..Len(d.cells)
    BY <1>5, LenProperties
  <2> QED BY <1>2, <1>4, <1>5, <1>6, <1>7, <2>1, <2>2 DEF World
<1>9. d.at[b] = 0 /\ \A c \in Blocks : c # b => d.at[c] = w.at[c]
  BY <1>2, <1>3, <1>4
<1>10. \A c \in Blocks : w.at[c] # 0 => w.at[c] \in DOMAIN w.cells /\ w.cells[w.at[c]].at = c
  BY <1>1 DEF Owned
<1>11. \A c \in Blocks : c # b => w.at[c] # i
  BY <1>3, <1>10 DEF b
<1>12. \A c \in Blocks : d.at[c] # 0 => d.at[c] \in DOMAIN d.cells /\ d.cells[d.at[c]].at = c
  <2> SUFFICES ASSUME NEW c \in Blocks, d.at[c] # 0
               PROVE  d.at[c] \in DOMAIN d.cells /\ d.cells[d.at[c]].at = c
    OBVIOUS
  <2>1. c # b /\ d.at[c] = w.at[c]
    BY <1>9
  <2>2. w.at[c] \in DOMAIN w.cells /\ w.cells[w.at[c]].at = c /\ w.at[c] # i
    BY <1>10, <1>11, <2>1
  <2>3. d.cells[w.at[c]] = w.cells[w.at[c]]
    BY <1>2, <1>5, <2>2
  <2> QED BY <1>8, <2>1, <2>2, <2>3
<1>13. \A k \in DOMAIN w.free : /\ w.free[k] \in DOMAIN w.cells /\ w.free[k] # i
                                /\ w.cells[w.free[k]] = Gone
                                /\ \A l \in DOMAIN w.free : w.free[k] = w.free[l] => k = l
  BY <1>1, <1>3 DEF Owned
<1>a. /\ \A k \in 1..Len(w.free) + 1 : k \in 1..Len(w.free) \/ k = Len(w.free) + 1
      /\ \A k \in 1..Len(w.free) : k \in 1..Len(w.free) + 1 /\ k # Len(w.free) + 1
  BY <1>2
<1>14. \A k \in DOMAIN d.free : k \in DOMAIN w.free \/ k = Len(w.free) + 1
  BY <1>2, <1>7, <1>a
<1>15. \A k \in DOMAIN w.free : k \in DOMAIN d.free /\ k # Len(w.free) + 1 /\ d.free[k] = w.free[k]
  BY <1>2, <1>7, <1>a
<1>16. \A j \in DOMAIN d.cells :
         IF d.cells[j] = Gone THEN \E k \in DOMAIN d.free : d.free[k] = j
                              ELSE d.at[d.cells[j].at] = j
  <2> SUFFICES ASSUME NEW j \in DOMAIN d.cells
               PROVE  IF d.cells[j] = Gone THEN \E k \in DOMAIN d.free : d.free[k] = j
                                           ELSE d.at[d.cells[j].at] = j
    OBVIOUS
  <2>1. CASE j = i
    <3>1. Len(w.free) + 1 \in DOMAIN d.free /\ d.cells[j] = Gone
      BY <1>2, <1>5, <1>7, <2>1
    <3> QED BY <1>7, <2>1, <3>1
  <2>2. CASE j # i /\ w.cells[j] = Gone
    <3>1. PICK k \in DOMAIN w.free : w.free[k] = j
      BY <1>1, <1>8, <2>2 DEF Owned
    <3>2. d.cells[j] = Gone
      BY <1>2, <1>5, <1>8, <2>2
    <3> QED BY <1>15, <3>1, <3>2
  <2>3. CASE j # i /\ w.cells[j] # Gone
    <3>1. d.cells[j] = w.cells[j] /\ w.cells[j] \in Cell /\ j # 0
      BY <1>1, <1>2, <1>5, <1>8, <2>3, OwnedParts
    <3>2. w.at[w.cells[j].at] = j /\ w.cells[j].at \in Blocks
      BY <1>1, <1>8, <2>3, <3>1, GoneIsNoCell DEF Owned
    <3>3. w.cells[j].at # b
      BY <1>3, <2>3, <3>2
    <3> QED BY <1>9, <2>3, <3>1, <3>2, <3>3
  <2> QED BY <2>1, <2>2, <2>3
<1>17. \A k \in DOMAIN d.free :
         /\ d.free[k] \in DOMAIN d.cells /\ d.cells[d.free[k]] = Gone
         /\ \A l \in DOMAIN d.free : d.free[k] = d.free[l] => k = l
  <2>1. \A k \in DOMAIN w.free : d.free[k] = w.free[k] /\ d.free[k] # i
    BY <1>13, <1>15
  <2>2. \A k \in DOMAIN d.free : d.free[k] \in DOMAIN d.cells /\ d.cells[d.free[k]] = Gone
    <3>1. \A j \in DOMAIN w.cells : d.cells[j] = IF j = i THEN Gone ELSE w.cells[j]
      BY <1>2, <1>5
    <3>2. \A k \in DOMAIN w.free : d.free[k] \in DOMAIN w.cells /\ w.cells[d.free[k]] = Gone
      BY <1>13, <1>15
    <3> QED BY <1>7, <1>8, <1>14, <3>1, <3>2
  <2>3. \A k, l \in DOMAIN d.free : d.free[k] = d.free[l] => k = l
    BY <1>7, <1>13, <1>14, <2>1
  <2> QED BY <2>2, <2>3
<1>18. Owned(d)
  BY <1>5, <1>6, <1>8, <1>12, <1>16, <1>17 DEF Owned
<1>19. ASSUME NEW j \in DOMAIN d.cells PROVE Listed(d, j)
  <2>1. CASE j = i
    <3>1. d.active[j] = 0 /\ d.cells[j] = Gone
      BY <1>2, <1>5, <1>6, <2>1
    <3>2. Gone.furnace = NewFurnace /\ Gone.active = FALSE /\ IsActive(NewFurnace) = FALSE
      BY NewFurnaceFacts DEF Gone
    <3> QED BY <3>1, <3>2 DEF Listed
  <2>2. CASE j # i
    <3>1. d.cells[j] = w.cells[j] /\ d.active[j] = w.active[j] /\ Listed(w, j)
      BY <1>2, <1>5, <1>6, <1>8, <2>2 DEF Sound
    <3> QED BY <3>1 DEF Listed
  <2> QED BY <2>1, <2>2
<1>20. ASSUME NEW c \in Blocks PROVE HeldAt(d, c) = IF c = b THEN NewFurnace ELSE HeldAt(w, c)
  <2>1. CASE c = b
    BY <1>9, <2>1 DEF HeldAt
  <2>2. CASE c # b
    <3>1. d.at[c] = w.at[c] /\ (w.at[c] # 0 => d.cells[w.at[c]] = w.cells[w.at[c]])
      BY <1>2, <1>5, <1>9, <1>10, <1>11, <2>2
    <3> QED BY <2>2, <3>1 DEF HeldAt
  <2> QED BY <2>1, <2>2
<1> QED BY <1>18, <1>19, <1>20 DEF Sound, b

\* Furnaces::with leaves at its block what the caller leaves, and nothing else.
LEMMA WithFacts ==
  ASSUME NEW w, Sound(w), NEW b \in Blocks, NEW after \in FurnaceState,
         NEW v, v = With(w, b, after)
  PROVE  /\ Sound(v)
         /\ \A c \in Blocks : HeldAt(v, c) = IF c = b THEN after ELSE HeldAt(w, c)
<1> DEFINE m == Ensure(w, b)
           i == m.at[b]
           n == [m EXCEPT !.cells[i] = [@ EXCEPT !.furnace = after]]
           e == Enlist(n, i)
<1>1. Sound(m) /\ i # 0 /\ \A c \in Blocks : HeldAt(m, c) = HeldAt(w, c)
  BY EnsureFacts
<1>2. v = IF ~IsActive(n.cells[i].furnace) /\ IsBare(n.cells[i].furnace) THEN Drop(e, i) ELSE e
  BY DEF With, Refresh
<1> HIDE DEF m
<1>3. i \in DOMAIN m.cells /\ m.cells[i] \in Cell /\ m.cells[i].at = b
  BY <1>1, OwnersApart DEF Sound
<1>4. n.cells[i].furnace = after
  <2>1. m \in World /\ m.cells[i] \in Cell
    BY <1>1, <1>3 DEF Sound, Owned
  <2>2. n.cells = [m.cells EXCEPT ![i] = [@ EXCEPT !.furnace = after]]
    BY <2>1 DEF World
  <2>3. n.cells[i] = [m.cells[i] EXCEPT !.furnace = after]
    <3> HIDE DEF n
    <3> QED BY <1>3, <2>2
  <2> HIDE DEF n
  <2> QED BY <2>1, <2>3 DEF Cell
<1>5. /\ Sound(e) /\ i \in DOMAIN e.cells /\ e.cells[i] \in Cell
      /\ e.cells[i].at = b /\ e.cells[i].furnace = after
      /\ e.at = m.at /\ \A j \in DOMAIN m.cells : j # i => e.cells[j] = m.cells[j]
  <2> HIDE DEF i
  <2> QED BY <1>1, <1>3, EnlistFacts
<1> HIDE DEF n, e
<1>6. ASSUME NEW c \in Blocks PROVE HeldAt(e, c) = IF c = b THEN after ELSE HeldAt(w, c)
  <2>1. CASE c = b
    BY <1>1, <1>5, <2>1 DEF HeldAt
  <2>2. CASE c # b
    <3>1. m.at[c] # 0 => m.at[c] \in DOMAIN m.cells /\ m.at[c] # i
      BY <1>1, <1>3, <2>2, OwnersApart DEF Sound
    <3>2. HeldAt(e, c) = HeldAt(m, c)
      BY <1>5, <3>1 DEF HeldAt
    <3> QED BY <1>1, <2>2, <3>2
  <2> QED BY <2>1, <2>2
<1>7. CASE ~IsActive(after) /\ IsBare(after)
  <2>1. v = Drop(e, i) /\ after = NewFurnace
    BY <1>2, <1>4, <1>7 DEF IsBare
  <2> HIDE DEF i
  <2>2. Sound(v) /\ \A c \in Blocks : HeldAt(v, c) = IF c = b THEN NewFurnace ELSE HeldAt(e, c)
    BY <1>5, <2>1, DropFacts
  <2> QED BY <1>6, <2>1, <2>2
<1>8. CASE ~(~IsActive(after) /\ IsBare(after))
  BY <1>2, <1>4, <1>5, <1>6, <1>8
<1> QED BY <1>7, <1>8

\* Furnaces::remove leaves a new furnace at its block, and nothing else.
LEMMA RemoveFacts ==
  ASSUME NEW w, Sound(w), NEW b \in Blocks, NEW v, v = Remove(w, b)
  PROVE  /\ Sound(v)
         /\ \A c \in Blocks : HeldAt(v, c) = IF c = b THEN NewFurnace ELSE HeldAt(w, c)
<1>1. CASE w.at[b] = 0
  BY <1>1 DEF Remove, HeldAt
<1>2. CASE w.at[b] # 0
  <2>1. v = Drop(w, w.at[b])
    BY <1>2 DEF Remove
  <2>2. w.at[b] \in DOMAIN w.cells /\ w.cells[w.at[b]] \in Cell /\ w.cells[w.at[b]].at = b
    BY <1>2, OwnersApart DEF Sound
  <2> QED BY <2>1, <2>2, DropFacts
<1> QED BY <1>1, <1>2

-----------------------------------------------------------------------------
(***************************************************************************)
(* Furnaces::tick.                                                         *)
(***************************************************************************)
LEMMA TickedFacts ==
  ASSUME NEW w, Sound(w), NEW v, v = Ticked(w)
  PROVE  /\ Sound(v)
         /\ \A c \in Blocks : HeldAt(v, c) = FurnaceTick(HeldAt(w, c))
<1> DEFINE still == {i \in Ticks(w) : IsActive(FurnaceTick(w.cells[i].furnace))}
           burned(i) == [w.cells[i] EXCEPT !.furnace = FurnaceTick(@), !.active = i \in still]
<1>1. w \in World /\ Len(w.active) = Len(w.cells) /\ Owned(w)
  BY DEF Sound, Owned
<1>2. /\ w.cells \in Seq(Cell \cup {Gone}) /\ Len(w.cells) \in Nat /\ DOMAIN w.cells = 1..Len(w.cells)
      /\ w.active \in Seq(Nat) /\ DOMAIN w.active = 1..Len(w.cells) /\ w.at \in [Blocks -> Nat]
      /\ w.free \in Seq(Nat)
      /\ \A i \in DOMAIN w.cells : w.cells[i] \in Cell \cup {Gone}
  BY <1>1, OwnedParts
<1>3. /\ v.cells = [i \in 1..Len(w.cells) |-> IF i \notin Ticks(w) THEN w.cells[i] ELSE burned(i)]
      /\ v.active = [i \in 1..Len(w.cells) |-> IF i \in still THEN w.active[i] ELSE 0]
      /\ v.at = w.at /\ v.free = w.free
      /\ v = [cells |-> v.cells, at |-> v.at, free |-> v.free, active |-> v.active]
  <2> DEFINE cells == [i \in DOMAIN w.cells |->
                         IF i \notin Ticks(w) THEN w.cells[i]
                         ELSE [w.cells[i] EXCEPT !.furnace = FurnaceTick(@), !.active = i \in still]]
             marks == [i \in DOMAIN w.active |-> IF i \in still THEN w.active[i] ELSE 0]
  <2>1. v = [w EXCEPT !.cells = cells, !.active = marks]
    <3>1. v = Burned(w, still)
      BY DEF Ticked
    <3> HIDE DEF still
    <3> QED BY ONLY <3>1 DEF Burned, cells, marks
  <2>2. /\ cells = [i \in 1..Len(w.cells) |-> IF i \notin Ticks(w) THEN w.cells[i] ELSE burned(i)]
        /\ marks = [i \in 1..Len(w.cells) |-> IF i \in still THEN w.active[i] ELSE 0]
    BY <1>2
  <2> HIDE DEF cells, marks
  <2>3. /\ v.cells = cells /\ v.active = marks /\ v.at = w.at /\ v.free = w.free
        /\ v = [cells |-> v.cells, at |-> v.at, free |-> v.free, active |-> v.active]
    BY ONLY <1>1, <2>1 DEF World
  <2> QED BY <2>2, <2>3
\* What ticks is what has something to do.
<1>4. ASSUME NEW i \in DOMAIN w.cells
      PROVE  /\ i \in Ticks(w) <=> IsActive(w.cells[i].furnace)
             /\ IsActive(w.cells[i].furnace) => w.cells[i] \in Cell /\ w.active[i] = 1
             /\ w.cells[i].furnace \in FurnaceState
  <2>1. Listed(w, i)
    BY DEF Sound
  <2>2. Gone.furnace = NewFurnace
    BY DEF Gone
  <2>3. w.cells[i].furnace \in FurnaceState
    BY <1>2, <2>2, NewFurnaceFacts DEF Cell
  <2>4. IsActive(w.cells[i].furnace) => w.cells[i] \in Cell
    BY <1>2, <2>2, NewFurnaceFacts
  <2>5. w.active[i] = IF IsActive(w.cells[i].furnace) THEN 1 ELSE 0
    BY <2>1 DEF Listed
  <2>6. i \in Ticks(w) <=> w.active[i] > 0 /\ w.cells[i] # Gone
    BY DEF Ticks
  <2> QED BY <2>3, <2>4, <2>5, <2>6, GoneIsNoCell
<1>5. ASSUME NEW i \in Ticks(w)
      PROVE  /\ burned(i) \in Cell /\ burned(i).at = w.cells[i].at
             /\ burned(i).furnace = FurnaceTick(w.cells[i].furnace)
             /\ burned(i).active = (i \in still)
  <2>1. i \in DOMAIN w.cells
    BY DEF Ticks
  <2>2. w.cells[i] \in Cell /\ FurnaceTick(w.cells[i].furnace) \in FurnaceState
    BY <1>4, <2>1, TickTyped
  <2>3. (i \in still) \in BOOLEAN
    OBVIOUS
  <2> HIDE DEF still
  <2> QED BY <2>2, <2>3 DEF Cell
<1>6. \A i \in Ticks(w) : i \in still <=> IsActive(FurnaceTick(w.cells[i].furnace))
  OBVIOUS
<1>7. still \subseteq Ticks(w) /\ Ticks(w) \subseteq DOMAIN w.cells
  BY DEF Ticks
<1> HIDE DEF still, burned
<1>8. \A i \in 1..Len(w.cells) : v.cells[i] = IF i \notin Ticks(w) THEN w.cells[i] ELSE burned(i)
  BY <1>3
<1>9. \A i \in 1..Len(w.cells) : v.active[i] = IF i \in still THEN 1 ELSE 0
  <2>1. \A i \in still : w.active[i] = 1
    BY <1>4, <1>7
  <2> QED BY <1>3, <2>1
<1>10. \A i \in 1..Len(w.cells) : /\ v.cells[i] \in Cell \cup {Gone} /\ v.active[i] \in Nat
                                  /\ v.cells[i] = Gone <=> w.cells[i] = Gone
                                  /\ v.cells[i].at = w.cells[i].at
  <2>1. \A i \in Ticks(w) : w.cells[i] \in Cell
    BY <1>4, <1>7
  <2>2. ASSUME NEW i \in 1..Len(w.cells), i \in Ticks(w)
        PROVE  /\ v.cells[i] \in Cell /\ v.cells[i] # Gone /\ w.cells[i] # Gone
               /\ v.cells[i].at = w.cells[i].at
    <3>1. v.cells[i] = burned(i)
      BY ONLY <1>8, <2>2
    <3>2. burned(i) \in Cell /\ burned(i).at = w.cells[i].at
      BY <1>5, <2>2
    <3>3. w.cells[i] \in Cell
      BY <2>1, <2>2
    <3> QED BY ONLY <3>1, <3>2, <3>3, GoneIsNoCell
  <2>3. ASSUME NEW i \in 1..Len(w.cells), i \notin Ticks(w)
        PROVE  v.cells[i] = w.cells[i] /\ w.cells[i] \in Cell \cup {Gone}
    BY <1>2, <1>8, <2>3
  <2>4. \A i \in 1..Len(w.cells) : v.active[i] \in Nat
    BY ONLY <1>9
  <2> QED BY ONLY <2>2, <2>3, <2>4
<1>11. /\ v.cells \in Seq(Cell \cup {Gone}) /\ Len(v.cells) = Len(w.cells)
       /\ v.active \in Seq(Nat) /\ Len(v.active) = Len(w.cells)
       /\ DOMAIN v.cells = 1..Len(w.cells)
  <2>1. v.cells \in [1..Len(w.cells) -> Cell \cup {Gone}] /\ v.active \in [1..Len(w.cells) -> Nat]
    BY <1>3, <1>10
  <2> QED BY <1>2, <2>1, ListIsSeq
<1>12. v \in World
  BY <1>2, <1>3, <1>11 DEF World
<1>13. Owned(v)
  <2>1. \A i \in DOMAIN w.cells : /\ v.cells[i] = Gone <=> w.cells[i] = Gone
                                  /\ v.cells[i].at = w.cells[i].at
    BY <1>2, <1>10
  <2> QED BY ONLY <1>1, <1>3, <1>11, <1>12, <2>1, FrameOwned
<1>14. ASSUME NEW i \in DOMAIN v.cells PROVE Listed(v, i)
  <2>1. i \in 1..Len(w.cells) /\ i \in DOMAIN w.cells
    BY <1>2, <1>11
  <2>2. CASE i \in Ticks(w)
    <3>1. v.cells[i].furnace = FurnaceTick(w.cells[i].furnace) /\ v.cells[i].active = (i \in still)
      BY <1>5, <1>8, <2>1, <2>2
    <3>2. IsActive(v.cells[i].furnace) <=> i \in still
      BY <1>6, <2>2, <3>1
    <3>3. CASE i \in still
      BY <1>9, <2>1, <3>1, <3>2, <3>3 DEF Listed
    <3>4. CASE i \notin still
      <4>1. v.cells[i].active = FALSE /\ v.active[i] = 0 /\ IsActive(v.cells[i].furnace) = FALSE
        <5>1. v.active[i] = 0
          BY <1>9, <2>1, <3>4
        <5>2. v.cells[i].active = FALSE
          <6>1. v.cells[i].active \in BOOLEAN
            BY <1>5, <1>8, <2>1, <2>2 DEF Cell
          <6> QED BY <3>1, <3>4, <6>1
        <5>3. ~IsActive(v.cells[i].furnace)
          BY <3>2, <3>4
        <5> QED BY <5>1, <5>2, <5>3
      <4> QED BY <4>1 DEF Listed
    <3> QED BY <3>3, <3>4
  <2>3. CASE i \notin Ticks(w)
    <3>1. v.cells[i] = w.cells[i] /\ v.active[i] = 0 /\ ~IsActive(w.cells[i].furnace) /\ Listed(w, i)
      BY <1>4, <1>7, <1>8, <1>9, <2>1, <2>3 DEF Sound
    <3> QED BY <3>1 DEF Listed
  <2> QED BY <2>2, <2>3
<1>15. ASSUME NEW c \in Blocks PROVE HeldAt(v, c) = FurnaceTick(HeldAt(w, c))
  <2>1. CASE w.at[c] = 0
    BY <1>3, <2>1, NewFurnaceFacts, IdleTick DEF HeldAt
  <2>2. CASE w.at[c] # 0
    <3> DEFINE i == w.at[c]
    <3>1. i \in DOMAIN w.cells /\ HeldAt(w, c) = w.cells[i].furnace /\ HeldAt(v, c) = v.cells[i].furnace
      BY <1>1, <1>3, <2>2, OwnersApart DEF HeldAt
    <3>2. v.cells[i].furnace = FurnaceTick(w.cells[i].furnace)
      <4> HIDE DEF i
      <4>1. CASE i \in Ticks(w)
        BY <1>2, <1>5, <1>8, <3>1, <4>1
      <4>2. CASE i \notin Ticks(w)
        <5>1. v.cells[i] = w.cells[i] /\ ~IsActive(w.cells[i].furnace)
              /\ w.cells[i].furnace \in FurnaceState
          BY <1>2, <1>4, <1>8, <3>1, <4>2
        <5> QED BY <5>1, IdleTick
      <4> QED BY <4>1, <4>2
    <3> QED BY <3>1, <3>2
  <2> QED BY <2>1, <2>2
<1> QED BY <1>13, <1>14, <1>15 DEF Sound

-----------------------------------------------------------------------------
(***************************************************************************)
(* A stop and a start: Furnaces::snapshot and Furnaces::restore.  The loop *)
(* of `restore` is followed turn by turn; a property every turn hands on   *)
(* is had by all, or a first turn would lack it.                           *)
(***************************************************************************)
Before == {p \in Nat \X Nat : p[1] < p[2]}

LEMMA LeastNumber ==
  ASSUME NEW T, T \subseteq Nat, T # {}
  PROVE  \E n \in T : \A m \in T : n <= m
<1>1. IsWellFoundedOn(Before, Nat)
  BY NatLessThanWellFounded DEF Before, OpToRel
<1>2. PICK n \in T : \A m \in T : <<m, n>> \notin Before
  BY <1>1, WFMin
<1>3. ASSUME NEW m \in T PROVE n <= m
  <2>1. m \in Nat /\ n \in Nat /\ (m < n => <<m, n>> \in Before)
    BY DEF Before
  <2> QED BY <1>2, <2>1
<1> QED BY <1>3

Kept(w) == {b \in Blocks : w.at[b] # 0 /\ ~IsBare(w.cells[w.at[b]].furnace)}

Order(w) ==
  CHOOSE f \in [1..Cardinality(Kept(w)) -> Kept(w)] : \A i, j \in DOMAIN f : f[i] = f[j] => i = j

Turns(g, w, order, n) ==
  g = [i \in 0..n |-> IF i = 0 THEN NoFurnaces
                      ELSE With(g[i - 1], order[i], w.cells[w.at[order[i]]].furnace)]

\* The first so many turns of the loop are a function.
LEMMA LoopTurns ==
  ASSUME NEW w, NEW order, NEW n \in Nat
  PROVE  \E g : Turns(g, w, order, n)
<1> DEFINE T == {m \in Nat : \A g : ~Turns(g, w, order, m)}
           Turn(h, k) == With(h, order[k], w.cells[w.at[order[k]]].furnace)
<1>0. T \subseteq Nat /\ \A m \in Nat : m \in T \/ \E g : Turns(g, w, order, m)
  OBVIOUS
<1>1. ASSUME T # {} PROVE FALSE
  <2>1. PICK m \in T : \A k \in T : m <= k
    <3> HIDE DEF T
    <3> QED BY <1>0, <1>1, LeastNumber
  <2>2. m # 0
    <3>1. Turns([i \in 0..0 |-> NoFurnaces], w, order, 0)
      BY DEF Turns
    <3> QED BY <3>1
  <2>3. m \in Nat /\ m - 1 \in Nat /\ m - 1 \notin T
    <3> HIDE DEF T
    <3> QED BY <1>0, <2>1, <2>2
  <2>4. PICK g : Turns(g, w, order, m - 1)
    BY <2>3
  <2> DEFINE h == [i \in 0..m |-> IF i < m THEN g[i] ELSE Turn(g[m - 1], m)]
  <2>5. \A i \in 0..m : h[i] = IF i = 0 THEN NoFurnaces ELSE Turn(h[i - 1], i)
    <3> SUFFICES ASSUME NEW i \in 0..m PROVE h[i] = IF i = 0 THEN NoFurnaces ELSE Turn(h[i - 1], i)
      OBVIOUS
    <3>1. CASE i < m
      <4>1. i \in 0..m - 1 /\ h[i] = g[i] /\ (i # 0 => i - 1 \in 0..m /\ i - 1 < m)
        BY <3>1, <2>2
      <4>2. i # 0 => h[i - 1] = g[i - 1]
        BY <4>1
      <4>3. g[i] = IF i = 0 THEN NoFurnaces ELSE Turn(g[i - 1], i)
        BY <4>1, <2>4 DEF Turns
      <4> QED BY <4>1, <4>2, <4>3
    <3>2. CASE i = m
      <4>1. h[i] = Turn(g[m - 1], m) /\ h[m - 1] = g[m - 1] /\ i # 0
        BY <3>2, <2>2
      <4> QED BY <3>2, <4>1
    <3> QED BY <3>1, <3>2
  <2>6. Turns(h, w, order, m)
    BY <2>5 DEF Turns
  <2> QED BY <2>1, <2>6
<1>2. n \notin T
  BY <1>1
<1> HIDE DEF T
<1> QED BY <1>0, <1>2

\* What is kept is listed, each once, and nothing else is.
LEMMA OrderFacts ==
  ASSUME NEW w, Owned(w)
  PROVE  /\ Cardinality(Kept(w)) \in Nat
         /\ Order(w) \in [1..Cardinality(Kept(w)) -> Kept(w)]
         /\ \A i, j \in 1..Cardinality(Kept(w)) : Order(w)[i] = Order(w)[j] => i = j
         /\ \A b \in Kept(w) : \E i \in 1..Cardinality(Kept(w)) : Order(w)[i] = b
<1> DEFINE kept == Kept(w)
           n == Cardinality(kept)
           index == [b \in kept |-> w.at[b]]
<1>1. Len(w.cells) \in Nat /\ DOMAIN w.cells = 1..Len(w.cells)
  BY OwnedParts DEF Owned
<1>2. IsFiniteSet(kept)
  <2>1. \A b \in kept : b \in Blocks /\ w.at[b] \in 1..Len(w.cells)
    BY <1>1, OwnersApart DEF Kept
  <2>2. \A b, c \in kept : index[b] = index[c] => b = c
    BY OwnersApart DEF Kept
  <2>3. index \in Injection(kept, 1..Len(w.cells))
    BY <2>1, <2>2 DEF Injection, IsInjective
  <2>4. IsFiniteSet(1..Len(w.cells))
    <3>1. 1 \in Int /\ Len(w.cells) \in Int
      BY <1>1
    <3> QED BY <3>1, FS_Interval
  <2> HIDE DEF index, kept
  <2> QED BY <2>3, <2>4, FS_Injection
<1> HIDE DEF kept
<1>3. n \in Nat /\ ExistsBijection(1..n, kept)
  BY <1>2, FS_CardinalityType
<1> HIDE DEF n
<1>4. \E f \in [1..n -> kept] : \A i, j \in DOMAIN f : f[i] = f[j] => i = j
  <2>1. PICK f : f \in Bijection(1..n, kept)
    BY <1>3 DEF ExistsBijection
  <2> QED BY <2>1 DEF Bijection, Injection, IsInjective
<1>5. Order(w) = CHOOSE f \in [1..n -> kept] : \A i, j \in DOMAIN f : f[i] = f[j] => i = j
  BY DEF Order, n, kept
<1>6. Order(w) \in [1..n -> kept] /\ \A i, j \in DOMAIN Order(w) : Order(w)[i] = Order(w)[j] => i = j
  BY <1>4, <1>5
<1>7. Order(w) \in Surjection(1..n, kept)
  <2>1. Order(w) \in Injection(1..n, kept)
    BY <1>6 DEF Injection, IsInjective
  <2>2. Cardinality(1..n) = n
    <3>1. 1 \in Int /\ n \in Int
      BY <1>3
    <3>2. Cardinality(1..n) = IF 1 > n THEN 0 ELSE n - 1 + 1
      BY <3>1, FS_Interval
    <3> QED BY <1>3, <3>2
  <2>3. Cardinality(1..n) = Cardinality(kept)
    BY <2>2 DEF n
  <2> QED BY <1>2, <2>1, <2>3, FS_Injection
<1>8. /\ \A i, j \in 1..n : Order(w)[i] = Order(w)[j] => i = j
      /\ \A b \in kept : \E i \in 1..n : Order(w)[i] = b
  BY <1>6, <1>7 DEF Surjection
<1> QED BY <1>3, <1>6, <1>8 DEF n, kept

LEMMA NoFurnacesFacts ==
  /\ Sound(NoFurnaces)
  /\ \A c \in Blocks : HeldAt(NoFurnaces, c) = NewFurnace
<1>1. /\ NoFurnaces.cells = <<>> /\ NoFurnaces.free = <<>> /\ NoFurnaces.active = <<>>
      /\ NoFurnaces.at = [b \in Blocks |-> 0]
      /\ NoFurnaces = [cells |-> <<>>, at |-> NoFurnaces.at, free |-> <<>>, active |-> <<>>]
  BY DEF NoFurnaces
<1>2. NoFurnaces \in World
  <2>1. NoFurnaces.at \in [Blocks -> Nat]
    BY <1>1
  <2>2. <<>> \in Seq(Cell \cup {Gone}) /\ <<>> \in Seq(Nat)
    BY EmptySeq
  <2> QED BY <1>1, <2>1, <2>2 DEF World
<1>3. DOMAIN NoFurnaces.cells = {} /\ DOMAIN NoFurnaces.free = {} /\ Len(NoFurnaces.active) = Len(NoFurnaces.cells)
  BY <1>1
<1>4. \A b \in Blocks : NoFurnaces.at[b] = 0
  BY <1>1
<1> QED BY <1>2, <1>3, <1>4 DEF Sound, Owned, HeldAt

\* After so many turns, the furnaces of so many blocks are back.
LEMMA TurnFacts ==
  ASSUME NEW w, Owned(w), NEW n \in 0..Cardinality(Kept(w)), NEW g, Turns(g, w, Order(w), n)
  PROVE  /\ Sound(g[n])
         /\ \A c \in Blocks : HeldAt(g[n], c) = IF \E i \in 1..n : Order(w)[i] = c
                                                THEN HeldAt(w, c) ELSE NewFurnace
<1> DEFINE Good(m) == /\ Sound(g[m])
                      /\ \A c \in Blocks :
                           HeldAt(g[m], c) = IF \E i \in 1..m : Order(w)[i] = c
                                             THEN HeldAt(w, c) ELSE NewFurnace
           T == {m \in 0..n : ~Good(m)}
<1>0. n \in Nat /\ Cardinality(Kept(w)) \in Nat /\ n <= Cardinality(Kept(w))
  BY OrderFacts
<1>1. ASSUME T # {} PROVE FALSE
  <2>1. PICK m \in T : \A k \in T : m <= k
    <3>1. T \subseteq Nat
      BY <1>0
    <3> HIDE DEF T
    <3> QED BY <1>1, <3>1, LeastNumber
  <2>2. m # 0
    <3>1. g[0] = NoFurnaces
      BY <1>0 DEF Turns
    <3>2. Good(0)
      BY <3>1, NoFurnacesFacts
    <3> HIDE DEF Good
    <3> QED BY <2>1, <3>2
  <2>3. m \in 0..n /\ m - 1 \in 0..n /\ m \in 1..Cardinality(Kept(w)) /\ Good(m - 1)
    <3>1. m \in 0..n /\ m - 1 \in 0..n /\ m - 1 \notin T /\ m \in 1..Cardinality(Kept(w))
      <4> HIDE DEF Good
      <4>1. m \in 0..n
        BY <2>1
      <4> HIDE DEF T
      <4> QED BY <1>0, <2>1, <2>2, <4>1
    <3> HIDE DEF Good
    <3> QED BY <3>1
  <2> DEFINE b == Order(w)[m]
  <2>4. b \in Blocks /\ w.at[b] # 0 /\ w.cells[w.at[b]].furnace = HeldAt(w, b)
        /\ HeldAt(w, b) \in FurnaceState
    <3>1. b \in Kept(w)
      BY <2>3, OrderFacts
    <3> QED BY <3>1, OwnersApart DEF Kept, HeldAt
  <2>5. g[m] = With(g[m - 1], b, HeldAt(w, b))
    <3>1. g[m] = With(g[m - 1], b, w.cells[w.at[b]].furnace)
      BY <2>2, <2>3 DEF Turns
    <3> QED BY <2>4, <3>1
  <2> HIDE DEF b
  <2>6. /\ Sound(g[m])
        /\ \A c \in Blocks : HeldAt(g[m], c) = IF c = b THEN HeldAt(w, b) ELSE HeldAt(g[m - 1], c)
    BY <2>3, <2>4, <2>5, WithFacts
  <2>7. \A c \in Blocks : (\E i \in 1..m : Order(w)[i] = c) <=> c = b \/ \E i \in 1..m - 1 : Order(w)[i] = c
    <3>1. \A i \in 1..m : i = m \/ i \in 1..m - 1
      BY <2>3
    <3>2. \A i \in 1..m - 1 : i \in 1..m
      BY <2>3
    <3>3. m \in 1..m
      BY <2>2, <2>3
    <3> QED BY <3>1, <3>2, <3>3 DEF b
  <2>8. Good(m)
    BY <2>3, <2>6, <2>7
  <2> HIDE DEF Good
  <2> QED BY <2>1, <2>8
<1>2. n \in 0..n
  BY <1>0
<1> QED BY <1>1, <1>2

\* What was held is held again.
LEMMA RestoredFacts ==
  ASSUME NEW w, Owned(w), NEW v, v = Restored(w)
  PROVE  Sound(v) /\ \A c \in Blocks : HeldAt(v, c) = HeldAt(w, c)
<1> DEFINE n == Cardinality(Kept(w))
           g == CHOOSE f : Turns(f, w, Order(w), n)
<1>1. n \in Nat /\ Len(Order(w)) = n
  BY OrderFacts, ListIsSeq
<1>2. v = g[n]
  <2>1. v = (CHOOSE f : Turns(f, w, Order(w), Len(Order(w))))[Len(Order(w))]
    BY DEF Restored, Through, Kept, Order, Turns
  <2> QED BY <1>1, <2>1
<1>3. Turns(g, w, Order(w), n)
  BY <1>1, LoopTurns
<1> HIDE DEF g
<1>4. n \in 0..n
  BY <1>1
<1>5. /\ Sound(v)
      /\ \A c \in Blocks : HeldAt(v, c) = IF \E i \in 1..n : Order(w)[i] = c
                                          THEN HeldAt(w, c) ELSE NewFurnace
  BY <1>2, <1>3, <1>4, TurnFacts
<1>6. ASSUME NEW c \in Blocks, ~(\E i \in 1..n : Order(w)[i] = c) PROVE HeldAt(w, c) = NewFurnace
  <2>1. c \notin Kept(w)
    BY <1>6, OrderFacts
  <2> QED BY <2>1 DEF Kept, HeldAt, IsBare
<1> QED BY <1>5, <1>6

-----------------------------------------------------------------------------
(***************************************************************************)
(* The sessions: a seat is at a block while a screen is open or opening,   *)
(* and remembers the one before only until that is let go of.              *)
(***************************************************************************)
SeatInv ==
  \A s \in Players :
    /\ seat[s].step = "closed" <=> seat[s].at = None
    /\ seat[s].step # "watching" => seat[s].before = None

\* The worlds of the furnaces, and the sessions at them.
FurnacesInv ==
  /\ Sound(world)
  /\ watched \in [Blocks -> Nat]
  /\ seat \in [Players -> [at : Blocks \cup {None}, before : Blocks \cup {None}, step : Steps]]
  /\ SeatInv
  /\ WatchedExact

\* Who is at a block, and who was.
AtSet(b) == {s \in Players : seat[s].at = b}
BeforeSet(b) == {s \in Players : seat[s].before = b}

LEMMA Counts ==
  /\ \A b : Cardinality(AtSet(b)) \in Nat /\ IsFiniteSet(AtSet(b))
  /\ \A b : Cardinality(BeforeSet(b)) \in Nat /\ IsFiniteSet(BeforeSet(b))
<1>1. \A b : IsFiniteSet(AtSet(b)) /\ IsFiniteSet(BeforeSet(b))
  BY FurnacesAssumption, FS_Subset DEF AtSet, BeforeSet
<1> QED BY <1>1, FS_CardinalityType

\* One more in a finite set, and one fewer.
LEMMA Joined ==
  \A S, s : IsFiniteSet(S) =>
    /\ Cardinality(S) \in Nat
    /\ Cardinality(S \cup {s}) = IF s \in S THEN Cardinality(S) ELSE Cardinality(S) + 1
BY FS_AddElement, FS_CardinalityType

LEMMA Left ==
  \A S, s : IsFiniteSet(S) =>
    /\ Cardinality(S \ {s}) = IF s \in S THEN Cardinality(S) - 1 ELSE Cardinality(S)
    /\ s \in S => Cardinality(S) >= 1
<1> SUFFICES ASSUME NEW S, NEW s, IsFiniteSet(S)
             PROVE  /\ Cardinality(S \ {s}) = IF s \in S THEN Cardinality(S) - 1 ELSE Cardinality(S)
                    /\ s \in S => Cardinality(S) >= 1
  OBVIOUS
<1>1. /\ IsFiniteSet(S \ {s})
      /\ Cardinality(S \ {s}) = IF s \in S THEN Cardinality(S) - 1 ELSE Cardinality(S)
  BY FS_RemoveElement
<1>2. Cardinality(S) \in Nat /\ Cardinality(S \ {s}) \in Nat
  BY <1>1, FS_CardinalityType
<1> QED BY <1>1, <1>2

\* What a session's new seat does to the counts.
LEMMA SeatCounts ==
  ASSUME NEW s \in Players, NEW r,
         seat \in [Players -> [at : Blocks \cup {None}, before : Blocks \cup {None}, step : Steps]],
         seat' = [seat EXCEPT ![s] = r], NEW c
  PROVE  /\ Cardinality(AtSet(c)') = Cardinality(AtSet(c)) - (IF seat[s].at = c THEN 1 ELSE 0)
                                       + (IF r.at = c THEN 1 ELSE 0)
         /\ Cardinality(BeforeSet(c)') = Cardinality(BeforeSet(c))
              - (IF seat[s].before = c THEN 1 ELSE 0) + (IF r.before = c THEN 1 ELSE 0)
         /\ seat[s].at = c => Cardinality(AtSet(c)) >= 1
         /\ seat[s].before = c => Cardinality(BeforeSet(c)) >= 1
<1>1. AtSet(c)' = IF r.at = c THEN AtSet(c) \cup {s} ELSE AtSet(c) \ {s}
  BY DEF AtSet
<1>2. BeforeSet(c)' = IF r.before = c THEN BeforeSet(c) \cup {s} ELSE BeforeSet(c) \ {s}
  BY DEF BeforeSet
<1>3. (s \in AtSet(c) <=> seat[s].at = c) /\ (s \in BeforeSet(c) <=> seat[s].before = c)
  BY DEF AtSet, BeforeSet
<1>4. IsFiniteSet(AtSet(c)) /\ IsFiniteSet(BeforeSet(c))
  BY Counts
<1>5. /\ Cardinality(AtSet(c)') = Cardinality(AtSet(c)) - (IF seat[s].at = c THEN 1 ELSE 0)
                                    + (IF r.at = c THEN 1 ELSE 0)
      /\ seat[s].at = c => Cardinality(AtSet(c)) >= 1
  <2>1. CASE r.at = c
    <3>1. Cardinality(AtSet(c)') = IF s \in AtSet(c) THEN Cardinality(AtSet(c)) ELSE Cardinality(AtSet(c)) + 1
      BY ONLY <1>1, <1>4, <2>1, Joined
    <3>2. Cardinality(AtSet(c)) \in Nat /\ (seat[s].at = c => Cardinality(AtSet(c)) >= 1)
      BY ONLY <1>3, <1>4, Joined, Left
    <3> QED BY ONLY <1>3, <2>1, <3>1, <3>2
  <2>2. CASE r.at # c
    <3>1. Cardinality(AtSet(c)') = IF s \in AtSet(c) THEN Cardinality(AtSet(c)) - 1 ELSE Cardinality(AtSet(c))
      BY ONLY <1>1, <1>4, <2>2, Left
    <3>2. Cardinality(AtSet(c)) \in Nat /\ (seat[s].at = c => Cardinality(AtSet(c)) >= 1)
      BY ONLY <1>3, <1>4, Joined, Left
    <3> QED BY ONLY <1>3, <2>2, <3>1, <3>2
  <2> QED BY <2>1, <2>2
<1>6. /\ Cardinality(BeforeSet(c)') = Cardinality(BeforeSet(c))
            - (IF seat[s].before = c THEN 1 ELSE 0) + (IF r.before = c THEN 1 ELSE 0)
      /\ seat[s].before = c => Cardinality(BeforeSet(c)) >= 1
  <2>1. CASE r.before = c
    <3>1. Cardinality(BeforeSet(c)') = IF s \in BeforeSet(c) THEN Cardinality(BeforeSet(c)) ELSE Cardinality(BeforeSet(c)) + 1
      BY ONLY <1>2, <1>4, <2>1, Joined
    <3>2. Cardinality(BeforeSet(c)) \in Nat /\ (seat[s].before = c => Cardinality(BeforeSet(c)) >= 1)
      BY ONLY <1>3, <1>4, Joined, Left
    <3> QED BY ONLY <1>3, <2>1, <3>1, <3>2
  <2>2. CASE r.before # c
    <3>1. Cardinality(BeforeSet(c)') = IF s \in BeforeSet(c) THEN Cardinality(BeforeSet(c)) - 1 ELSE Cardinality(BeforeSet(c))
      BY ONLY <1>2, <1>4, <2>2, Left
    <3>2. Cardinality(BeforeSet(c)) \in Nat /\ (seat[s].before = c => Cardinality(BeforeSet(c)) >= 1)
      BY ONLY <1>3, <1>4, Joined, Left
    <3> QED BY ONLY <1>3, <2>2, <3>1, <3>2
  <2> QED BY <2>1, <2>2
<1> QED BY <1>5, <1>6

\* Every step of a session keeps the count of watches.
LEMMA WatchedStep ==
  ASSUME FurnacesInv, NEW s \in Players,
         (\E b \in Blocks : Watch(s, b)) \/ Unwatch(s) \/ Close(s)
  PROVE  watched' \in [Blocks -> Nat] /\ WatchedExact'
<1>0. /\ seat \in [Players -> [at : Blocks \cup {None}, before : Blocks \cup {None}, step : Steps]]
      /\ watched \in [Blocks -> Nat] /\ None \notin Blocks
      /\ \A c \in Blocks : watched[c] = Cardinality(AtSet(c)) + Cardinality(BeforeSet(c))
      /\ seat[s].step = "closed" <=> seat[s].at = None
      /\ seat[s].step # "watching" => seat[s].before = None
      /\ \A c : Cardinality(AtSet(c)) \in Nat /\ Cardinality(BeforeSet(c)) \in Nat
  BY FurnacesAssumption, Counts DEF FurnacesInv, SeatInv, WatchedExact, AtSet, BeforeSet
<1>1. ASSUME NEW f, watched' = [c \in Blocks |-> f[c]],
             \A c \in Blocks : /\ f[c] = Cardinality(AtSet(c)') + Cardinality(BeforeSet(c)')
                               /\ f[c] \in Nat
      PROVE  watched' \in [Blocks -> Nat] /\ WatchedExact'
  BY <1>1 DEF WatchedExact, AtSet, BeforeSet
<1>2. ASSUME NEW b \in Blocks, Watch(s, b)
      PROVE  watched' \in [Blocks -> Nat] /\ WatchedExact'
  <2> DEFINE r == [at |-> b, before |-> seat[s].at, step |-> "watching"]
             f == [c \in Blocks |-> IF c = b THEN watched[c] + 1 ELSE watched[c]]
  <2>1. seat' = [seat EXCEPT ![s] = r] /\ seat[s].before = None /\ r.at = b /\ r.before = seat[s].at
    BY <1>0, <1>2 DEF Watch
  <2>2. watched' = [c \in Blocks |-> f[c]]
    BY <1>0, <1>2 DEF Watch
  <2> HIDE DEF r, f
  <2>3. ASSUME NEW c \in Blocks
        PROVE  f[c] = Cardinality(AtSet(c)') + Cardinality(BeforeSet(c)') /\ f[c] \in Nat
    <3>0. /\ Cardinality(AtSet(c)') = Cardinality(AtSet(c)) - (IF seat[s].at = c THEN 1 ELSE 0)
                                        + (IF r.at = c THEN 1 ELSE 0)
          /\ Cardinality(BeforeSet(c)') = Cardinality(BeforeSet(c))
               - (IF seat[s].before = c THEN 1 ELSE 0) + (IF r.before = c THEN 1 ELSE 0)
          /\ seat[s].at = c => Cardinality(AtSet(c)) >= 1
          /\ seat[s].before = c => Cardinality(BeforeSet(c)) >= 1
      BY <1>0, <2>1, SeatCounts
    <3>1. /\ watched[c] = Cardinality(AtSet(c)) + Cardinality(BeforeSet(c)) /\ None # c
          /\ Cardinality(AtSet(c)) \in Nat /\ Cardinality(BeforeSet(c)) \in Nat /\ watched[c] \in Nat
      BY <1>0
    <3>2. f[c] = IF c = b THEN watched[c] + 1 ELSE watched[c]
      BY DEF f
    <3>3. CASE seat[s].at = c BY ONLY <2>1, <3>0, <3>1, <3>2, <3>3
    <3>4. CASE seat[s].at # c BY ONLY <2>1, <3>0, <3>1, <3>2, <3>4
    <3> QED BY <3>3, <3>4
  <2> QED BY <1>1, <2>2, <2>3
<1>3. CASE Unwatch(s)
  <2> DEFINE r == [seat[s] EXCEPT !.before = None, !.step = "mirroring"]
             f == [c \in Blocks |-> IF c = seat[s].before THEN watched[c] - 1 ELSE watched[c]]
  <2>1. seat' = [seat EXCEPT ![s] = r] /\ r.at = seat[s].at /\ r.before = None
    <3>1. seat[s] \in [at : Blocks \cup {None}, before : Blocks \cup {None}, step : Steps]
      BY <1>0
    <3>2. seat' = [seat EXCEPT ![s] = r]
      BY <1>0, <1>3, <3>1 DEF Unwatch
    <3>3. r.at = seat[s].at /\ r.before = None
      BY ONLY <3>1 DEF r
    <3> QED BY <3>2, <3>3
  <2>2. watched' = [c \in Blocks |-> f[c]]
    BY <1>3 DEF Unwatch
  <2> HIDE DEF r, f
  <2>3. ASSUME NEW c \in Blocks
        PROVE  f[c] = Cardinality(AtSet(c)') + Cardinality(BeforeSet(c)') /\ f[c] \in Nat
    <3>0. /\ Cardinality(AtSet(c)') = Cardinality(AtSet(c)) - (IF seat[s].at = c THEN 1 ELSE 0)
                                        + (IF r.at = c THEN 1 ELSE 0)
          /\ Cardinality(BeforeSet(c)') = Cardinality(BeforeSet(c))
               - (IF seat[s].before = c THEN 1 ELSE 0) + (IF r.before = c THEN 1 ELSE 0)
          /\ seat[s].at = c => Cardinality(AtSet(c)) >= 1
          /\ seat[s].before = c => Cardinality(BeforeSet(c)) >= 1
      BY <1>0, <2>1, SeatCounts
    <3>1. /\ watched[c] = Cardinality(AtSet(c)) + Cardinality(BeforeSet(c)) /\ None # c
          /\ Cardinality(AtSet(c)) \in Nat /\ Cardinality(BeforeSet(c)) \in Nat /\ watched[c] \in Nat
      BY <1>0
    <3>2. f[c] = IF c = seat[s].before THEN watched[c] - 1 ELSE watched[c]
      BY DEF f
    <3>3. CASE seat[s].at = c BY ONLY <2>1, <3>0, <3>1, <3>2, <3>3
    <3>4. CASE seat[s].at # c BY ONLY <2>1, <3>0, <3>1, <3>2, <3>4
    <3> QED BY <3>3, <3>4
  <2> QED BY <1>1, <2>2, <2>3
<1>4. CASE Close(s)
  <2> DEFINE f == [c \in Blocks |-> IF c = seat[s].at THEN watched[c] - 1 ELSE watched[c]]
  <2>1. /\ seat' = [seat EXCEPT ![s] = NotSeated] /\ seat[s].before = None
        /\ NotSeated.at = None /\ NotSeated.before = None
    <3>1. seat[s].step = "open" /\ seat' = [seat EXCEPT ![s] = NotSeated]
      BY <1>4 DEF Close
    <3>2. seat[s].before = None
      BY ONLY <1>0, <3>1
    <3>3. NotSeated.at = None /\ NotSeated.before = None
      BY DEF NotSeated
    <3> QED BY <3>1, <3>2, <3>3
  <2>2. watched' = [c \in Blocks |-> f[c]]
    BY <1>0, <1>4 DEF Close
  <2> HIDE DEF f
  <2>3. ASSUME NEW c \in Blocks
        PROVE  f[c] = Cardinality(AtSet(c)') + Cardinality(BeforeSet(c)') /\ f[c] \in Nat
    <3>0. /\ Cardinality(AtSet(c)') = Cardinality(AtSet(c)) - (IF seat[s].at = c THEN 1 ELSE 0)
                                        + (IF NotSeated.at = c THEN 1 ELSE 0)
          /\ Cardinality(BeforeSet(c)') = Cardinality(BeforeSet(c))
               - (IF seat[s].before = c THEN 1 ELSE 0) + (IF NotSeated.before = c THEN 1 ELSE 0)
          /\ seat[s].at = c => Cardinality(AtSet(c)) >= 1
          /\ seat[s].before = c => Cardinality(BeforeSet(c)) >= 1
      BY <1>0, <2>1, SeatCounts
    <3>1. /\ watched[c] = Cardinality(AtSet(c)) + Cardinality(BeforeSet(c)) /\ None # c
          /\ Cardinality(AtSet(c)) \in Nat /\ Cardinality(BeforeSet(c)) \in Nat /\ watched[c] \in Nat
      BY <1>0
    <3>2. f[c] = IF c = seat[s].at THEN watched[c] - 1 ELSE watched[c]
      BY DEF f
    <3>3. CASE seat[s].at = c BY ONLY <2>1, <3>0, <3>1, <3>2, <3>3
    <3>4. CASE seat[s].at # c BY ONLY <2>1, <3>0, <3>1, <3>2, <3>4
    <3> QED BY <3>3, <3>4
  <2> QED BY <1>1, <2>2, <2>3
<1> QED BY <1>2, <1>3, <1>4

\* The seats keep their types, and each is where its step can be.
LEMMA SeatStep ==
  ASSUME FurnacesInv, [FurnacesNext]_furnacesVars
  PROVE  /\ seat' \in [Players -> [at : Blocks \cup {None}, before : Blocks \cup {None}, step : Steps]]
         /\ SeatInv'
<1> DEFINE Seat == [at : Blocks \cup {None}, before : Blocks \cup {None}, step : Steps]
           Fits(r) == /\ r \in Seat
                      /\ r.step = "closed" <=> r.at = None
                      /\ r.step # "watching" => r.before = None
<1>0. seat \in [Players -> Seat] /\ None \notin Blocks /\ \A s \in Players : Fits(seat[s])
  BY FurnacesAssumption DEF FurnacesInv, SeatInv
<1>1. ASSUME NEW s \in Players, NEW r, seat' = [seat EXCEPT ![s] = r], Fits(r)
      PROVE  seat' \in [Players -> Seat] /\ SeatInv'
  <2>1. \A p \in Players : seat'[p] = IF p = s THEN r ELSE seat[p]
    BY <1>0, <1>1
  <2>2. \A p \in Players : Fits(seat'[p])
    BY <1>0, <1>1, <2>1
  <2>3. seat' = [p \in Players |-> seat'[p]]
    BY <1>0, <1>1
  <2> QED BY <2>2, <2>3 DEF SeatInv
<1>2. ASSUME NEW s \in Players, NEW b \in Blocks, Watch(s, b)
      PROVE  seat' \in [Players -> Seat] /\ SeatInv'
  <2> DEFINE r == [at |-> b, before |-> seat[s].at, step |-> "watching"]
  <2>1. seat' = [seat EXCEPT ![s] = r]
    BY <1>0, <1>2 DEF Watch
  <2>2. Fits(r)
    BY <1>0 DEF Steps
  <2> HIDE DEF r, Fits
  <2> QED BY <1>1, <2>1, <2>2
<1>3. ASSUME NEW s \in Players, Unwatch(s)
      PROVE  seat' \in [Players -> Seat] /\ SeatInv'
  <2> DEFINE r == [seat[s] EXCEPT !.before = None, !.step = "mirroring"]
  <2>1. seat' = [seat EXCEPT ![s] = r] /\ seat[s].step = "watching"
    BY <1>0, <1>3 DEF Unwatch
  <2>2. Fits(r)
    BY <1>0, <2>1 DEF Steps
  <2> HIDE DEF r, Fits
  <2> QED BY <1>1, <2>1, <2>2
<1>4. ASSUME NEW s \in Players, Mirror(s)
      PROVE  seat' \in [Players -> Seat] /\ SeatInv'
  <2> DEFINE r == [seat[s] EXCEPT !.step = "open"]
  <2>1. seat' = [seat EXCEPT ![s] = r] /\ seat[s].step \in {"mirroring", "open"}
    BY <1>0, <1>4 DEF Mirror
  <2>2. Fits(r)
    BY <1>0, <2>1 DEF Steps
  <2> HIDE DEF r, Fits
  <2> QED BY <1>1, <2>1, <2>2
<1>5. Fits(NotSeated)
  BY DEF NotSeated, Steps
<1>6. ASSUME NEW s \in Players, Close(s)
      PROVE  seat' \in [Players -> Seat] /\ SeatInv'
  BY <1>1, <1>5, <1>6 DEF Close
<1>7. CASE Restart
  <2>1. seat' = [p \in Players |-> NotSeated]
    BY <1>7 DEF Restart
  <2> QED BY <1>5, <2>1 DEF SeatInv
<1>8. ASSUME seat' = seat
      PROVE  seat' \in [Players -> Seat] /\ SeatInv'
  BY <1>0, <1>8 DEF SeatInv
<1>9. (\E s \in Players : Click(s)) \/ (\E b \in Blocks : Spill(b)) \/ TickFurnaces
        \/ UNCHANGED furnacesVars => seat' = seat
  BY DEF Click, Spill, TickFurnaces, furnacesVars
<1> HIDE DEF Fits
<1> QED BY <1>2, <1>3, <1>4, <1>6, <1>7, <1>8, <1>9 DEF FurnacesNext, Session

-----------------------------------------------------------------------------
(***************************************************************************)
(* What a step does to what is held.                                       *)
(***************************************************************************)
\* A click leaves a furnace whose stacks, and only the stacks, it changed.
LEMMA ServedFacts ==
  ASSUME NEW f \in FurnaceState, NEW g \in Served(f)
  PROVE  g \in FurnaceState /\ g = Refilled(f, g.input, g.fuel, g.output)
<1>1. PICK i \in Stack \cup {Empty}, u \in Stack \cup {Empty}, o \in Stack \cup {Empty} :
        g = Refilled(f, i, u, o)
  <2>1. /\ f.input \in Stack \cup {Empty} /\ f.fuel \in Stack \cup {Empty}
        /\ f.output \in Stack \cup {Empty}
    BY DEF FurnaceState
  <2>2. \/ \E i \in Inputs \cup {Empty} : g = Refilled(f, i, f.fuel, f.output)
        \/ \E u \in Fuels \cup {Empty} : g = Refilled(f, f.input, u, f.output)
        \/ g = Refilled(f, f.input, f.fuel, Empty)
    BY DEF Served
  <2>3. Inputs \subseteq Stack /\ Fuels \subseteq Stack
    BY FurnacesAssumption
  <2> QED BY ONLY <2>1, <2>2, <2>3
<1>2. 0 \in 0..CookTicks - 1
  BY StacksAssumption
<1> DEFINE n == IF i.kind = f.input.kind THEN f.cooking ELSE 0
<1>3. PICK p \in BOOLEAN : p = (f.banked /\ o.count >= f.output.count)
  OBVIOUS
<1>4. g = [f EXCEPT !.input = i, !.fuel = u, !.output = o, !.cooking = n, !.banked = p]
  BY <1>1, <1>3 DEF Refilled
<1>5. n \in 0..CookTicks - 1
  BY <1>2 DEF FurnaceState
<1> HIDE DEF n
<1>6. g \in FurnaceState /\ g.input = i /\ g.fuel = u /\ g.output = o
  BY <1>4, <1>5 DEF FurnaceState
<1> QED BY <1>1, <1>6

\* The four things that may happen to what is held; only the stacks of one
\* block, or that block's furnace altogether, unless all of them burn.
HeldStep ==
  \/ \A c \in Blocks : HeldAt(world', c) = HeldAt(world, c)
  \/ \E b \in Blocks, f \in FurnaceState :
       /\ f = Refilled(HeldAt(world, b), f.input, f.fuel, f.output)
       /\ \A c \in Blocks : HeldAt(world', c) = IF c = b THEN f ELSE HeldAt(world, c)
  \/ \E b \in Blocks : \A c \in Blocks :
       HeldAt(world', c) = IF c = b THEN NewFurnace ELSE HeldAt(world, c)
  \/ \A c \in Blocks : HeldAt(world', c) = FurnaceTick(HeldAt(world, c))

\* A session at the lock is at a block.
LEMMA SeatedAtBlock ==
  ASSUME FurnacesInv, NEW s \in Players, seat[s].step \in {"mirroring", "open"}
  PROVE  seat[s].at \in Blocks
<1>1. /\ seat[s] \in [at : Blocks \cup {None}, before : Blocks \cup {None}, step : Steps]
      /\ seat[s].step = "closed" <=> seat[s].at = None
  BY DEF FurnacesInv, SeatInv
<1> QED BY <1>1

LEMMA WorldStep ==
  ASSUME FurnacesInv, [FurnacesNext]_furnacesVars
  PROVE  Sound(world') /\ HeldStep
<1>0. Sound(world) /\ Owned(world) /\ \A b \in Blocks : HeldAt(world, b) \in FurnaceState
  BY OwnersApart DEF FurnacesInv, Sound
<1>1. ASSUME world' = world PROVE Sound(world') /\ HeldStep
  BY <1>0, <1>1 DEF HeldStep
<1>2. ASSUME NEW s \in Players, Mirror(s) PROVE Sound(world') /\ HeldStep
  <2>1. seat[s].at \in Blocks
    BY <1>2, SeatedAtBlock DEF Mirror
  <2>2. world' = With(world, seat[s].at, HeldAt(world, seat[s].at))
    BY <1>2 DEF Mirror, FurnaceAt, HeldAt
  <2>3. /\ Sound(world')
        /\ \A c \in Blocks : HeldAt(world', c) =
             IF c = seat[s].at THEN HeldAt(world, seat[s].at) ELSE HeldAt(world, c)
    BY <1>0, <2>1, <2>2, WithFacts
  <2>4. \A c \in Blocks : HeldAt(world', c) = HeldAt(world, c)
    BY ONLY <2>3
  <2> QED BY <2>3, <2>4 DEF HeldStep
<1>3. ASSUME NEW s \in Players, Click(s) PROVE Sound(world') /\ HeldStep
  <2> DEFINE b == seat[s].at
  <2>1. b \in Blocks
    BY <1>3, SeatedAtBlock DEF Click
  <2>2. PICK f \in Served(HeldAt(world, b)) : world' = With(world, b, f)
    BY <1>3 DEF Click, FurnaceAt, HeldAt
  <2> HIDE DEF b
  <2>3. f \in FurnaceState /\ f = Refilled(HeldAt(world, b), f.input, f.fuel, f.output)
    BY <1>0, <2>1, <2>2, ServedFacts
  <2>4. /\ Sound(world')
        /\ \A c \in Blocks : HeldAt(world', c) = IF c = b THEN f ELSE HeldAt(world, c)
    BY <1>0, <2>1, <2>2, <2>3, WithFacts
  <2> QED BY <2>1, <2>3, <2>4 DEF HeldStep
<1>4. ASSUME NEW b \in Blocks, Spill(b) PROVE Sound(world') /\ HeldStep
  <2>1. world' = Remove(world, b)
    BY <1>4 DEF Spill
  <2>2. /\ Sound(world')
        /\ \A c \in Blocks : HeldAt(world', c) = IF c = b THEN NewFurnace ELSE HeldAt(world, c)
    BY <1>0, <2>1, RemoveFacts
  <2> QED BY <2>2 DEF HeldStep
<1>5. CASE TickFurnaces
  <2>1. world' = Ticked(world)
    BY <1>5 DEF TickFurnaces
  <2>2. Sound(world') /\ \A c \in Blocks : HeldAt(world', c) = FurnaceTick(HeldAt(world, c))
    BY <1>0, <2>1, TickedFacts
  <2> QED BY <2>2 DEF HeldStep
<1>6. CASE Restart
  <2>1. world' = Restored(world)
    BY <1>6 DEF Restart
  <2>2. Sound(world') /\ \A c \in Blocks : HeldAt(world', c) = HeldAt(world, c)
    BY <1>0, <2>1, RestoredFacts
  <2> QED BY <2>2 DEF HeldStep
<1>7. \A s \in Players : (\E b \in Blocks : Watch(s, b)) \/ Unwatch(s) \/ Close(s) => world' = world
  BY DEF Watch, Unwatch, Close
<1>8. UNCHANGED furnacesVars => world' = world
  BY DEF furnacesVars
<1> QED BY <1>1, <1>2, <1>3, <1>4, <1>5, <1>6, <1>7, <1>8 DEF FurnacesNext, Session

-----------------------------------------------------------------------------
(***************************************************************************)
(* The invariant.                                                          *)
(***************************************************************************)
\* With nobody seated nothing is counted.
LEMMA Unseated ==
  ASSUME \A s \in Players : seat[s] = NotSeated, watched = [b \in Blocks |-> 0]
  PROVE  watched \in [Blocks -> Nat] /\ WatchedExact
<1>1. \A b \in Blocks : {s \in Players : seat[s].at = b} = {} /\ {s \in Players : seat[s].before = b} = {}
  BY FurnacesAssumption DEF NotSeated
<1>2. Cardinality({}) = 0
  BY FS_EmptySet
<1>3. watched \in [Blocks -> Nat] /\ \A b \in Blocks : watched[b] = 0 + 0
  OBVIOUS
<1>4. \A b \in Blocks : watched[b] = Cardinality({s \in Players : seat[s].at = b})
                                     + Cardinality({s \in Players : seat[s].before = b})
  BY ONLY <1>1, <1>2, <1>3
<1> QED BY <1>3, <1>4 DEF WatchedExact

LEMMA FurnacesInvInit == FurnacesInit => FurnacesInv
<1> SUFFICES ASSUME FurnacesInit PROVE FurnacesInv
  OBVIOUS
<1>1. Sound(world)
  BY NoFurnacesFacts DEF FurnacesInit
<1>2. seat = [s \in Players |-> NotSeated] /\ watched = [b \in Blocks |-> 0]
  BY DEF FurnacesInit
<1>3. watched \in [Blocks -> Nat] /\ WatchedExact
  BY <1>2, Unseated
<1>4. /\ seat \in [Players -> [at : Blocks \cup {None}, before : Blocks \cup {None}, step : Steps]]
      /\ SeatInv
  BY <1>2 DEF NotSeated, Steps, SeatInv
<1> QED BY <1>1, <1>3, <1>4 DEF FurnacesInv

LEMMA FurnacesInvStep == FurnacesInv /\ [FurnacesNext]_furnacesVars => FurnacesInv'
<1> SUFFICES ASSUME FurnacesInv, [FurnacesNext]_furnacesVars PROVE FurnacesInv'
  OBVIOUS
<1>1. Sound(world') /\ Sound(world)'
  BY WorldStep DEF Sound, Owned, Listed
<1>2. /\ seat' \in [Players -> [at : Blocks \cup {None}, before : Blocks \cup {None}, step : Steps]]
      /\ SeatInv'
  BY SeatStep
<1>3. watched' \in [Blocks -> Nat] /\ WatchedExact'
  <2>1. ASSUME NEW s \in Players, (\E b \in Blocks : Watch(s, b)) \/ Unwatch(s) \/ Close(s)
        PROVE  watched' \in [Blocks -> Nat] /\ WatchedExact'
    BY <2>1, WatchedStep
  <2>2. CASE Restart
    <3>1. (\A s \in Players : seat[s] = NotSeated)' /\ (watched = [b \in Blocks |-> 0])'
      BY <2>2 DEF Restart
    <3>2. \A b \in Blocks : /\ {s \in Players : seat'[s].at = b} = {}
                            /\ {s \in Players : seat'[s].before = b} = {}
      BY <3>1, FurnacesAssumption DEF NotSeated
    <3>3. Cardinality({}) = 0
      BY FS_EmptySet
    <3> QED BY <3>1, <3>2, <3>3 DEF WatchedExact
  <2>3. ASSUME watched' = watched,
               \A s \in Players : seat'[s].at = seat[s].at /\ seat'[s].before = seat[s].before
        PROVE  watched' \in [Blocks -> Nat] /\ WatchedExact'
    <3>1. \A b \in Blocks :
            /\ {s \in Players : seat'[s].at = b} = {s \in Players : seat[s].at = b}
            /\ {s \in Players : seat'[s].before = b} = {s \in Players : seat[s].before = b}
      BY <2>3
    <3> QED BY <2>3, <3>1 DEF FurnacesInv, WatchedExact
  <2>4. ASSUME NEW s \in Players, Mirror(s)
        PROVE  watched' = watched
               /\ \A p \in Players : seat'[p].at = seat[p].at /\ seat'[p].before = seat[p].before
    BY <2>4 DEF Mirror, FurnacesInv
  <2>5. (\E s \in Players : Click(s)) \/ (\E b \in Blocks : Spill(b)) \/ TickFurnaces
          \/ UNCHANGED furnacesVars => seat' = seat /\ watched' = watched
    BY DEF Click, Spill, TickFurnaces, furnacesVars
  <2> QED BY <2>1, <2>2, <2>3, <2>4, <2>5 DEF FurnacesNext, Session
<1> QED BY <1>1, <1>2, <1>3 DEF FurnacesInv

LEMMA FurnacesInvHolds == FurnacesSafety => []FurnacesInv
BY FurnacesInvInit, FurnacesInvStep, PTL DEF FurnacesSafety

LEMMA InvImplies == FurnacesInv => FurnacesTypeOK /\ TickSetExact /\ WatchedExact
<1> SUFFICES ASSUME FurnacesInv PROVE FurnacesTypeOK /\ TickSetExact /\ WatchedExact
  OBVIOUS
<1>1. Indexed
  BY DEF FurnacesInv, Sound, Owned, Indexed
<1>2. TickSetExact
  BY DEF FurnacesInv, Sound, Listed, TickSetExact
<1> QED BY <1>1, <1>2 DEF FurnacesInv, FurnacesTypeOK

\* Every index has one owner, a furnace's own block or the free list, once
\* (Inner::ensure, Inner::refresh, Furnaces::remove), across a restart too.
THEOREM FurnacesTyped == FurnacesSafety => []FurnacesTypeOK
<1>1. FurnacesInv => FurnacesTypeOK
  BY InvImplies
<1> QED BY <1>1, FurnacesInvHolds, PTL

\* The tick list has each furnace with something to do, once, and no other
\* (Inner::refresh, Furnaces::tick).
THEOREM TickListIsExact == FurnacesSafety => []TickSetExact
<1>1. FurnacesInv => TickSetExact
  BY InvImplies
<1> QED BY <1>1, FurnacesInvHolds, PTL

\* A watch is held for each screen and for nothing else (Furnaces::watch and
\* the Watch that is dropped), whoever opens and closes what.
THEOREM WatchesAreExact == FurnacesSafety => []WatchedExact
<1>1. FurnacesInv => WatchedExact
  BY InvImplies
<1> QED BY <1>1, FurnacesInvHolds, PTL

-----------------------------------------------------------------------------
(***************************************************************************)
(* The refinement.                                                         *)
(***************************************************************************)
\* What a block is taken to hold, as a function: the abstract variable.
EveryStep == [AsIfEvery!Next]_([b \in Blocks |-> FurnaceAt(b)])

LEMMA EveryInit == FurnacesInit => AsIfEvery!Init
<1> SUFFICES ASSUME FurnacesInit PROVE AsIfEvery!Init
  OBVIOUS
<1>1. \A b \in Blocks : FurnaceAt(b) = NewFurnace
  BY NoFurnacesFacts DEF FurnacesInit, HeldAt, FurnaceAt
<1>2. AsIfEvery!NewFurnace = NewFurnace
  BY DEF AsIfEvery!NewFurnace, NewFurnace, AsIfEvery!Empty, Empty, AsIfEvery!NoKind, NoKind
<1> QED BY <1>1, <1>2 DEF AsIfEvery!Init

\* The two readings of one furnace are the same one.
LEMMA SameFurnace ==
  /\ AsIfEvery!NewFurnace = NewFurnace
  /\ \A f, i, u, o : AsIfEvery!Refilled(f, i, u, o) = Refilled(f, i, u, o)
  /\ \A f : AsIfEvery!FurnaceTick(f) = FurnaceTick(f)
<1>0. AsIfEvery!NoKind = NoKind /\ AsIfEvery!Empty = Empty /\ AsIfEvery!Burning = Burning
      /\ AsIfEvery!CoolSpeed = CoolSpeed
  BY DEF AsIfEvery!Empty, Empty, AsIfEvery!NoKind, NoKind, AsIfEvery!Burning, Burning,
         AsIfEvery!CoolSpeed, CoolSpeed
<1>1. AsIfEvery!NewFurnace = NewFurnace
  BY <1>0 DEF AsIfEvery!NewFurnace, NewFurnace
<1>2. \A f, i, u, o : AsIfEvery!Refilled(f, i, u, o) = Refilled(f, i, u, o)
  BY DEF AsIfEvery!Refilled, Refilled
<1>3. /\ \A s, n : AsIfEvery!Less(s, n) = Less(s, n)
      /\ \A k : AsIfEvery!One(k) = One(k)
  BY <1>0 DEF AsIfEvery!Less, Less, AsIfEvery!One, One
<1>4. /\ \A f : AsIfEvery!CanBurn(f) = CanBurn(f)
      /\ \A f : AsIfEvery!Light(f) = Light(f)
      /\ \A f : AsIfEvery!Smelt(f) = Smelt(f)
      /\ \A f : AsIfEvery!Cool(f) = Cool(f)
  BY <1>0, <1>3 DEF AsIfEvery!CanBurn, CanBurn, AsIfEvery!HasRecipe, HasRecipe,
     AsIfEvery!Light, Light, AsIfEvery!Smelt, Smelt, AsIfEvery!Cool, Cool
<1>5. \A f : AsIfEvery!FurnaceTick(f) = FurnaceTick(f)
  BY <1>0, <1>4 DEF AsIfEvery!FurnaceTick, FurnaceTick
<1> QED BY <1>1, <1>2, <1>5

LEMMA EveryStepTaken == FurnacesInv /\ [FurnacesNext]_furnacesVars => EveryStep
<1> SUFFICES ASSUME FurnacesInv, [FurnacesNext]_furnacesVars PROVE EveryStep
  OBVIOUS
<1> DEFINE F == [b \in Blocks |-> HeldAt(world, b)]
           G == [b \in Blocks |-> HeldAt(world', b)]
<1>1. [b \in Blocks |-> FurnaceAt(b)] = F /\ [b \in Blocks |-> FurnaceAt(b)]' = G
  BY DEF FurnaceAt, HeldAt
<1>2. HeldStep
  BY WorldStep
<1>3. CASE \A c \in Blocks : HeldAt(world', c) = HeldAt(world, c)
  BY <1>1, <1>3 DEF EveryStep
<1>4. ASSUME NEW b \in Blocks, NEW f \in FurnaceState,
             f = Refilled(HeldAt(world, b), f.input, f.fuel, f.output),
             \A c \in Blocks : HeldAt(world', c) = IF c = b THEN f ELSE HeldAt(world, c)
      PROVE  EveryStep
  <2>1. G = [F EXCEPT ![b] = Refilled(@, G[b].input, G[b].fuel, G[b].output)]
    BY <1>4
  <2>2. AsIfEvery!Serve(b)
    BY <1>1, <2>1, SameFurnace DEF AsIfEvery!Serve
  <2> QED BY <2>2 DEF EveryStep, AsIfEvery!Next
<1>5. ASSUME NEW b \in Blocks,
             \A c \in Blocks : HeldAt(world', c) = IF c = b THEN NewFurnace ELSE HeldAt(world, c)
      PROVE  EveryStep
  <2>1. G = [F EXCEPT ![b] = NewFurnace]
    BY <1>5
  <2>2. AsIfEvery!Forget(b)
    BY <1>1, <2>1, SameFurnace DEF AsIfEvery!Forget
  <2> QED BY <2>2 DEF EveryStep, AsIfEvery!Next
<1>6. CASE \A c \in Blocks : HeldAt(world', c) = FurnaceTick(HeldAt(world, c))
  <2>1. G = [b \in Blocks |-> FurnaceTick(F[b])]
    BY <1>6
  <2>2. AsIfEvery!BurnAll
    BY <1>1, <2>1, SameFurnace DEF AsIfEvery!BurnAll
  <2> QED BY <2>2 DEF EveryStep, AsIfEvery!Next
<1> QED BY <1>2, <1>3, <1>4, <1>5, <1>6 DEF HeldStep

\* Ticking only the furnaces on the list, forgetting the empty ones, using
\* their cells again and coming back from a save are all invisible: it is as
\* if every block had a furnace and each burned at every tick
\* (net/furnaces.rs).
THEOREM FurnacesTickEvery == FurnacesSafety => TicksEveryFurnace
<1>1. FurnacesInit => AsIfEvery!Init
  BY EveryInit
<1>2. FurnacesInv /\ [FurnacesNext]_furnacesVars => [AsIfEvery!Next]_([b \in Blocks |-> FurnaceAt(b)])
  BY EveryStepTaken DEF EveryStep
<1> QED BY <1>1, <1>2, FurnacesInvHolds, PTL DEF FurnacesSafety, TicksEveryFurnace, AsIfEvery!Spec

=============================================================================
