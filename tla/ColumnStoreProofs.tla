------------------------- MODULE ColumnStoreProofs -------------------------
(***************************************************************************)
(* The residency and the warming queue, for any columns, rings, holders,   *)
(* cap, builders and batch size.                                           *)
(*                                                                         *)
(* The residency's argument: what the operators on the map do to one map,  *)
(* then that every claim taken adds exactly one slot to the claims on a    *)
(* column and every claim given back removes exactly one, and from both    *)
(* that the invariant is inductive.                                        *)
(*                                                                         *)
(* The queue's: `claimed` is at every moment the queue and the builders'   *)
(* hands, so what is queued anew, being unclaimed, is in neither; and a    *)
(* column leaves the queue into one pair of hands, and leaves those and    *)
(* `claimed` together.  The steps that take and give up claims are the     *)
(* residency's own.                                                        *)
(***************************************************************************)
EXTENDS ColumnStore, FiniteSetTheorems, SequenceTheorems, TLAPS

-----------------------------------------------------------------------------
(* Counting. *)

\* What is left of a finite set once T is taken out of it.
LEMMA CardinalityWithout ==
  ASSUME NEW S, NEW T, IsFiniteSet(S)
  PROVE  Cardinality(S \ T) = Cardinality(S) - Cardinality(T \cap S)
<1>1. T \cap S = S \cap T
  OBVIOUS
<1>2. Cardinality(S \ T) = Cardinality(S) - Cardinality(S \cap T)
  BY FS_Difference
<1> QED BY <1>1, <1>2

\* Two finite sets with nothing in common.
LEMMA CardinalityDisjoint ==
  ASSUME NEW S, NEW T, IsFiniteSet(S), IsFiniteSet(T), S \cap T = {}
  PROVE  Cardinality(S \cup T) = Cardinality(S) + Cardinality(T)
<1>1. Cardinality(S \cup T) = Cardinality(S) + Cardinality(T) - Cardinality(S \cap T)
  BY FS_Union
<1>2. Cardinality(S \cap T) = 0
  BY FS_EmptySet
<1>3. Cardinality(S) \in Nat /\ Cardinality(T) \in Nat
  BY FS_CardinalityType
<1> QED BY <1>1, <1>2, <1>3

\* Two slots that are not in B, each there or not.
LEMMA CardinalityOfTwo ==
  ASSUME NEW B, IsFiniteSet(B), NEW x, NEW y, x \notin B, y \notin B, x # y,
         NEW p \in BOOLEAN, NEW q \in BOOLEAN
  PROVE  Cardinality(B \cup (IF p THEN {x} ELSE {}) \cup (IF q THEN {y} ELSE {}))
           = Cardinality(B) + (IF p THEN 1 ELSE 0) + (IF q THEN 1 ELSE 0)
<1> DEFINE P == IF p THEN {x} ELSE {}
           Q == IF q THEN {y} ELSE {}
<1>1. IsFiniteSet(P) /\ Cardinality(P) = IF p THEN 1 ELSE 0
  BY FS_Singleton, FS_EmptySet
<1>2. IsFiniteSet(Q) /\ Cardinality(Q) = IF q THEN 1 ELSE 0
  BY FS_Singleton, FS_EmptySet
<1>3. B \cap P = {} /\ (B \cup P) \cap Q = {}
  OBVIOUS
<1> HIDE DEF P, Q
<1>4. IsFiniteSet(B \cup P) /\ Cardinality(B \cup P) = Cardinality(B) + Cardinality(P)
  BY <1>1, <1>3, FS_Union, CardinalityDisjoint
<1>5. Cardinality(B \cup P \cup Q) = Cardinality(B \cup P) + Cardinality(Q)
  BY <1>2, <1>3, <1>4, CardinalityDisjoint
<1> QED BY <1>1, <1>2, <1>4, <1>5 DEF P, Q

-----------------------------------------------------------------------------
(* The map. *)

\* Taking a claim on S adds one holder to each column of S, makes each of them
\* a key, and keeps the carried count right (residency.rs, take).
LEMMA TakeFacts ==
  ASSUME NEW k \in Kept, NEW S \in SUBSET Columns, CountExact(k)
  PROVE  /\ Take(k, S) \in Kept
         /\ CountExact(Take(k, S))
         /\ Unheld(Take(k, S)) = Unheld(k) \ S
         /\ \A c \in Columns : Take(k, S).holders[c]
                                 = k.holders[c] + (IF c \in S THEN 1 ELSE 0)
<1> DEFINE t == Take(k, S)
           zero == Unheld(k)
<1>1. /\ k.columns \subseteq Columns /\ k.built \subseteq k.columns
      /\ k.holders \in [Columns -> Nat] /\ k.retired \in Nat
      /\ zero \subseteq Columns
  BY DEF Kept, CountExact, Unheld
<1>2. IsFiniteSet(zero) /\ IsFiniteSet(S \cap zero) /\ IsFiniteSet(zero \ S)
  <2>1. S \cap zero \in SUBSET Columns /\ zero \ S \in SUBSET Columns
    BY <1>1
  <2> QED BY <1>1, <2>1, ResidencyAssumption, FS_Subset
<1>3. /\ t.columns = k.columns \cup S
      /\ t.built = k.built
      /\ t.holders \in [Columns -> Nat]
      /\ \A c \in Columns : t.holders[c] = k.holders[c] + (IF c \in S THEN 1 ELSE 0)
      /\ t.retired = k.retired - Cardinality(S \cap zero)
  BY <1>1 DEF Take
<1>4. Unheld(t) = zero \ S
  <2>1. ASSUME NEW c \in Columns
        PROVE  c \in Unheld(t) <=> c \in zero \ S
    BY <1>1, <1>3 DEF Unheld, CountExact
  <2> QED BY <2>1, <1>1, <1>3 DEF Unheld
<1>5. t.retired = Cardinality(zero \ S)
  <2>1. Cardinality(zero \ S) = Cardinality(zero) - Cardinality(S \cap zero)
    BY <1>2, CardinalityWithout
  <2> QED BY <2>1, <1>3 DEF CountExact
<1>6. t \in Kept
  <2>1. Cardinality(zero \ S) \in Nat
    BY <1>2, FS_CardinalityType
  <2>2. t.retired \in Nat
    BY <1>5, <2>1
  <2> QED BY <1>1, <1>3, <2>2 DEF Kept, Take
<1>7. CountExact(t)
  BY <1>1, <1>3, <1>4, <1>5 DEF CountExact
<1> QED BY <1>3, <1>4, <1>6, <1>7

\* Giving back claims that exist takes one holder from each column of S, and
\* the keys that lose their last one are counted (residency.rs, give_back).
LEMMA GiveBackFacts ==
  ASSUME NEW k \in Kept, NEW S \in SUBSET Columns, CountExact(k),
         \A c \in S : k.holders[c] > 0
  PROVE  /\ GiveBack(k, S) \in Kept
         /\ CountExact(GiveBack(k, S))
         /\ \A c \in Columns : GiveBack(k, S).holders[c]
                                 = k.holders[c] - (IF c \in S THEN 1 ELSE 0)
<1> DEFINE g == GiveBack(k, S)
           zero == Unheld(k)
           last == {c \in S : k.holders[c] = 1}
<1>1. /\ k.columns \subseteq Columns /\ k.built \subseteq k.columns
      /\ k.holders \in [Columns -> Nat] /\ k.retired \in Nat
      /\ zero \subseteq Columns /\ last \subseteq Columns
      /\ S \subseteq k.columns
  BY DEF Kept, CountExact, Unheld
<1>2. IsFiniteSet(zero) /\ IsFiniteSet(last)
  BY <1>1, ResidencyAssumption, FS_Subset
<1>3. {c \in S \cap k.columns : k.holders[c] > 0} = S
  BY <1>1
<1>4. /\ g.columns = k.columns
      /\ g.built = k.built
      /\ g.holders \in [Columns -> Nat]
      /\ \A c \in Columns : g.holders[c] = k.holders[c] - (IF c \in S THEN 1 ELSE 0)
      /\ g.retired = k.retired + Cardinality(last)
  BY <1>1, <1>3 DEF GiveBack
<1>5. Unheld(g) = zero \cup last
  <2>1. ASSUME NEW c \in Columns
        PROVE  c \in Unheld(g) <=> c \in zero \cup last
    BY <1>1, <1>4 DEF Unheld
  <2> QED BY <2>1, <1>1, <1>4 DEF Unheld
<1>6. g.retired = Cardinality(zero \cup last)
  <2>1. zero \cap last = {}
    BY <1>1 DEF Unheld
  <2>2. Cardinality(zero \cup last) = Cardinality(zero) + Cardinality(last)
    BY <1>2, <2>1, CardinalityDisjoint
  <2> QED BY <2>2, <1>4 DEF CountExact
<1>7. g \in Kept
  <2>1. Cardinality(last) \in Nat
    BY <1>2, FS_CardinalityType
  <2>2. g.retired \in Nat
    BY <1>1, <1>4, <2>1
  <2> QED BY <1>1, <1>4, <2>2 DEF Kept, GiveBack
<1>8. CountExact(g)
  BY <1>1, <1>4, <1>5, <1>6 DEF CountExact
<1> QED BY <1>4, <1>7, <1>8

\* A wholesale retirement changes nobody's holder count, leaves the carried
\* count right and leaves at most RetiredCap unheld keys (residency.rs, retire).
LEMMA RetireFacts ==
  ASSUME NEW k \in Kept, CountExact(k)
  PROVE  /\ Retire(k) \in Kept
         /\ CountExact(Retire(k))
         /\ Retire(k).holders = k.holders
         /\ Cardinality(Unheld(Retire(k))) <= RetiredCap
<1>1. CASE k.retired > RetiredCap
  <2>0. Retire(k) = [ columns |-> k.columns \ Unheld(k),
                      built   |-> k.built \ Unheld(k),
                      holders |-> k.holders,
                      retired |-> 0 ]
    BY <1>1 DEF Retire, Kept
  <2>1. /\ Retire(k) \in Kept
        /\ Retire(k).columns = k.columns \ Unheld(k)
        /\ Retire(k).built = k.built \ Unheld(k)
        /\ Retire(k).retired = 0
        /\ Retire(k).holders = k.holders
    BY <2>0 DEF Kept
  <2>2. Unheld(Retire(k)) = {}
    BY <2>1 DEF Unheld
  <2>3. \A c \in Columns \ Retire(k).columns : k.holders[c] = 0
    BY <2>1 DEF CountExact, Unheld
  <2> QED BY <2>1, <2>2, <2>3, FS_EmptySet, ResidencyAssumption DEF CountExact
<1>2. CASE ~(k.retired > RetiredCap)
  <2>1. Retire(k) = k
    BY <1>2 DEF Retire
  <2> QED BY <1>2, <2>1, ResidencyAssumption DEF CountExact, Kept
<1> QED BY <1>1, <1>2

-----------------------------------------------------------------------------
(* The claims. *)

\* There are finitely many places a claim can be held from.
LEMMA SlotsFinite == IsFiniteSet(Slots)
<1>1. IsFiniteSet({"ring", "old"}) /\ IsFiniteSet({"claim"})
  <2>1. IsFiniteSet({"ring"}) /\ IsFiniteSet({"claim"})
    BY FS_Singleton
  <2>2. IsFiniteSet({"ring"} \cup {"old"})
    BY <2>1, FS_AddElement
  <2>3. {"ring", "old"} = {"ring"} \cup {"old"}
    OBVIOUS
  <2> QED BY <2>1, <2>2, <2>3
<1>2. IsFiniteSet({"ring", "old"} \X Sessions) /\ IsFiniteSet({"claim"} \X Holders)
  BY <1>1, FS_Product, ResidencyAssumption
<1> QED BY <1>2, FS_Union DEF Slots

\* How many slots cover a column, counted apart from two of them.
LEMMA CountApartFromTwo ==
  ASSUME NEW f \in [Slots -> SUBSET Columns], NEW c,
         NEW x \in Slots, NEW y \in Slots, x # y
  PROVE  Cardinality(SlotsOn(f, c))
           = Cardinality({slot \in Slots \ {x, y} : c \in f[slot]})
               + (IF c \in f[x] THEN 1 ELSE 0) + (IF c \in f[y] THEN 1 ELSE 0)
<1> DEFINE B == {slot \in Slots \ {x, y} : c \in f[slot]}
           p == c \in f[x]
           q == c \in f[y]
<1>1. SlotsOn(f, c) = B \cup (IF p THEN {x} ELSE {}) \cup (IF q THEN {y} ELSE {})
  BY DEF SlotsOn
<1>2. IsFiniteSet(B)
  BY SlotsFinite, FS_Subset
<1>3. x \notin B /\ y \notin B /\ p \in BOOLEAN /\ q \in BOOLEAN
  OBVIOUS
<1> HIDE DEF B, p, q
<1>4. Cardinality(B \cup (IF p THEN {x} ELSE {}) \cup (IF q THEN {y} ELSE {}))
        = Cardinality(B) + (IF p THEN 1 ELSE 0) + (IF q THEN 1 ELSE 0)
  BY <1>2, <1>3, CardinalityOfTwo
<1> QED BY <1>1, <1>4 DEF B, p, q

\* When only two slots change, the number of claims on a column changes by
\* what those two gained and lost.
LEMMA TwoSlotsChange ==
  ASSUME NEW f \in [Slots -> SUBSET Columns], NEW g \in [Slots -> SUBSET Columns],
         NEW c, NEW x \in Slots, NEW y \in Slots, x # y,
         \A z \in Slots \ {x, y} : g[z] = f[z]
  PROVE  Cardinality(SlotsOn(g, c))
           = Cardinality(SlotsOn(f, c))
               - (IF c \in f[x] THEN 1 ELSE 0) - (IF c \in f[y] THEN 1 ELSE 0)
               + (IF c \in g[x] THEN 1 ELSE 0) + (IF c \in g[y] THEN 1 ELSE 0)
<1> DEFINE B == {slot \in Slots \ {x, y} : c \in f[slot]}
<1>1. {slot \in Slots \ {x, y} : c \in g[slot]} = B
  OBVIOUS
<1>2. Cardinality(B) \in Nat
  <2>1. IsFiniteSet(B)
    BY SlotsFinite, FS_Subset
  <2> QED BY <2>1, FS_CardinalityType
<1>3. Cardinality(SlotsOn(f, c))
        = Cardinality(B) + (IF c \in f[x] THEN 1 ELSE 0) + (IF c \in f[y] THEN 1 ELSE 0)
  BY CountApartFromTwo
<1>4. Cardinality(SlotsOn(g, c))
        = Cardinality(B) + (IF c \in g[x] THEN 1 ELSE 0) + (IF c \in g[y] THEN 1 ELSE 0)
  BY <1>1, CountApartFromTwo
<1> HIDE DEF B
<1> QED BY <1>2, <1>3, <1>4

\* The number of claims on a column is a number, and zero only without claims.
LEMMA ClaimsCounted ==
  ASSUME NEW f \in [Slots -> SUBSET Columns], NEW c
  PROVE  /\ Cardinality(SlotsOn(f, c)) \in Nat
         /\ \A slot \in Slots : c \in f[slot] => Cardinality(SlotsOn(f, c)) > 0
<1>1. IsFiniteSet(SlotsOn(f, c))
  BY SlotsFinite, FS_Subset DEF SlotsOn
<1>2. Cardinality(SlotsOn(f, c)) \in Nat
  BY <1>1, FS_CardinalityType
<1>3. ASSUME NEW slot \in Slots, c \in f[slot]
      PROVE  Cardinality(SlotsOn(f, c)) # 0
  <2>1. slot \in SlotsOn(f, c)
    BY <1>3 DEF SlotsOn
  <2> QED BY <1>1, <2>1, FS_EmptySet
<1> QED BY <1>2, <1>3

\* The same when only one slot changes.
LEMMA OneSlotChanges ==
  ASSUME NEW f \in [Slots -> SUBSET Columns], NEW g \in [Slots -> SUBSET Columns],
         NEW c, NEW x \in Slots,
         \A z \in Slots \ {x} : g[z] = f[z]
  PROVE  Cardinality(SlotsOn(g, c))
           = Cardinality(SlotsOn(f, c))
               - (IF c \in f[x] THEN 1 ELSE 0) + (IF c \in g[x] THEN 1 ELSE 0)
<1> DEFINE B == {slot \in Slots \ {x} : c \in f[slot]}
<1>1. /\ IsFiniteSet(B) /\ x \notin B
      /\ Cardinality(B) \in Nat
      /\ Cardinality(B \cup {x}) = Cardinality(B) + 1
  <2>1. IsFiniteSet(B) /\ x \notin B
    BY SlotsFinite, FS_Subset
  <2> HIDE DEF B
  <2> QED BY <2>1, FS_AddElement, FS_CardinalityType
<1>2. SlotsOn(f, c) = IF c \in f[x] THEN B \cup {x} ELSE B
  BY DEF SlotsOn
<1>3. SlotsOn(g, c) = IF c \in g[x] THEN B \cup {x} ELSE B
  BY DEF SlotsOn
<1> HIDE DEF B
<1> QED BY <1>1, <1>2, <1>3

-----------------------------------------------------------------------------
(* The steps. *)

\* The operators of a release, on claims that exist: one holder fewer on each
\* column of S, the carried count right, and the cap kept.
LEMMA ReleaseFacts ==
  ASSUME NEW k \in Kept, NEW S \in SUBSET Columns, CountExact(k),
         \A c \in S : k.holders[c] > 0
  PROVE  /\ Release(k, S) \in Kept
         /\ CountExact(Release(k, S))
         /\ Cardinality(Unheld(Release(k, S))) <= RetiredCap
         /\ \A c \in Columns : Release(k, S).holders[c]
                                 = k.holders[c] - (IF c \in S THEN 1 ELSE 0)
BY GiveBackFacts, RetireFacts DEF Release

\* The claims there are, as one function of the slot.
LEMMA CoversTyped == TypeOK => Covers \in [Slots -> SUBSET Columns]
BY ResidencyAssumption DEF TypeOK, Covers, Slots, RingAt

\* Filling a column changes no count.
LEMMA FillFacts ==
  ASSUME NEW k \in Kept, NEW S \in SUBSET Columns, CountExact(k)
  PROVE  /\ Fill(k, S) \in Kept
         /\ CountExact(Fill(k, S))
         /\ Unheld(Fill(k, S)) = Unheld(k)
         /\ Fill(k, S).holders = k.holders
<1>1. Fill(k, S) \in Kept /\ Unheld(Fill(k, S)) = Unheld(k)
  BY DEF Kept, Unheld, Fill
<1> QED BY <1>1 DEF CountExact, Fill

\* Type, exact reference counts, an exact count of unheld keys and the cap hold
\* for every set of columns, rings, sessions, holders and every cap
\* (residency.rs: hold, release, exchange, fill_many and both guards).
THEOREM ResidencyInvariant == Spec => []IInv
<1>1. Init => IInv
  <2> SUFFICES ASSUME Init PROVE IInv
    OBVIOUS
  <2>1. TypeOK
    BY ResidencyAssumption DEF Init, TypeOK, Kept, Empty
  <2>2. RetiredExact /\ RetiredBounded
    <3>1. Unheld(kept) = {}
      BY DEF Init, Empty, Unheld
    <3>2. Cardinality(Unheld(kept)) = 0
      BY <3>1, FS_EmptySet
    <3>3. /\ kept.retired = 0 /\ kept.built = {}
          /\ \A c \in Columns : kept.holders[c] = 0
      BY DEF Init, Empty
    <3> QED BY <3>2, <3>3, ResidencyAssumption
            DEF RetiredExact, RetiredBounded, CountExact
  <2>3. RefcountExact
    <3>1. ASSUME NEW c \in Columns PROVE ClaimsOn(c) = {}
      BY DEF Init, ClaimsOn, SlotsOn, Covers, Slots, RingAt
    <3> QED BY <3>1, FS_EmptySet DEF RefcountExact, Init, Empty
  <2> QED BY <2>1, <2>2, <2>3 DEF IInv
<1>2. IInv /\ [Next]_residencyVars => IInv'
  <2> SUFFICES ASSUME IInv, [Next]_residencyVars PROVE IInv'
    OBVIOUS
  <2> USE ResidencyAssumption
  <2>1. /\ TypeOK /\ RefcountExact /\ CountExact(kept)
        /\ Cardinality(Unheld(kept)) <= RetiredCap
        /\ kept \in Kept
        /\ Covers \in [Slots -> SUBSET Columns]
    BY CoversTyped DEF IInv, RetiredExact, RetiredBounded, TypeOK
  <2>2. \A slot \in Slots : \A c \in Covers[slot] : kept.holders[c] > 0
    BY <2>1, ClaimsCounted DEF RefcountExact, ClaimsOn
  <2>3. TypeOK' => Covers' \in [Slots -> SUBSET Columns]
    BY DEF TypeOK, Covers, Slots, RingAt
  <2>4. ASSUME NEW s \in Sessions, NEW p \in Centres, Hold(s, p)
        PROVE  IInv'
    <3> DEFINE x == <<"ring", s>>
               y == <<"old", s>>
    <3>1. Ring[p] \in SUBSET Columns /\ kept' = Take(kept, Ring[p])
      BY <2>4 DEF Hold
    <3>2. /\ kept' \in Kept /\ CountExact(kept')
          /\ Unheld(kept') \in SUBSET Unheld(kept)
          /\ \A c \in Columns : kept'.holders[c]
                                  = kept.holders[c] + (IF c \in Ring[p] THEN 1 ELSE 0)
      BY <2>1, <3>1, TakeFacts
    <3>3. TypeOK'
      BY <2>1, <2>4, <3>2 DEF TypeOK, Hold
    <3>4. Cardinality(Unheld(kept')) <= RetiredCap
      <4>1. IsFiniteSet(Unheld(kept))
        BY <2>1, FS_Subset DEF Unheld, Kept
      <4> QED BY <2>1, <3>2, <4>1, FS_Subset, FS_CardinalityType
    <3>5. /\ x \in Slots /\ y \in Slots /\ x # y
          /\ Covers[x] = RingAt(centre[s]) /\ Covers[y] = {}
          /\ Covers'[x] = Ring[p] /\ Covers'[y] = RingAt(centre[s])
          /\ \A z \in Slots \ {x, y} : Covers'[z] = Covers[z]
      BY <2>1, <2>4 DEF Slots, Covers, RingAt, Hold, TypeOK
    <3>6. ASSUME NEW c \in Columns
          PROVE  kept'.holders[c] = Cardinality(SlotsOn(Covers', c))
      <4> HIDE DEF x, y
      <4>1. Cardinality(SlotsOn(Covers', c))
              = Cardinality(SlotsOn(Covers, c))
                  - (IF c \in Covers[x] THEN 1 ELSE 0) - (IF c \in Covers[y] THEN 1 ELSE 0)
                  + (IF c \in Covers'[x] THEN 1 ELSE 0) + (IF c \in Covers'[y] THEN 1 ELSE 0)
        BY <2>1, <2>3, <3>3, <3>5, TwoSlotsChange
      <4>2. Cardinality(SlotsOn(Covers, c)) \in Nat
        BY <2>1, ClaimsCounted
      <4>3. kept.holders[c] = Cardinality(SlotsOn(Covers, c))
        BY <2>1 DEF RefcountExact, ClaimsOn
      <4> QED BY <3>2, <3>5, <4>1, <4>2, <4>3
    <3> QED BY <3>2, <3>3, <3>4, <3>6
            DEF IInv, RefcountExact, RetiredExact, RetiredBounded, ClaimsOn
  <2>5. ASSUME NEW x \in Slots, kept' = Release(kept, Covers[x]),
               centre' \in [Sessions -> Centres \cup {None}],
               leaving' \in [Sessions -> Centres \cup {None}],
               held' \in [Holders -> SUBSET Columns],
               Covers'[x] = {},
               \A z \in Slots \ {x} : Covers'[z] = Covers[z]
        PROVE  IInv'
    <3>1. Covers[x] \in SUBSET Columns /\ \A c \in Covers[x] : kept.holders[c] > 0
      BY <2>1, <2>2
    <3>2. /\ kept' \in Kept /\ CountExact(kept')
          /\ Cardinality(Unheld(kept')) <= RetiredCap
          /\ \A c \in Columns : kept'.holders[c]
                                  = kept.holders[c] - (IF c \in Covers[x] THEN 1 ELSE 0)
      BY <2>1, <2>5, <3>1, ReleaseFacts
    <3>3. TypeOK'
      BY <2>5, <3>2 DEF TypeOK
    <3>4. ASSUME NEW c \in Columns
          PROVE  kept'.holders[c] = Cardinality(SlotsOn(Covers', c))
      <4>1. Cardinality(SlotsOn(Covers', c))
              = Cardinality(SlotsOn(Covers, c))
                  - (IF c \in Covers[x] THEN 1 ELSE 0) + (IF c \in Covers'[x] THEN 1 ELSE 0)
        BY <2>1, <2>3, <2>5, <3>3, OneSlotChanges
      <4>2. Cardinality(SlotsOn(Covers, c)) \in Nat
        BY <2>1, ClaimsCounted
      <4>3. kept.holders[c] = Cardinality(SlotsOn(Covers, c))
        BY <2>1 DEF RefcountExact, ClaimsOn
      <4> QED BY <2>5, <3>2, <4>1, <4>2, <4>3
    <3> QED BY <3>2, <3>3, <3>4
            DEF IInv, RefcountExact, RetiredExact, RetiredBounded, ClaimsOn
  <2>6. ASSUME NEW s \in Sessions, LeaveOld(s)
        PROVE  IInv'
    <3> DEFINE x == <<"old", s>>
    <3>1. /\ x \in Slots /\ kept' = Release(kept, Covers[x])
          /\ Covers'[x] = {}
          /\ \A z \in Slots \ {x} : Covers'[z] = Covers[z]
      BY <2>1, <2>6 DEF Slots, Covers, RingAt, LeaveOld, TypeOK
    <3>2. /\ centre' \in [Sessions -> Centres \cup {None}]
          /\ leaving' \in [Sessions -> Centres \cup {None}]
          /\ held' \in [Holders -> SUBSET Columns]
      BY <2>1, <2>6 DEF LeaveOld, TypeOK
    <3> HIDE DEF x
    <3> QED BY <3>1, <3>2, <2>5
  <2>7. ASSUME NEW s \in Sessions, DropResidence(s)
        PROVE  IInv'
    <3> DEFINE x == <<"ring", s>>
    <3>1. /\ x \in Slots /\ kept' = Release(kept, Covers[x])
          /\ Covers'[x] = {}
          /\ \A z \in Slots \ {x} : Covers'[z] = Covers[z]
      BY <2>1, <2>7 DEF Slots, Covers, RingAt, DropResidence, TypeOK
    <3>2. /\ centre' \in [Sessions -> Centres \cup {None}]
          /\ leaving' \in [Sessions -> Centres \cup {None}]
          /\ held' \in [Holders -> SUBSET Columns]
      BY <2>1, <2>7 DEF DropResidence, TypeOK
    <3> HIDE DEF x
    <3> QED BY <3>1, <3>2, <2>5
  <2>8. ASSUME NEW h \in Holders, DropClaim(h)
        PROVE  IInv'
    <3> DEFINE x == <<"claim", h>>
    <3>1. /\ x \in Slots /\ kept' = Release(kept, Covers[x])
          /\ Covers'[x] = {}
          /\ \A z \in Slots \ {x} : Covers'[z] = Covers[z]
      BY <2>1, <2>8 DEF Slots, Covers, RingAt, DropClaim, TypeOK
    <3>2. /\ centre' \in [Sessions -> Centres \cup {None}]
          /\ leaving' \in [Sessions -> Centres \cup {None}]
          /\ held' \in [Holders -> SUBSET Columns]
      BY <2>1, <2>8 DEF DropClaim, TypeOK
    <3> HIDE DEF x
    <3> QED BY <3>1, <3>2, <2>5
  <2>9. ASSUME NEW h \in Holders, NEW wanted \in SUBSET Columns, SetClaim(h, wanted)
        PROVE  IInv'
    <3> DEFINE x == <<"claim", h>>
               A == wanted \ held[h]
               D == held[h] \ wanted
    <3>1. /\ x \in Slots /\ Covers[x] = held[h] /\ Covers'[x] = wanted
          /\ \A z \in Slots \ {x} : Covers'[z] = Covers[z]
      BY <2>1, <2>9 DEF Slots, Covers, RingAt, SetClaim, TypeOK
    <3>2. /\ A \in SUBSET Columns /\ D \in SUBSET Columns /\ A \cap D = {}
          /\ \A c \in D : kept.holders[c] > 0
      BY <2>1, <2>2, <2>9, <3>1 DEF SetClaim, TypeOK
    <3>3. /\ kept' \in Kept /\ CountExact(kept')
          /\ Cardinality(Unheld(kept')) <= RetiredCap
          /\ \A c \in Columns : kept'.holders[c]
                                  = kept.holders[c] + (IF c \in A THEN 1 ELSE 0)
                                                    - (IF c \in D THEN 1 ELSE 0)
      <4> HIDE DEF A, D
      <4> DEFINE t == Take(kept, A)
      <4>1. /\ t \in Kept /\ CountExact(t)
            /\ \A c \in Columns : t.holders[c]
                                    = kept.holders[c] + (IF c \in A THEN 1 ELSE 0)
        BY <2>1, <3>2, TakeFacts
      <4>2. kept' = Release(t, D)
        BY <2>9 DEF SetClaim, Exchange, Release, A, D
      <4> HIDE DEF t
      <4>3. \A c \in D : t.holders[c] > 0
        BY <2>1, <3>2, <4>1 DEF Kept
      <4>4. /\ Release(t, D) \in Kept /\ CountExact(Release(t, D))
            /\ Cardinality(Unheld(Release(t, D))) <= RetiredCap
            /\ \A c \in Columns : Release(t, D).holders[c]
                                    = t.holders[c] - (IF c \in D THEN 1 ELSE 0)
        BY <3>2, <4>1, <4>3, ReleaseFacts
      <4>5. \A c \in Columns : Release(t, D).holders[c]
                                 = kept.holders[c] + (IF c \in A THEN 1 ELSE 0)
                                                   - (IF c \in D THEN 1 ELSE 0)
        BY <2>1, <4>1, <4>4 DEF Kept
      <4> QED BY <4>2, <4>4, <4>5
    <3>4. TypeOK'
      BY <2>1, <2>9, <3>3 DEF TypeOK, SetClaim
    <3>5. ASSUME NEW c \in Columns
          PROVE  kept'.holders[c] = Cardinality(SlotsOn(Covers', c))
      <4>1. Cardinality(SlotsOn(Covers', c))
              = Cardinality(SlotsOn(Covers, c))
                  - (IF c \in held[h] THEN 1 ELSE 0) + (IF c \in wanted THEN 1 ELSE 0)
        <5> HIDE DEF x
        <5> QED BY <2>1, <2>3, <3>1, <3>4, OneSlotChanges
      <4>2. Cardinality(SlotsOn(Covers, c)) \in Nat
        BY <2>1, ClaimsCounted
      <4>3. kept.holders[c] = Cardinality(SlotsOn(Covers, c))
        BY <2>1 DEF RefcountExact, ClaimsOn
      <4> QED BY <3>3, <4>1, <4>2, <4>3
    <3> QED BY <3>3, <3>4, <3>5
            DEF IInv, RefcountExact, RetiredExact, RetiredBounded, ClaimsOn
  <2>10. ASSUME NEW S \in SUBSET Columns, FillMany(S)
         PROVE  IInv'
    <3>1. /\ kept' \in Kept /\ CountExact(kept')
          /\ Unheld(kept') = Unheld(kept) /\ kept'.holders = kept.holders
      BY <2>1, <2>10, FillFacts DEF FillMany
    <3>2. Covers' = Covers
      BY <2>10 DEF FillMany, Covers, RingAt
    <3> QED BY <2>1, <2>10, <3>1, <3>2
            DEF IInv, TypeOK, RefcountExact, RetiredExact, RetiredBounded,
                ClaimsOn, FillMany
  <2>11. CASE UNCHANGED residencyVars
    <3>1. Covers' = Covers
      BY <2>11 DEF residencyVars, Covers, RingAt
    <3> QED BY <2>1, <2>11, <3>1
            DEF residencyVars, IInv, TypeOK, RefcountExact, RetiredExact,
                RetiredBounded, ClaimsOn
  <2> QED BY <2>4, <2>6, <2>7, <2>8, <2>9, <2>10, <2>11 DEF Next
<1> QED BY <1>1, <1>2, PTL DEF Spec

-----------------------------------------------------------------------------
(* What follows. *)

\* The counts of the map are the counts of the claims (residency.rs, take and
\* give_back).
THEOREM RefcountsAreExact == Spec => []RefcountExact
<1>1. IInv => RefcountExact
  BY DEF IInv
<1> QED BY <1>1, ResidencyInvariant, PTL

\* A held column is in the map, whoever releases whatever (residency.rs, retire).
THEOREM HeldIsAlwaysKept == Spec => []HeldIsKept
<1>1. IInv => HeldIsKept
  <2> SUFFICES ASSUME IInv, NEW slot \in Slots, NEW c \in Covers[slot]
               PROVE  c \in kept.columns
    BY DEF HeldIsKept
  <2>1. Covers \in [Slots -> SUBSET Columns]
    BY CoversTyped DEF IInv
  <2>2. c \in Columns /\ kept.holders[c] > 0
    BY <2>1, ClaimsCounted DEF IInv, RefcountExact, ClaimsOn
  <2> QED BY <2>2 DEF IInv, RetiredExact, CountExact
<1> QED BY <1>1, ResidencyInvariant, PTL

\* No more than RetiredCap columns are kept for nobody (residency.rs, retire).
THEOREM RetiredIsBounded == Spec => []RetiredBounded
<1>1. IInv => RetiredBounded
  BY DEF IInv
<1> QED BY <1>1, ResidencyInvariant, PTL

\* No step rebuilds what somebody goes on holding (residency.rs, move_to and
\* exchange: additions before removals).
THEOREM HeldColumnsStayBuilt == Spec => HeldStaysBuilt
<1>1. IInv /\ IInv' /\ [Next]_residencyVars
        => [\A c \in kept.built :
              (ClaimsOn(c) # {} /\ ClaimsOn(c)' # {}) => c \in kept'.built]_residencyVars
  <2> SUFFICES ASSUME IInv, IInv', Next, NEW c \in kept.built,
                      ClaimsOn(c) # {}, ClaimsOn(c)' # {}
               PROVE  c \in kept'.built
    BY DEF residencyVars
  <2>1. /\ kept \in Kept /\ CountExact(kept) /\ c \in Columns
        /\ kept'.columns \in SUBSET Columns
    BY DEF IInv, TypeOK, RetiredExact, Kept
  <2>2. c \in kept'.columns
    <3>1. Covers' \in [Slots -> SUBSET Columns]
      BY ResidencyAssumption DEF IInv, TypeOK, Covers, Slots, RingAt
    <3>2. PICK slot \in Slots : c \in Covers'[slot]
      BY DEF ClaimsOn, SlotsOn
    <3>3. Cardinality(SlotsOn(Covers', c)) > 0
      BY <3>1, <3>2, ClaimsCounted
    <3>4. kept'.holders[c] > 0
      BY <2>1, <3>3 DEF IInv, RefcountExact, ClaimsOn
    <3> QED BY <2>1, <3>4 DEF IInv, RetiredExact, CountExact
  <2>3. kept.built \cap kept'.columns \subseteq kept'.built
    <3>1. ASSUME NEW S \in SUBSET Columns, kept' = Take(kept, S)
          PROVE  kept'.built = kept.built
      BY <3>1 DEF Take
    <3>2. ASSUME NEW k \in Kept, NEW S \in SUBSET Columns, k.built = kept.built,
                 kept' = Release(k, S)
          PROVE  kept.built \cap kept'.columns \subseteq kept'.built
      <4> DEFINE g == GiveBack(k, S)
      <4>1. g.built = kept.built /\ kept' = Retire(g)
        BY <3>2 DEF Release, GiveBack
      <4> HIDE DEF g
      <4>2. CASE g.retired > RetiredCap
        <5>1. kept'.columns = g.columns \ Unheld(g) /\ kept'.built = g.built \ Unheld(g)
          BY <4>1, <4>2 DEF Retire
        <5> QED BY <4>1, <5>1
      <4>3. CASE ~(g.retired > RetiredCap)
        BY <4>1, <4>3 DEF Retire
      <4> QED BY <4>2, <4>3
    <3>3. ASSUME NEW s \in Sessions, NEW p \in Centres, Hold(s, p)
          PROVE  kept.built \cap kept'.columns \subseteq kept'.built
      BY <3>1, <3>3, ResidencyAssumption DEF Hold
    <3>4. ASSUME NEW s \in Sessions, LeaveOld(s) \/ DropResidence(s)
          PROVE  kept.built \cap kept'.columns \subseteq kept'.built
      BY <2>1, <3>2, <3>4, ResidencyAssumption DEF LeaveOld, DropResidence, IInv, TypeOK
    <3>5. ASSUME NEW h \in Holders, NEW wanted \in SUBSET Columns, SetClaim(h, wanted)
          PROVE  kept.built \cap kept'.columns \subseteq kept'.built
      <4>1. wanted \ held[h] \in SUBSET Columns /\ held[h] \ wanted \in SUBSET Columns
        BY DEF IInv, TypeOK
      <4>2. /\ Take(kept, wanted \ held[h]) \in Kept
            /\ Take(kept, wanted \ held[h]).built = kept.built
        BY <2>1, <4>1, TakeFacts DEF Take
      <4>3. kept' = Release(Take(kept, wanted \ held[h]), held[h] \ wanted)
        BY <3>5 DEF SetClaim, Exchange, Release
      <4> QED BY <3>2, <4>1, <4>2, <4>3
    <3>6. ASSUME NEW h \in Holders, DropClaim(h)
          PROVE  kept.built \cap kept'.columns \subseteq kept'.built
      BY <2>1, <3>2, <3>6 DEF DropClaim, IInv, TypeOK
    <3>7. ASSUME NEW S \in SUBSET Columns, FillMany(S)
          PROVE  kept.built \cap kept'.columns \subseteq kept'.built
      BY <3>7 DEF FillMany, Fill
    <3> QED BY <3>3, <3>4, <3>5, <3>6, <3>7 DEF Next
  <2> QED BY <2>2, <2>3
<1> QED BY <1>1, ResidencyInvariant, PTL DEF Spec, HeldStaysBuilt

-----------------------------------------------------------------------------
(***************************************************************************)
(* The queue.                                                              *)
(***************************************************************************)

\* The members of a sequence.
Members(q) == {q[i] : i \in DOMAIN q}

\* No two places of q hold the same column.
Distinct(q) == \A i, j \in DOMAIN q : q[i] = q[j] => i = j

\* An order of S is a sequence of S, of each member once.
LEMMA OrderFacts ==
  ASSUME NEW S \in SUBSET Columns, NEW q \in InKeyOrder(S)
  PROVE  q \in Seq(S) /\ q \in Seq(Columns) /\ Members(q) = S /\ Distinct(q)
<1> DEFINE n == Cardinality(S)
<1>1. IsFiniteSet(S) /\ n \in Nat
  BY FS_Subset, FS_CardinalityType, ResidencyAssumption
<1>2. q \in [1..n -> S] /\ \A i, j \in 1..n : i < j => q[i] < q[j]
  BY DEF InKeyOrder
<1> HIDE DEF n
<1>3. q \in Seq(S) /\ q \in Seq(Columns) /\ DOMAIN q = 1..n
  BY <1>1, <1>2
<1>4. ASSUME NEW i \in 1..n, NEW j \in 1..n, q[i] = q[j] PROVE i = j
  <2>1. q[i] \in Int /\ q[j] \in Int
    BY <1>2, StoreAssumption
  <2>2. ~(i < j) /\ ~(j < i)
    BY <1>2, <1>4, <2>1
  <2> QED BY <1>1, <2>2
<1>5. q \in Injection(1..n, S)
  BY <1>2, <1>4 DEF Injection, IsInjective
<1>6. Cardinality(1..n) = Cardinality(S)
  BY <1>1, FS_Interval DEF n
<1>7. q \in Surjection(1..n, S)
  BY <1>1, <1>5, <1>6, FS_Injection
<1>8. Members(q) = S
  BY <1>2, <1>3, <1>7 DEF Members, Surjection
<1> QED BY <1>3, <1>4, <1>8 DEF Distinct

\* What a queue holds once an order of new columns is appended to it.
LEMMA AppendFacts ==
  ASSUME NEW q \in Seq(Columns), NEW r \in Seq(Columns),
         Distinct(q), Distinct(r), Members(q) \cap Members(r) = {}
  PROVE  /\ q \o r \in Seq(Columns)
         /\ Members(q \o r) = Members(q) \cup Members(r)
         /\ Distinct(q \o r)
<1>1. /\ q \o r \in Seq(Columns)
      /\ Len(q \o r) = Len(q) + Len(r)
      /\ \A i \in 1..(Len(q) + Len(r)) :
           (q \o r)[i] = IF i <= Len(q) THEN q[i] ELSE r[i - Len(q)]
  BY ConcatProperties
<1>2. /\ DOMAIN q = 1..Len(q) /\ DOMAIN r = 1..Len(r) /\ DOMAIN (q \o r) = 1..(Len(q) + Len(r))
      /\ Len(q) \in Nat /\ Len(r) \in Nat
  BY <1>1
<1>3. Members(q \o r) \subseteq Members(q) \cup Members(r)
  <2> SUFFICES ASSUME NEW c \in Members(q \o r) PROVE c \in Members(q) \cup Members(r)
    OBVIOUS
  <2>1. PICK i \in 1..(Len(q) + Len(r)) : c = (q \o r)[i]
    BY <1>2 DEF Members
  <2>2. CASE i <= Len(q)
    BY <1>1, <1>2, <2>1, <2>2 DEF Members
  <2>3. CASE ~(i <= Len(q))
    <3>1. i - Len(q) \in 1..Len(r) /\ c = r[i - Len(q)]
      BY <1>1, <1>2, <2>1, <2>3
    <3> QED BY <1>2, <3>1 DEF Members
  <2> QED BY <2>2, <2>3
<1>4. Members(q) \subseteq Members(q \o r)
  BY <1>1, <1>2 DEF Members
<1>5. Members(r) \subseteq Members(q \o r)
  <2> SUFFICES ASSUME NEW c \in Members(r) PROVE c \in Members(q \o r)
    OBVIOUS
  <2>1. PICK i \in 1..Len(r) : c = r[i]
    BY <1>2 DEF Members
  <2>2. i + Len(q) \in 1..(Len(q) + Len(r)) /\ (q \o r)[i + Len(q)] = r[i]
    BY <1>1, <1>2
  <2> QED BY <1>2, <2>1, <2>2 DEF Members
<1>6. ASSUME NEW i \in 1..(Len(q) + Len(r)), NEW j \in 1..(Len(q) + Len(r)),
             (q \o r)[i] = (q \o r)[j]
      PROVE  i = j
  <2>1. CASE i <= Len(q) /\ j <= Len(q)
    BY <1>1, <1>2, <1>6, <2>1 DEF Distinct
  <2>2. CASE i <= Len(q) /\ ~(j <= Len(q))
    <3>1. j - Len(q) \in DOMAIN r /\ (q \o r)[j] = r[j - Len(q)] /\ (q \o r)[i] = q[i]
      BY <1>1, <1>2, <2>2
    <3>2. q[i] \in Members(q) /\ r[j - Len(q)] \in Members(r)
      BY <1>2, <2>2, <3>1 DEF Members
    <3> QED BY <1>6, <3>1, <3>2
  <2>3. CASE ~(i <= Len(q)) /\ j <= Len(q)
    <3>1. i - Len(q) \in DOMAIN r /\ (q \o r)[i] = r[i - Len(q)] /\ (q \o r)[j] = q[j]
      BY <1>1, <1>2, <2>3
    <3>2. q[j] \in Members(q) /\ r[i - Len(q)] \in Members(r)
      BY <1>2, <2>3, <3>1 DEF Members
    <3> QED BY <1>6, <3>1, <3>2
  <2>4. CASE ~(i <= Len(q)) /\ ~(j <= Len(q))
    <3>1. i - Len(q) \in DOMAIN r /\ j - Len(q) \in DOMAIN r /\ r[i - Len(q)] = r[j - Len(q)]
      BY <1>1, <1>2, <1>6, <2>4
    <3>2. i - Len(q) = j - Len(q)
      BY <3>1 DEF Distinct
    <3> QED BY <1>2, <3>2
  <2> QED BY <2>1, <2>2, <2>3, <2>4
<1> QED BY <1>1, <1>2, <1>3, <1>4, <1>5, <1>6 DEF Distinct

\* What is left of a queue once its front is taken.
LEMMA TailFacts ==
  ASSUME NEW q \in Seq(Columns), q # <<>>, Distinct(q)
  PROVE  /\ Head(q) \in Columns /\ Tail(q) \in Seq(Columns)
         /\ Members(q) = {Head(q)} \cup Members(Tail(q))
         /\ Head(q) \notin Members(Tail(q)) /\ Distinct(Tail(q))
<1>1. /\ Len(q) \in Nat \ {0} /\ DOMAIN q = 1..Len(q) /\ Head(q) = q[1]
      /\ Tail(q) \in Seq(Columns) /\ Len(Tail(q)) = Len(q) - 1
      /\ DOMAIN Tail(q) = 1..(Len(q) - 1)
      /\ \A i \in 1..(Len(q) - 1) : Tail(q)[i] = q[i + 1]
  OBVIOUS
<1>2. Members(q) \subseteq {Head(q)} \cup Members(Tail(q))
  <2> SUFFICES ASSUME NEW c \in Members(q) PROVE c \in {Head(q)} \cup Members(Tail(q))
    OBVIOUS
  <2>1. PICK i \in 1..Len(q) : c = q[i]
    BY <1>1 DEF Members
  <2>2. CASE i = 1
    BY <1>1, <2>1, <2>2
  <2>3. CASE i # 1
    <3>1. i - 1 \in 1..(Len(q) - 1) /\ Tail(q)[i - 1] = c
      BY <1>1, <2>1, <2>3
    <3> QED BY <1>1, <3>1 DEF Members
  <2> QED BY <2>2, <2>3
<1>3. Members(Tail(q)) \subseteq Members(q) /\ Head(q) \in Members(q)
  BY <1>1 DEF Members
<1>4. Head(q) \notin Members(Tail(q))
  BY <1>1 DEF Members, Distinct
<1>5. Distinct(Tail(q))
  BY <1>1 DEF Distinct
<1> QED BY <1>1, <1>2, <1>3, <1>4, <1>5

-----------------------------------------------------------------------------
(* The shape of the state. *)

\* What the steps of the store need of the places they read: a session that is
\* about to ask for its ring has one, and who is about to notify owes a call.
StoreShape ==
  /\ pending \in Pending
  /\ task \in [Holders -> Task]
  /\ builder \in [Builders -> Builder]
  /\ dropping \in {"no", "notify", "join", "done"}
  /\ centre \in [Sessions -> Centres \cup {None}]
  /\ held \in [Holders -> SUBSET Columns]
  /\ \A s \in Sessions : task[s].at = "ring" => centre[s] # None
  /\ \A h \in Holders : task[h].at = "notify" => task[h].owed # 0

\* What is asked for is typed.
LEMMA TaskTypes ==
  /\ Idle \in Task /\ Idle.at = "idle"
  /\ \A S \in SUBSET Columns : Asking(S) \in Task /\ Asking(S).at \in {"idle", "ask"}
BY DEF Task, Idle, Asking

\* A batch of new columns has a number, and is not nothing.
LEMMA OwedFacts ==
  ASSUME NEW S \in SUBSET Columns, S # {}
  PROVE  Cardinality(S) \in Nat \ {0}
BY FS_Subset, FS_CardinalityType, FS_EmptySet, ResidencyAssumption

\* A task goes on to t.
LEMMA TaskChanges ==
  ASSUME StoreShape, NEW h \in Holders, NEW t \in Task, t.at # "ring",
         t.at = "notify" => t.owed # 0, task' = [task EXCEPT ![h] = t]
  PROVE  /\ task' \in [Holders -> Task]
         /\ \A s \in Sessions : task'[s].at = "ring" => centre[s] # None
         /\ \A g \in Holders : task'[g].at = "notify" => task'[g].owed # 0
<1>1. task' \in [Holders -> Task] /\ task'[h] = t /\ \A g \in Holders \ {h} : task'[g] = task[g]
  BY DEF StoreShape
<1>2. \A s \in Sessions : s \in Holders
  BY StoreAssumption
<1> QED BY <1>1, <1>2 DEF StoreShape

\* The steps of a session's task keep the shape (source.rs, want_ring and
\* warm_columns).
LEMMA SessionKeepsShape ==
  ASSUME StoreShape, NEW s \in Sessions, SessionStep(s)
  PROVE  StoreShape'
<1>0. s \in Holders /\ task[s] \in Task /\ DOMAIN task = Holders
  BY StoreAssumption DEF StoreShape
<1>1. ASSUME NEW p \in Centres, MoveTo(s, p) PROVE StoreShape'
  BY <1>0, <1>1, ResidencyAssumption DEF MoveTo, Hold, StoreShape, Task
<1>2. CASE LeaveRing(s)
  BY <1>2 DEF LeaveRing, LeaveOld, StoreShape
<1>3. CASE WantRing(s)
  <2>1. Ring[centre[s]] \in SUBSET Columns
    BY <1>3, ResidencyAssumption DEF WantRing, StoreShape
  <2>2. Cold(kept, Ring[centre[s]]) \in SUBSET Columns
    BY <2>1 DEF Cold
  <2> QED BY <1>0, <1>3, <2>2, TaskTypes DEF WantRing, StoreShape
<1>4. CASE EndResidence(s)
  BY <1>0, <1>4 DEF EndResidence, DropResidence, StoreShape
<1>5. CASE WarmSnapshot(s)
  <2>1. Cold(kept, held[s]) \in SUBSET Columns
    BY <1>0 DEF Cold, StoreShape
  <2> QED BY <1>0, <1>5, <2>1 DEF WarmSnapshot, StoreShape, Task
<1>6. CASE WarmFill(s)
  <2>1. PICK run \in SUBSET task[s].columns :
          /\ FillMany(run)
          /\ task' = [task EXCEPT ![s] =
                        IF run = @.columns THEN Idle
                        ELSE [@ EXCEPT !.columns = task[s].columns \ run]]
    BY <1>6 DEF WarmFill
  <2>2. PICK t : t = IF run = task[s].columns THEN Idle
                     ELSE [task[s] EXCEPT !.columns = task[s].columns \ run]
    OBVIOUS
  <2>3. t \in Task /\ t.at \in {"idle", "warm"}
    BY <1>0, <1>6, <2>2, TaskTypes DEF WarmFill, Task
  <2>4. task' = [task EXCEPT ![s] = t] /\ UNCHANGED <<centre, held, pending, builder, dropping>>
    BY <1>6, <2>1, <2>2 DEF WarmFill, FillMany
  <2>5. t.at # "ring" /\ t.at # "notify"
    BY <2>3
  <2> QED BY <1>0, <2>3, <2>4, <2>5, TaskChanges DEF StoreShape
<1> QED BY <1>1, <1>2, <1>3, <1>4, <1>5, <1>6 DEF SessionStep

\* The steps of a claim and of `send` keep the shape (source.rs, Warming::send).
LEMMA ClaimKeepsShape ==
  ASSUME StoreShape, NEW h \in Holders, ClaimStep(h)
  PROVE  StoreShape'
<1>0. task[h] \in Task
  BY DEF StoreShape
<1>1. ASSUME NEW wanted \in SUBSET Columns, Claim(h, wanted) PROVE StoreShape'
  <2>1. wanted \ held[h] \in SUBSET Columns
    OBVIOUS
  <2> QED BY <1>1, <2>1, TaskTypes DEF Claim, SetClaim, StoreShape
<1>2. CASE EndClaim(h)
  BY <1>2 DEF EndClaim, DropClaim, StoreShape
<1>3. CASE Snapshot(h)
  <2>1. PICK t : t = IF Cold(kept, task[h].columns) = {} THEN Idle
                     ELSE [task[h] EXCEPT !.at = "offer",
                                          !.columns = Cold(kept, task[h].columns)]
    OBVIOUS
  <2>2. Cold(kept, task[h].columns) \in SUBSET Columns
    BY <1>0 DEF Cold, Task
  <2>3. t \in Task /\ t.at \in {"idle", "offer"}
    BY <1>0, <2>1, <2>2, TaskTypes DEF Task
  <2>4. task' = [task EXCEPT ![h] = t] /\ UNCHANGED <<centre, held, pending, builder, dropping>>
    BY <1>3, <2>1 DEF Snapshot
  <2> QED BY <2>3, <2>4 DEF StoreShape
<1>4. CASE Enqueue(h)
  <2> DEFINE new == task[h].columns \ pending.claimed
  <2>0. new \in SUBSET Columns
    BY <1>0 DEF Task
  <2>1. CASE pending.closed \/ new = {}
    <3>1. task' = [task EXCEPT ![h] = Idle]
          /\ UNCHANGED <<centre, held, pending, builder, dropping>>
      BY <1>4, <2>1 DEF Enqueue
    <3> QED BY <3>1, TaskTypes DEF StoreShape
  <2>2. CASE ~(pending.closed \/ new = {})
    <3>1. PICK order \in InKeyOrder(new) :
            pending' = [pending EXCEPT !.queue = @ \o order, !.claimed = @ \cup new]
      BY <1>4, <2>2 DEF Enqueue
    <3>2. order \in Seq(Columns)
      BY <2>0, <3>1, OrderFacts
    <3>3. pending.queue \o order \in Seq(Columns)
      BY <3>2, ConcatProperties DEF StoreShape, Pending
    <3>4. Cardinality(new) \in Nat \ {0}
      BY <2>0, <2>2, OwedFacts
    <3>5. task' = [task EXCEPT ![h] = [at |-> "notify", columns |-> {},
                                       owed |-> Cardinality(new)]]
      BY <1>4, <2>2 DEF Enqueue
    <3> HIDE DEF new
    <3>6. pending' \in Pending
      BY <2>0, <3>1, <3>3 DEF StoreShape, Pending
    <3>7. /\ task' \in [Holders -> Task]
          /\ task'[h].at = "notify" /\ task'[h].owed # 0
          /\ \A g \in Holders \ {h} : task'[g] = task[g]
      BY <3>4, <3>5 DEF StoreShape, Task
    <3>8. UNCHANGED <<centre, held, builder, dropping>>
      BY <1>4 DEF Enqueue
    <3> QED BY <3>6, <3>7, <3>8, StoreAssumption DEF StoreShape
  <2> QED BY <2>1, <2>2
<1>5. CASE Notify(h)
  <2>1. /\ task' = [task EXCEPT ![h] =
                       IF @.owed = 1 THEN Idle ELSE [@ EXCEPT !.owed = task[h].owed - 1]]
        /\ task[h].at = "notify" /\ UNCHANGED <<centre, held, pending, dropping>>
    BY <1>5 DEF Notify
  <2>2. task[h].owed \in Nat \ {0}
    BY <1>0, <2>1 DEF StoreShape, Task
  <2>3. /\ task' \in [Holders -> Task]
        /\ \A s \in Sessions : task'[s].at = "ring" => centre[s] # None
        /\ \A g \in Holders : task'[g].at = "notify" => task'[g].owed # 0
    <3>1. PICK t : t = IF task[h].owed = 1 THEN Idle
                       ELSE [task[h] EXCEPT !.owed = task[h].owed - 1]
      OBVIOUS
    <3>2. t \in Task /\ t.at # "ring" /\ (t.at = "notify" => t.owed # 0)
      BY <1>0, <2>1, <2>2, <3>1, TaskTypes DEF Task
    <3>3. task' = [task EXCEPT ![h] = t]
      BY <2>1, <3>1
    <3> QED BY <3>2, <3>3, TaskChanges
  <2>4. builder' \in [Builders -> Builder]
    BY <1>5 DEF Notify, StoreShape, Builder
  <2> QED BY <2>1, <2>3, <2>4, StoreAssumption DEF StoreShape
<1> QED BY <1>1, <1>2, <1>3, <1>4, <1>5 DEF ClaimStep

\* The steps of the builders and of Drop keep the shape (source.rs,
\* build_columns and Drop for ColumnStore).
LEMMA BuildersKeepShape ==
  ASSUME StoreShape, (\E b \in Builders : BuilderStep(b) \/ SpuriousWake(b)) \/ DropStep
  PROVE  StoreShape'
<1>1. ASSUME NEW b \in Builders, Look(b) PROVE StoreShape'
  <2>0. pending \in Pending /\ builder[b] \in Builder
    BY DEF StoreShape
  <2>1. CASE pending.closed
    <3>1. PICK at \in {"ended", "lastFill"} : builder' = [builder EXCEPT ![b].at = at]
      BY <1>1, <2>1 DEF Look
    <3>2. builder' \in [Builders -> Builder]
      BY <3>1 DEF StoreShape, Builder
    <3> QED BY <1>1, <2>1, <3>2 DEF Look, StoreShape
  <2>2. CASE ~pending.closed /\ pending.queue # <<>>
    <3>1. Head(pending.queue) \in Columns /\ Tail(pending.queue) \in Seq(Columns)
      BY <2>0, <2>2, HeadTailProperties DEF Pending
    <3>2. /\ pending' = [pending EXCEPT !.queue = Tail(@)]
          /\ builder' = [builder EXCEPT ![b] =
               [at |-> "build", built |-> builder[b].built \cup {Head(pending.queue)}]]
          /\ UNCHANGED <<centre, held, task, dropping>>
      BY <1>1, <2>2 DEF Look
    <3>3. pending' \in Pending
      BY <2>0, <3>1, <3>2 DEF Pending
    <3>4. builder' \in [Builders -> Builder]
      BY <2>0, <3>1, <3>2 DEF StoreShape, Builder
    <3> QED BY <3>2, <3>3, <3>4 DEF StoreShape
  <2>3. CASE ~pending.closed /\ pending.queue = <<>>
    <3>1. PICK at \in {"fill", "parked"} : builder' = [builder EXCEPT ![b].at = at]
      BY <1>1, <2>3 DEF Look
    <3>2. builder' \in [Builders -> Builder]
      BY <3>1 DEF StoreShape, Builder
    <3> QED BY <1>1, <2>3, <3>2 DEF Look, StoreShape
  <2> QED BY <2>1, <2>2, <2>3
<1>2. ASSUME NEW b \in Builders, Build(b) PROVE StoreShape'
  BY <1>2 DEF Build, StoreShape, Builder
<1>3. ASSUME NEW b \in Builders, OfferFill(b) PROVE StoreShape'
  BY <1>3 DEF OfferFill, FillMany, StoreShape, Builder
<1>4. ASSUME NEW b \in Builders, OfferUnclaim(b) PROVE StoreShape'
  BY <1>4 DEF OfferUnclaim, StoreShape, Builder, Pending
<1>5. ASSUME NEW b \in Builders, SpuriousWake(b) PROVE StoreShape'
  BY <1>5 DEF SpuriousWake, StoreShape, Builder
<1>6. CASE CloseQueue
  BY <1>6 DEF CloseQueue, StoreShape, Pending
<1>7. CASE NotifyAll
  BY <1>7 DEF NotifyAll, StoreShape, Builder
<1>8. CASE JoinBuilders
  BY <1>8 DEF JoinBuilders, StoreShape
<1> QED BY <1>1, <1>2, <1>3, <1>4, <1>5, <1>6, <1>7, <1>8 DEF BuilderStep, DropStep

LEMMA ShapeIsInvariant == StoreSafety => []StoreShape
<1>1. StoreInit => StoreShape
  BY TaskTypes, StoreAssumption
  DEF StoreInit, Init, StoreShape, Pending, Builder, Idle
<1>2. StoreShape /\ [StoreNext]_storeVars => StoreShape'
  <2> SUFFICES ASSUME StoreShape, [StoreNext]_storeVars PROVE StoreShape'
    OBVIOUS
  <2>1. CASE StoreNext
    BY <2>1, SessionKeepsShape, ClaimKeepsShape, BuildersKeepShape DEF StoreNext
  <2>2. CASE UNCHANGED storeVars
    BY <2>2 DEF storeVars, StoreShape
  <2> QED BY <2>1, <2>2
<1> QED BY <1>1, <1>2, PTL DEF StoreSafety

-----------------------------------------------------------------------------
(* The residency underneath. *)

\* A step of the store is a step of the residency or leaves it alone
\* (source.rs: every change of the map goes through Residency's methods).
LEMMA StepIsResidencyStep ==
  ASSUME StoreShape, [StoreNext]_storeVars
  PROVE  [Next]_residencyVars
<1>1. ASSUME NEW s \in Sessions, SessionStep(s) PROVE [Next]_residencyVars
  <2>0. s \in Holders /\ task[s].columns \in SUBSET Columns
    BY StoreAssumption DEF StoreShape, Task
  <2>1. ASSUME NEW p \in Centres, MoveTo(s, p) PROVE Next
    BY <2>1 DEF MoveTo, Next
  <2>2. CASE LeaveRing(s)
    BY <2>2 DEF LeaveRing, Next
  <2>3. CASE EndResidence(s)
    BY <2>3 DEF EndResidence, Next
  <2>4. CASE WarmFill(s)
    <3>1. PICK run \in SUBSET task[s].columns : FillMany(run)
      BY <2>4 DEF WarmFill
    <3> QED BY <2>0, <3>1 DEF Next
  <2>5. CASE WantRing(s) \/ WarmSnapshot(s)
    BY <2>5 DEF WantRing, WarmSnapshot, residencyVars
  <2> QED BY <1>1, <2>1, <2>2, <2>3, <2>4, <2>5 DEF SessionStep
<1>2. ASSUME NEW h \in Holders, ClaimStep(h) PROVE [Next]_residencyVars
  <2>1. ASSUME NEW wanted \in SUBSET Columns, Claim(h, wanted) PROVE Next
    BY <2>1 DEF Claim, Next
  <2>2. CASE EndClaim(h)
    BY <2>2 DEF EndClaim, Next
  <2>3. CASE Snapshot(h) \/ Enqueue(h) \/ Notify(h)
    BY <2>3 DEF Snapshot, Enqueue, Notify, residencyVars
  <2> QED BY <1>2, <2>1, <2>2, <2>3 DEF ClaimStep
<1>3. ASSUME NEW b \in Builders, BuilderStep(b) \/ SpuriousWake(b)
      PROVE  [Next]_residencyVars
  <2>1. CASE OfferFill(b)
    <3>1. builder[b].built \in SUBSET Columns
      BY DEF StoreShape, Builder
    <3> QED BY <2>1, <3>1 DEF OfferFill, Next
  <2>2. CASE Look(b) \/ Build(b) \/ OfferUnclaim(b) \/ SpuriousWake(b)
    BY <2>2 DEF Look, Build, OfferUnclaim, SpuriousWake, residencyVars
  <2> QED BY <1>3, <2>1, <2>2 DEF BuilderStep
<1>4. CASE DropStep
  BY <1>4 DEF DropStep, CloseQueue, NotifyAll, JoinBuilders, residencyVars
<1>5. CASE UNCHANGED storeVars
  BY <1>5 DEF storeVars, residencyVars
<1> QED BY <1>1, <1>2, <1>3, <1>4, <1>5 DEF StoreNext

\* The store implements the residency it is built on.
THEOREM StoreImplementsResidency == StoreSafety => Spec
<1>1. StoreInit => Init
  BY DEF StoreInit
<1>2. StoreShape /\ [StoreNext]_storeVars => [Next]_residencyVars
  BY StepIsResidencyStep
<1> QED BY <1>1, <1>2, ShapeIsInvariant, PTL DEF StoreSafety, Spec

\* So what is proved of the residency holds while sessions, tickers, builders
\* and a store that is being dropped all work on it.
THEOREM StoreKeepsCounts == StoreSafety => [](RefcountExact /\ HeldIsKept)
BY StoreImplementsResidency, RefcountsAreExact, HeldIsAlwaysKept, PTL

\* The types of the store's state.
THEOREM StoreIsTyped == StoreSafety => []StoreTypeOK
<1>1. StoreShape /\ TypeOK => StoreTypeOK
  BY DEF StoreShape, StoreTypeOK
<1>2. IInv => TypeOK
  BY DEF IInv
<1> QED BY <1>1, <1>2, StoreImplementsResidency, ResidencyInvariant, ShapeIsInvariant, PTL

-----------------------------------------------------------------------------
(* The queue. *)

\* The inductive invariant of the queue.  What is claimed is exact only while
\* nothing is there twice, or giving up one batch would give up another's; and
\* nothing is there twice only while what is claimed is exact, or a column in
\* somebody's hands would be queued anew.
QueueInv == ClaimedExact /\ NoDuplicateWork /\ ParkedHoldsNothing

\* The same, one builder's hands at a time.
Hand(b) == builder[b].built

QueueParts ==
  /\ \A c \in Columns : c \in pending.claimed <=>
       c \in Members(pending.queue) \/ \E b \in Builders : c \in Hand(b)
  /\ Distinct(pending.queue)
  /\ \A b \in Builders : Hand(b) \cap Members(pending.queue) = {}
  /\ \A b, d \in Builders : b # d => Hand(b) \cap Hand(d) = {}
  /\ ParkedHoldsNothing

LEMMA QueueInvMeans == StoreShape => (QueueInv <=> QueueParts)
<1> SUFFICES ASSUME StoreShape PROVE QueueInv <=> QueueParts
  OBVIOUS
<1>1. /\ pending.claimed \subseteq Columns
      /\ \A b \in Builders : Hand(b) \subseteq Columns
      /\ Members(pending.queue) \subseteq Columns
  BY DEF StoreShape, Pending, Builder, Hand, Members
<1>2. Queued = Members(pending.queue)
  BY DEF Queued, Members
<1>3. ClaimedExact <=> \A c \in Columns : c \in pending.claimed <=>
                c \in Members(pending.queue) \/ \E b \in Builders : c \in Hand(b)
  BY <1>1, <1>2 DEF ClaimedExact, Hand
<1> QED BY <1>2, <1>3 DEF QueueInv, NoDuplicateWork, Distinct, Hand, QueueParts

LEMMA QueueInvMeansNext == StoreShape' => (QueueInv' <=> QueueParts')
BY QueueInvMeans, PTL

\* What is queued anew is claimed by nobody, so it is in the queue and in hand
\* nowhere else (source.rs, Warming::send).
LEMMA EnqueueKeepsQueue ==
  ASSUME StoreShape, StoreShape', QueueInv, NEW h \in Holders, Enqueue(h)
  PROVE  QueueInv'
<1> DEFINE new == task[h].columns \ pending.claimed
<1>0. new \in SUBSET Columns /\ builder' = builder
  BY DEF Enqueue, StoreShape, Task
<1>1. CASE pending' = pending
  BY <1>0, <1>1 DEF QueueInv, ClaimedExact, NoDuplicateWork, ParkedHoldsNothing, Queued
<1>2. CASE pending' # pending
  <2>1. PICK order \in InKeyOrder(new) :
          pending' = [pending EXCEPT !.queue = @ \o order, !.claimed = @ \cup new]
    BY <1>2 DEF Enqueue
  <2>2. order \in Seq(Columns) /\ Members(order) = new /\ Distinct(order)
    BY <1>0, OrderFacts
  <2>3. pending.queue \in Seq(Columns) /\ pending \in Pending
    BY DEF StoreShape, Pending
  <2>4. /\ Distinct(pending.queue)
        /\ \A c \in Columns : c \in pending.claimed <=>
             c \in Members(pending.queue) \/ \E b \in Builders : c \in Hand(b)
        /\ \A b \in Builders : Hand(b) \cap Members(pending.queue) = {}
        /\ \A b, d \in Builders : b # d => Hand(b) \cap Hand(d) = {}
        /\ ParkedHoldsNothing
    BY QueueInvMeans DEF QueueParts
  <2>5. Members(pending.queue) \subseteq pending.claimed
    BY <2>3, <2>4 DEF Members
  <2>6. Members(pending.queue) \cap Members(order) = {}
    BY <2>2, <2>5
  <2>7. /\ Distinct(pending.queue \o order)
        /\ Members(pending.queue \o order) = Members(pending.queue) \cup new
    BY <2>2, <2>3, <2>4, <2>6, AppendFacts
  <2> HIDE DEF new
  <2>8. pending'.queue = pending.queue \o order /\ pending'.claimed = pending.claimed \cup new
    BY <2>1, <2>3 DEF Pending
  <2>9. \A b \in Builders : Hand(b)' = Hand(b) /\ Hand(b) \subseteq pending.claimed
    BY <1>0, <2>4 DEF Hand, StoreShape, Builder
  <2>10. new \cap pending.claimed = {}
    BY DEF new
  <2>11. Distinct(pending'.queue) /\ ParkedHoldsNothing'
    BY <1>0, <2>4, <2>7, <2>8 DEF ParkedHoldsNothing
  <2>12. Members(pending'.queue) = Members(pending.queue) \cup new
    BY <2>7, <2>8
  <2>13. /\ \A c \in Columns : c \in pending'.claimed <=>
              c \in Members(pending'.queue) \/ \E b \in Builders : c \in Hand(b)'
         /\ \A b \in Builders : Hand(b)' \cap Members(pending'.queue) = {}
         /\ \A b, d \in Builders : b # d => Hand(b)' \cap Hand(d)' = {}
    BY <1>0, <2>4, <2>8, <2>9, <2>10, <2>12
  <2>14. QueueParts'
    BY <2>11, <2>13 DEF QueueParts
  <2> QED BY <2>14, QueueInvMeansNext
<1> QED BY <1>1, <1>2

\* The front of the queue goes into one builder's hands (source.rs,
\* build_columns).
LEMMA LookKeepsQueue ==
  ASSUME StoreShape, StoreShape', QueueInv, NEW b \in Builders, Look(b)
  PROVE  QueueInv'
<1>1. CASE pending' = pending
  <2>0. pending.queue # <<>> => Len(Tail(pending.queue)) # Len(pending.queue)
    BY HeadTailProperties DEF StoreShape, Pending
  <2>1. PICK at \in {"ended", "lastFill", "fill", "parked"} :
          /\ builder' = [builder EXCEPT ![b].at = at]
          /\ at \in {"ended", "parked"} => Hand(b) = {}
    <3>1. CASE pending.closed
      BY <3>1 DEF Look, Hand
    <3>2. CASE ~pending.closed /\ pending.queue = <<>>
      BY <3>2 DEF Look, Hand
    <3>3. CASE ~pending.closed /\ pending.queue # <<>>
      <4>1. pending' = [pending EXCEPT !.queue = Tail(@)]
        BY <3>3 DEF Look
      <4>2. pending'.queue = Tail(pending.queue)
        BY <4>1 DEF StoreShape, Pending
      <4> QED BY <1>1, <2>0, <3>3, <4>2
    <3> QED BY <3>1, <3>2, <3>3
  <2>2. /\ \A d \in Builders : Hand(d)' = Hand(d)
        /\ builder'[b].at = at /\ \A d \in Builders \ {b} : builder'[d] = builder[d]
    BY <2>1 DEF Hand, StoreShape, Builder
  <2>3. ParkedHoldsNothing'
    BY <2>1, <2>2 DEF QueueInv, ParkedHoldsNothing, Hand
  <2> QED BY <1>1, <2>2, <2>3 DEF QueueInv, ClaimedExact, NoDuplicateWork, Queued, Hand
<1>2. CASE pending' # pending
  <2> DEFINE front == Head(pending.queue)
  <2>1. /\ pending.queue # <<>>
        /\ pending' = [pending EXCEPT !.queue = Tail(@)]
        /\ builder' = [builder EXCEPT ![b] =
                         [at |-> "build", built |-> builder[b].built \cup {front}]]
    BY <1>2 DEF Look
  <2>2. pending \in Pending /\ pending.queue \in Seq(Columns)
    BY DEF StoreShape, Pending
  <2>3. /\ Distinct(pending.queue)
        /\ \A c \in Columns : c \in pending.claimed <=>
             c \in Members(pending.queue) \/ \E d \in Builders : c \in Hand(d)
        /\ \A d \in Builders : Hand(d) \cap Members(pending.queue) = {}
        /\ \A d, e \in Builders : d # e => Hand(d) \cap Hand(e) = {}
        /\ ParkedHoldsNothing
    BY QueueInvMeans DEF QueueParts
  <2>4. /\ front \in Columns
        /\ Members(pending.queue) = {front} \cup Members(Tail(pending.queue))
        /\ front \notin Members(Tail(pending.queue)) /\ Distinct(Tail(pending.queue))
    BY <2>1, <2>2, <2>3, TailFacts
  <2>5. pending'.queue = Tail(pending.queue) /\ pending'.claimed = pending.claimed
    BY <2>1, <2>2 DEF Pending
  <2> HIDE DEF front
  <2>6. /\ Hand(b)' = Hand(b) \cup {front} /\ builder'[b].at = "build"
        /\ \A d \in Builders \ {b} : builder'[d] = builder[d] /\ Hand(d)' = Hand(d)
    BY <2>1 DEF Hand, StoreShape
  <2>7. Distinct(pending'.queue) /\ Members(pending'.queue) = Members(Tail(pending.queue))
    BY <2>4, <2>5
  <2>8. ParkedHoldsNothing'
    BY <2>3, <2>6 DEF ParkedHoldsNothing
  <2>9. \A c \in Columns : c \in pending'.claimed <=>
           c \in Members(pending'.queue) \/ \E d \in Builders : c \in Hand(d)'
    BY <2>3, <2>4, <2>5, <2>6, <2>7
  <2>10. \A d \in Builders : Hand(d)' \cap Members(pending'.queue) = {}
    BY <2>3, <2>4, <2>6, <2>7
  <2>11. \A d, e \in Builders : d # e => Hand(d)' \cap Hand(e)' = {}
    BY <2>3, <2>4, <2>6
  <2>12. QueueParts'
    BY <2>7, <2>8, <2>9, <2>10, <2>11 DEF QueueParts
  <2> QED BY <2>12, QueueInvMeansNext
<1> QED BY <1>1, <1>2

\* A batch leaves its builder's hands and `claimed` together (source.rs, offer).
LEMMA UnclaimKeepsQueue ==
  ASSUME StoreShape, StoreShape', QueueInv, NEW b \in Builders, OfferUnclaim(b)
  PROVE  QueueInv'
<1>1. /\ Distinct(pending.queue)
      /\ \A c \in Columns : c \in pending.claimed <=>
           c \in Members(pending.queue) \/ \E d \in Builders : c \in Hand(d)
      /\ \A d \in Builders : Hand(d) \cap Members(pending.queue) = {}
      /\ \A d, e \in Builders : d # e => Hand(d) \cap Hand(e) = {}
      /\ ParkedHoldsNothing
  BY QueueInvMeans DEF QueueParts
<1>2. pending'.queue = pending.queue /\ pending'.claimed = pending.claimed \ Hand(b)
  BY DEF OfferUnclaim, StoreShape, Pending, Hand
<1>3. /\ Hand(b)' = {}
      /\ \A d \in Builders \ {b} : builder'[d] = builder[d] /\ Hand(d)' = Hand(d)
  BY DEF OfferUnclaim, StoreShape, Hand
<1>4. ParkedHoldsNothing'
  BY <1>1, <1>3 DEF ParkedHoldsNothing, Hand
<1>5. \A c \in Columns : c \in pending'.claimed <=>
         c \in Members(pending'.queue) \/ \E d \in Builders : c \in Hand(d)'
  BY <1>1, <1>2, <1>3
<1>6. /\ \A d \in Builders : Hand(d)' \cap Members(pending'.queue) = {}
      /\ \A d, e \in Builders : d # e => Hand(d)' \cap Hand(e)' = {}
  BY <1>1, <1>2, <1>3
<1>7. QueueParts'
  BY <1>1, <1>2, <1>4, <1>5, <1>6 DEF QueueParts
<1> QED BY <1>7, QueueInvMeansNext

\* Whoever else moves leaves the queue, `claimed` and the hands alone, and only
\* wakes who was parked.
LEMMA OthersKeepQueue ==
  ASSUME StoreShape, StoreShape', QueueInv,
         pending'.queue = pending.queue, pending'.claimed = pending.claimed,
         \A b \in Builders : /\ builder'[b].built = builder[b].built
                             /\ builder'[b].at \in {"parked", "ended"}
                                  => builder[b].at \in {"parked", "ended"}
  PROVE  QueueInv'
BY DEF QueueInv, ClaimedExact, NoDuplicateWork, ParkedHoldsNothing, Queued

LEMMA QueueIsInvariant == StoreSafety => []QueueInv
<1>1. StoreInit => QueueInv
  BY DEF StoreInit, QueueInv, ClaimedExact, NoDuplicateWork, ParkedHoldsNothing, Queued
<1>2. StoreShape /\ StoreShape' /\ QueueInv /\ [StoreNext]_storeVars => QueueInv'
  <2> SUFFICES ASSUME StoreShape, StoreShape', QueueInv, [StoreNext]_storeVars
               PROVE  QueueInv'
    OBVIOUS
  <2>1. ASSUME NEW s \in Sessions, SessionStep(s) PROVE QueueInv'
    <3>1. UNCHANGED <<pending, builder>>
      BY <2>1 DEF SessionStep, MoveTo, LeaveRing, WantRing, EndResidence, WarmSnapshot, WarmFill
    <3> QED BY <3>1, OthersKeepQueue
  <2>2. ASSUME NEW h \in Holders, ClaimStep(h) PROVE QueueInv'
    <3>1. CASE Enqueue(h)
      BY <3>1, EnqueueKeepsQueue
    <3>2. CASE Notify(h)
      <4>1. pending' = pending
        BY <3>2 DEF Notify
      <4>2. \A b \in Builders : builder'[b] = builder[b] \/ (builder'[b].at = "look"
                                  /\ builder'[b].built = builder[b].built)
        BY <3>2 DEF Notify, StoreShape, Builder
      <4> QED BY <4>1, <4>2, OthersKeepQueue
    <3>3. CASE (\E wanted \in SUBSET Columns : Claim(h, wanted)) \/ EndClaim(h) \/ Snapshot(h)
      <4>1. UNCHANGED <<pending, builder>>
        BY <3>3 DEF Claim, EndClaim, Snapshot
      <4> QED BY <4>1, OthersKeepQueue
    <3> QED BY <2>2, <3>1, <3>2, <3>3 DEF ClaimStep
  <2>3. ASSUME NEW b \in Builders, BuilderStep(b) \/ SpuriousWake(b) PROVE QueueInv'
    <3>1. CASE Look(b)
      BY <3>1, LookKeepsQueue
    <3>2. CASE OfferUnclaim(b)
      BY <3>2, UnclaimKeepsQueue
    <3>3. CASE Build(b) \/ OfferFill(b) \/ SpuriousWake(b)
      <4>1. PICK at \in {"fill", "look", "unclaim", "lastUnclaim"} :
              builder' = [builder EXCEPT ![b].at = at] /\ pending' = pending
        BY <3>3 DEF Build, OfferFill, SpuriousWake
      <4>2. \A d \in Builders : builder'[d] = builder[d] \/ (builder'[d].at = at
                                  /\ builder'[d].built = builder[d].built)
        BY <4>1 DEF StoreShape, Builder
      <4> QED BY <4>1, <4>2, OthersKeepQueue
    <3> QED BY <2>3, <3>1, <3>2, <3>3 DEF BuilderStep
  <2>4. CASE DropStep
    <3>1. pending'.queue = pending.queue /\ pending'.claimed = pending.claimed
      BY <2>4 DEF DropStep, CloseQueue, NotifyAll, JoinBuilders, StoreShape, Pending
    <3>2. \A b \in Builders : builder'[b] = builder[b] \/ (builder'[b].at = "look"
                                /\ builder'[b].built = builder[b].built)
      BY <2>4 DEF DropStep, CloseQueue, NotifyAll, JoinBuilders, StoreShape, Builder
    <3> QED BY <3>1, <3>2, OthersKeepQueue
  <2>5. CASE UNCHANGED storeVars
    BY <2>5, OthersKeepQueue DEF storeVars
  <2> QED BY <2>1, <2>2, <2>3, <2>4, <2>5 DEF StoreNext
<1> QED BY <1>1, <1>2, ShapeIsInvariant, PTL DEF StoreSafety

\* `claimed` is the queue and the builders' hands (source.rs, Pending).
THEOREM ClaimedIsExact == StoreSafety => []ClaimedExact
<1>1. QueueInv => ClaimedExact
  BY DEF QueueInv
<1> QED BY <1>1, QueueIsInvariant, PTL

\* No column is built twice at once, however many ask for it (source.rs, send).
THEOREM NoWorkIsDuplicated == StoreSafety => []NoDuplicateWork
<1>1. QueueInv => NoDuplicateWork
  BY DEF QueueInv
<1> QED BY <1>1, QueueIsInvariant, PTL

\* Nobody sleeps on a partial batch (source.rs, build_columns).
THEOREM ParkedBuildersHoldNothing == StoreSafety => []ParkedHoldsNothing
<1>1. QueueInv => ParkedHoldsNothing
  BY DEF QueueInv
<1> QED BY <1>1, QueueIsInvariant, PTL

-----------------------------------------------------------------------------
(* Waking. *)

\* The inductive invariant of waking: a builder ends only for a closed queue,
\* so "nobody to notify" and "queue open" mean that somebody is awake.
WakeInv ==
  /\ NoLostWakeup
  /\ \A b \in Builders : builder[b].at \in {"lastFill", "lastUnclaim", "ended"} => pending.closed

\* Builders that are as they were, with no less to wake them.
LEMMA BuildersAsTheyWere ==
  ASSUME WakeInv, UNCHANGED <<pending, builder, dropping>>,
         \A g \in Holders : task[g].at = "notify" => task'[g].at = "notify"
  PROVE  WakeInv'
BY DEF WakeInv, NoLostWakeup, Queued

\* A builder goes from an awake place to an awake place, and leaves no new work
\* behind it.
LEMMA BuilderStaysAwake ==
  ASSUME WakeInv, StoreShape, NEW b \in Builders, UNCHANGED <<task, dropping>>,
         pending'.closed = pending.closed,
         builder'[b].at \notin {"parked", "ended"},
         builder'[b].at \in {"lastFill", "lastUnclaim"} => pending.closed,
         \A d \in Builders \ {b} : builder'[d] = builder[d]
  PROVE  WakeInv'
BY DEF WakeInv, NoLostWakeup

LEMMA BuildersKeepWaking ==
  ASSUME WakeInv, StoreShape, NEW b \in Builders, BuilderStep(b) \/ SpuriousWake(b)
  PROVE  WakeInv'
<1>0. \A x : [builder EXCEPT ![b] = x][b] = x
  BY DEF StoreShape
<1>1. CASE Look(b)
  <2>1. CASE pending.closed
    <3>1. PICK at \in {"ended", "lastFill"} : builder' = [builder EXCEPT ![b].at = at]
      BY <1>1, <2>1 DEF Look
    <3>2. builder'[b].at = at /\ \A d \in Builders \ {b} : builder'[d] = builder[d]
      BY <3>1 DEF StoreShape, Builder
    <3>3. pending' = pending /\ UNCHANGED <<task, dropping>>
      BY <1>1, <2>1 DEF Look
    <3> QED BY <2>1, <3>1, <3>2, <3>3 DEF WakeInv, NoLostWakeup
  <2>2. CASE ~pending.closed /\ pending.queue # <<>>
    <3>1. /\ builder'[b].at = "build"
          /\ \A d \in Builders \ {b} : builder'[d] = builder[d]
          /\ pending' = [pending EXCEPT !.queue = Tail(@)] /\ UNCHANGED <<task, dropping>>
      BY <1>1, <2>2 DEF Look, StoreShape
    <3>2. pending'.closed = pending.closed
      BY <3>1 DEF StoreShape, Pending
    <3> QED BY <3>1, <3>2, BuilderStaysAwake
  <2>3. CASE ~pending.closed /\ pending.queue = <<>>
    <3>1. PICK at \in {"fill", "parked"} : builder' = [builder EXCEPT ![b].at = at]
      BY <1>1, <2>3 DEF Look
    <3>2. builder'[b].at = at /\ \A d \in Builders \ {b} : builder'[d] = builder[d]
      BY <3>1 DEF StoreShape, Builder
    <3>3. pending' = pending /\ UNCHANGED <<task, dropping>>
      BY <1>1, <2>3 DEF Look
    <3>4. Queued = {}
      BY <2>3 DEF Queued
    <3> QED BY <2>3, <3>1, <3>2, <3>3, <3>4 DEF WakeInv, NoLostWakeup, Queued
  <2> QED BY <2>1, <2>2, <2>3
<1>2. CASE Build(b) \/ OfferFill(b) \/ SpuriousWake(b)
  <2>1. PICK at \in {"fill", "look", "unclaim", "lastUnclaim"} :
          /\ builder' = [builder EXCEPT ![b].at = at]
          /\ at = "lastUnclaim" => builder[b].at = "lastFill"
    BY <1>2 DEF Build, OfferFill, SpuriousWake
  <2>2. builder'[b].at = at /\ \A d \in Builders \ {b} : builder'[d] = builder[d]
    BY <2>1 DEF StoreShape, Builder
  <2>3. UNCHANGED <<pending, task, dropping>>
    BY <1>2 DEF Build, OfferFill, SpuriousWake
  <2> QED BY <2>1, <2>2, <2>3, BuilderStaysAwake DEF WakeInv
<1>3. CASE OfferUnclaim(b)
  <2>1. /\ builder'[b].at = IF builder[b].at = "unclaim" THEN "look" ELSE "ended"
        /\ \A d \in Builders \ {b} : builder'[d] = builder[d]
        /\ pending'.closed = pending.closed /\ pending'.queue = pending.queue
        /\ UNCHANGED <<task, dropping>>
        /\ builder[b].at \in {"unclaim", "lastUnclaim"}
    BY <1>3 DEF OfferUnclaim, StoreShape, Pending
  <2>2. CASE builder[b].at = "unclaim"
    BY <2>1, <2>2, BuilderStaysAwake
  <2>3. CASE builder[b].at = "lastUnclaim"
    BY <2>1, <2>3 DEF WakeInv, NoLostWakeup
  <2> QED BY <2>1, <2>2, <2>3
<1> QED BY <1>1, <1>2, <1>3 DEF BuilderStep

\* Whoever asks wakes somebody after the mutex is released, or finds them all
\* awake (source.rs, Warming::send).
LEMMA ClaimsKeepWaking ==
  ASSUME WakeInv, StoreShape, NEW h \in Holders, ClaimStep(h)
  PROVE  WakeInv'
<1>1. CASE (\E wanted \in SUBSET Columns : Claim(h, wanted)) \/ EndClaim(h) \/ Snapshot(h)
  <2>1. /\ UNCHANGED <<pending, builder, dropping>>
        /\ \A g \in Holders \ {h} : task'[g] = task[g]
        /\ task[h].at = "notify" => task'[h].at = "notify"
    BY <1>1 DEF Claim, EndClaim, Snapshot, StoreShape
  <2> QED BY <2>1, BuildersAsTheyWere
<1>2. CASE Enqueue(h)
  <2>1. CASE pending' = pending
    <3>1. /\ UNCHANGED <<builder, dropping>> /\ task[h].at # "notify"
          /\ \A g \in Holders \ {h} : task'[g] = task[g]
      BY <1>2 DEF Enqueue, StoreShape
    <3> QED BY <2>1, <3>1, BuildersAsTheyWere
  <2>2. CASE pending' # pending
    <3>1. PICK order, owed :
            /\ pending' = [pending EXCEPT !.queue = @ \o order,
                            !.claimed = @ \cup (task[h].columns \ pending.claimed)]
            /\ task' = [task EXCEPT ![h] = [at |-> "notify", columns |-> {}, owed |-> owed]]
            /\ UNCHANGED <<builder, dropping>>
      BY <1>2, <2>2 DEF Enqueue
    <3>2. task'[h].at = "notify"
      BY <3>1 DEF StoreShape
    <3>3. pending'.closed = pending.closed
      BY <3>1 DEF StoreShape, Pending
    <3> QED BY <3>1, <3>2, <3>3 DEF WakeInv, NoLostWakeup
  <2> QED BY <2>1, <2>2
<1>3. CASE Notify(h)
  <2>1. UNCHANGED <<pending, dropping>>
    BY <1>3 DEF Notify
  <2>2. CASE \E b \in Builders : builder[b].at = "parked"
    <3>1. PICK b \in Builders : builder' = [builder EXCEPT ![b].at = "look"]
      BY <1>3, <2>2 DEF Notify
    <3>2. builder'[b].at = "look" /\ \A d \in Builders \ {b} : builder'[d] = builder[d]
      BY <3>1 DEF StoreShape, Builder
    <3> QED BY <2>1, <3>2 DEF WakeInv, NoLostWakeup
  <2>3. CASE \A b \in Builders : builder[b].at # "parked"
    <3>1. builder' = builder
      BY <1>3, <2>3 DEF Notify
    <3>2. PICK b \in Builders : TRUE
      BY StoreAssumption
    <3> QED BY <2>1, <2>3, <3>1, <3>2 DEF WakeInv, NoLostWakeup
  <2> QED BY <2>2, <2>3
<1> QED BY <1>1, <1>2, <1>3 DEF ClaimStep

\* What a session does beside its claims leaves who is to wake alone.
LEMMA SessionsKeepWaking ==
  ASSUME WakeInv, StoreShape, NEW s \in Sessions, SessionStep(s)
  PROVE  WakeInv'
<1>0. s \in Holders
  BY StoreAssumption
<1>1. UNCHANGED <<pending, builder, dropping>>
  BY DEF SessionStep, MoveTo, LeaveRing, WantRing, EndResidence, WarmSnapshot, WarmFill
<1>2. CASE task' = task
  BY <1>1, <1>2, BuildersAsTheyWere
<1>3. CASE task' # task
  <2>1. /\ task[s].at # "notify"
        /\ \A g \in Holders \ {s} : task'[g] = task[g]
    BY <1>0, <1>3 DEF SessionStep, MoveTo, LeaveRing, WantRing, EndResidence, WarmSnapshot,
                      WarmFill, StoreShape
  <2> QED BY <1>1, <2>1, BuildersAsTheyWere
<1> QED BY <1>2, <1>3

\* Closing wakes everybody after the flag is set (source.rs, Drop).
LEMMA DropKeepsWaking ==
  ASSUME WakeInv, StoreShape, DropStep
  PROVE  WakeInv'
<1>1. CASE CloseQueue
  <2>1. /\ pending'.closed /\ dropping' = "notify" /\ UNCHANGED <<task, builder>>
    BY <1>1 DEF CloseQueue, StoreShape, Pending
  <2> QED BY <2>1 DEF WakeInv, NoLostWakeup
<1>2. CASE NotifyAll
  <2>1. /\ UNCHANGED <<pending, task>>
        /\ \A b \in Builders :
             /\ builder'[b].at # "parked"
             /\ builder'[b].at \in {"lastFill", "lastUnclaim", "ended"}
                  => builder[b].at = builder'[b].at
             /\ builder'[b].at = "ended" => builder[b].at = "ended"
    BY <1>2 DEF NotifyAll, StoreShape, Builder
  <2>2. PICK b \in Builders : TRUE
    BY StoreAssumption
  <2> QED BY <2>1, <2>2 DEF WakeInv, NoLostWakeup
<1>3. CASE JoinBuilders
  BY <1>3 DEF JoinBuilders, WakeInv, NoLostWakeup, Queued
<1> QED BY <1>1, <1>2, <1>3 DEF DropStep

\* Work in the queue always has somebody awake for it, or about to be woken;
\* and nobody sleeps on a closed queue (source.rs, send, build_columns, Drop).
THEOREM NoWakeupIsLost == StoreSafety => []NoLostWakeup
<1>1. StoreInit => WakeInv
  BY StoreAssumption DEF StoreInit, WakeInv, NoLostWakeup, Queued
<1>2. StoreShape /\ WakeInv /\ [StoreNext]_storeVars => WakeInv'
  <2> SUFFICES ASSUME StoreShape, WakeInv, [StoreNext]_storeVars PROVE WakeInv'
    OBVIOUS
  <2>1. CASE StoreNext
    BY <2>1, SessionsKeepWaking, ClaimsKeepWaking, BuildersKeepWaking, DropKeepsWaking
    DEF StoreNext
  <2>2. CASE UNCHANGED storeVars
    BY <2>2, BuildersAsTheyWere DEF storeVars
  <2> QED BY <2>1, <2>2
<1>3. WakeInv => NoLostWakeup
  BY DEF WakeInv
<1> QED BY <1>1, <1>2, <1>3, ShapeIsInvariant, PTL DEF StoreSafety
=============================================================================
