---------------------------- MODULE ItemsProofs ----------------------------
(***************************************************************************)
(* Items on the ground, for any world, sessions, kinds, reaches, ceiling   *)
(* and backlog.                                                            *)
(*                                                                         *)
(* The argument: what the operators on lists and sums do; then what each   *)
(* handling of the list does to it, which is one of three things -- a new  *)
(* entity at the end, some of the entities taken out, or a tick that moves *)
(* counts from later entities to earlier ones -- and that it announces     *)
(* just what it did; and from these, invariant by invariant.               *)
(***************************************************************************)
EXTENDS Items, SequenceTheorems, FiniteSetTheorems, WellFoundedInduction, TLAPS

-----------------------------------------------------------------------------
(***************************************************************************)
(* Induction over numbers, as a statement about sets.                      *)
(***************************************************************************)
Before == {p \in Nat \X Nat : p[1] < p[2]}

LEMMA LeastNumber ==
  ASSUME NEW T, T \subseteq Nat, T # {}
  PROVE  \E n \in T : \A m \in T : n <= m
<1>1. IsWellFoundedOn(Before, Nat)
  BY NatLessThanWellFounded DEF Before, OpToRel
<1>2. PICK n \in T : \A m \in T : <<m, n>> \notin Before
  BY <1>1, WFMin
<1>3. ASSUME NEW m \in T PROVE n <= m
  <2>1. m \in Nat /\ n \in Nat /\ (m < n => <<m, n>> \in Before)
    BY DEF Before
  <2> QED BY <1>2, <2>1
<1> QED BY <1>3

-----------------------------------------------------------------------------
(***************************************************************************)
(* Sums.                                                                   *)
(***************************************************************************)
Units(f) == UNION {{x} \X (1..f[x]) : x \in DOMAIN f}

LEMMA InUnits ==
  ASSUME NEW S, NEW f \in [S -> Nat], NEW x, NEW u
  PROVE  <<x, u>> \in Units(f) <=> x \in S /\ u \in 1..f[x]
BY DEF Units

LEMMA UnitsArePairs ==
  ASSUME NEW S, NEW f \in [S -> Nat], NEW p \in Units(f)
  PROVE  \E x \in S : \E u \in 1..f[x] : p = <<x, u>>
BY DEF Units

LEMMA TotalTyped ==
  ASSUME NEW S, IsFiniteSet(S), NEW f \in [S -> Nat]
  PROVE  IsFiniteSet(Units(f)) /\ Total(f) \in Nat /\ Total(f) = Cardinality(Units(f))
<1> DEFINE h == [x \in S |-> {x} \X (1..f[x])]
           T == {{x} \X (1..f[x]) : x \in S}
<1>1. h \in Surjection(S, T)
  BY DEF Surjection
<1>2. IsFiniteSet(T)
  <2> HIDE DEF h, T
  <2> QED BY <1>1, FS_Surjection
<1>3. ASSUME NEW A \in T PROVE IsFiniteSet(A)
  <2>1. PICK x \in S : A = {x} \X (1..f[x])
    OBVIOUS
  <2>2. f[x] \in Int /\ 1 \in Int
    OBVIOUS
  <2>3. IsFiniteSet({x}) /\ IsFiniteSet(1..f[x])
    BY <2>2, FS_Singleton, FS_Interval
  <2> QED BY <2>1, <2>3, FS_Product
<1>4. IsFiniteSet(UNION T)
  <2> HIDE DEF T
  <2> QED BY <1>2, <1>3, FS_UNION
<1>5. Units(f) = UNION T /\ Total(f) = Cardinality(UNION T)
  BY DEF Units, Total
<1> HIDE DEF T, h
<1> QED BY <1>4, <1>5, FS_CardinalityType

Part(f, A) == [x \in A |-> f[x]]

LEMMA TotalOfZeros ==
  ASSUME NEW S, NEW f, f = [x \in S |-> 0]
  PROVE  Total(f) = 0
<1>1. Units(f) = {} /\ Total(f) = Cardinality(Units(f))
  BY DEF Units, Total
<1> QED BY <1>1, FS_EmptySet

\* Over two parts of the domain.
LEMMA TotalOfParts ==
  ASSUME NEW S, IsFiniteSet(S), NEW f \in [S -> Nat], NEW A, NEW B,
         S = A \cup B, A \cap B = {}
  PROVE  Total(f) = Total(Part(f, A)) + Total(Part(f, B))
<1> DEFINE fA == Part(f, A)
           fB == Part(f, B)
<1>1. fA \in [A -> Nat] /\ fB \in [B -> Nat]
  BY DEF Part
<1>2. IsFiniteSet(A) /\ IsFiniteSet(B)
  BY FS_Subset
<1>3. Units(f) = Units(fA) \cup Units(fB)
  BY DEF Units, Part
<1>4. Units(fA) \cap Units(fB) = {}
  BY DEF Units, Part
<1> HIDE DEF fA, fB
<1>5. /\ IsFiniteSet(Units(fA)) /\ IsFiniteSet(Units(fB))
      /\ Total(fA) \in Nat /\ Total(fB) \in Nat
      /\ Total(fA) = Cardinality(Units(fA)) /\ Total(fB) = Cardinality(Units(fB))
      /\ Total(f) = Cardinality(Units(f))
  BY <1>1, <1>2, TotalTyped
<1>6. Cardinality(Units(f)) = Cardinality(Units(fA)) + Cardinality(Units(fB)) - Cardinality({})
  BY <1>3, <1>4, <1>5, FS_Union
<1>7. Total(f) = Total(fA) + Total(fB)
  BY <1>5, <1>6, FS_EmptySet
<1> QED BY <1>7 DEF fA, fB

LEMMA TotalOfOne ==
  ASSUME NEW a, NEW f \in [{a} -> Nat]
  PROVE  Total(f) = f[a]
<1>1. Units(f) = {a} \X (1..f[a])
  BY DEF Units
<1>2. f[a] \in Nat /\ f[a] \in Int /\ 1 \in Int
  OBVIOUS
<1>3. IsFiniteSet(1..f[a]) /\ Cardinality(1..f[a]) = IF 1 > f[a] THEN 0 ELSE f[a] - 1 + 1
  BY <1>2, FS_Interval
<1>4. Cardinality(1..f[a]) = f[a]
  BY <1>2, <1>3
<1>5. IsFiniteSet({a}) /\ Cardinality({a}) = 1
  BY FS_Singleton
<1>6. Cardinality({a} \X (1..f[a])) = 1 * Cardinality(1..f[a])
  BY <1>3, <1>5, FS_Product
<1>7. Total(f) = Cardinality(Units(f))
  BY <1>5, TotalTyped
<1> QED BY <1>1, <1>2, <1>4, <1>6, <1>7

LEMMA TotalOfNone ==
  ASSUME NEW f \in [{} -> Nat]
  PROVE  Total(f) = 0
<1>1. Units(f) = {}
  BY DEF Units
<1> QED BY <1>1, TotalTyped, FS_EmptySet

\* One term apart from the others.
LEMMA TotalApart ==
  ASSUME NEW S, IsFiniteSet(S), NEW f \in [S -> Nat], NEW a \in S
  PROVE  /\ Total(f) = Total(Part(f, S \ {a})) + f[a]
         /\ Total(Part(f, S \ {a})) \in Nat /\ f[a] \in Nat
<1> DEFINE g == Part(f, {a})
           r == Part(f, S \ {a})
<1>1. g \in [{a} -> Nat] /\ g[a] = f[a] /\ f[a] \in Nat /\ r \in [S \ {a} -> Nat]
  BY DEF Part
<1>2. S = (S \ {a}) \cup {a} /\ (S \ {a}) \cap {a} = {}
  OBVIOUS
<1>3. Total(f) = Total(r) + Total(g)
  BY <1>2, TotalOfParts
<1>4. IsFiniteSet(S \ {a})
  BY FS_Subset
<1> HIDE DEF g, r
<1>5. Total(g) = f[a] /\ Total(r) \in Nat
  BY <1>1, <1>4, TotalOfOne, TotalTyped
<1>6. Total(f) = Total(r) + f[a]
  BY <1>3, <1>5
<1> QED BY <1>1, <1>5, <1>6 DEF r

\* One term changes.
LEMMA TotalChanges ==
  ASSUME NEW S, IsFiniteSet(S), NEW f \in [S -> Nat], NEW g \in [S -> Nat], NEW a \in S,
         \A x \in S \ {a} : g[x] = f[x]
  PROVE  Total(g) = Total(f) - f[a] + g[a] /\ Total(f) \in Nat /\ Total(g) \in Nat
<1> DEFINE rf == Part(f, S \ {a})
           rg == Part(g, S \ {a})
<1>1. rf = rg
  BY DEF Part
<1>2. /\ Total(f) = Total(rf) + f[a] /\ Total(g) = Total(rg) + g[a]
      /\ Total(rf) \in Nat /\ f[a] \in Nat /\ g[a] \in Nat
  BY TotalApart
<1>3. Total(f) \in Nat /\ Total(g) \in Nat
  BY TotalTyped
<1> HIDE DEF rf, rg
<1> QED BY <1>1, <1>2, <1>3

Renames(at, T, S) ==
  /\ at \in [T -> S]
  /\ \A a, b \in T : at[a] = at[b] => a = b
  /\ \A i \in S : \E a \in T : at[a] = i

SameTerms(g, T, f, S) == \E at : Renames(at, T, S) /\ \A a \in T : g[a] = f[at[a]]

\* What is summed in another order, or under other names.
LEMMA TotalRenamed ==
  ASSUME NEW S, IsFiniteSet(S), NEW f \in [S -> Nat], NEW T, NEW g \in [T -> Nat],
         SameTerms(g, T, f, S)
  PROVE  Total(g) = Total(f)
<1>a. PICK at : Renames(at, T, S) /\ \A a \in T : g[a] = f[at[a]]
  BY DEF SameTerms
<1> DEFINE back == [i \in S |-> CHOOSE a \in T : at[a] = i]
           h == [p \in Units(f) |-> <<back[p[1]], p[2]>>]
<1>0. /\ at \in [T -> S] /\ \A a, b \in T : at[a] = at[b] => a = b
      /\ \A i \in S : \E a \in T : at[a] = i
  BY <1>a DEF Renames
<1>1. \A i \in S : back[i] \in T /\ at[back[i]] = i
  BY <1>0
<1>2. \A a \in T : back[at[a]] = a
  BY <1>0, <1>1
<1>4. \A p \in Units(f) : p[1] \in S /\ p[2] \in 1..f[p[1]] /\ p = <<p[1], p[2]>>
  BY UnitsArePairs
<1>5. ASSUME NEW p \in Units(f) PROVE h[p] \in Units(g)
  <2> HIDE DEF back
  <2>1. back[p[1]] \in T /\ p[2] \in 1..g[back[p[1]]]
    BY <1>0, <1>1, <1>4, <1>a
  <2>2. <<back[p[1]], p[2]>> \in Units(g)
    BY <2>1, InUnits
  <2> QED BY <2>2
<1>6. ASSUME NEW p \in Units(f), NEW q \in Units(f), h[p] = h[q] PROVE p = q
  <2> HIDE DEF back
  <2>1. back[p[1]] = back[q[1]] /\ p[2] = q[2]
    BY <1>6
  <2> QED BY <1>1, <1>4, <2>1
<1>7. ASSUME NEW q \in Units(g) PROVE \E p \in Units(f) : h[p] = q
  <2>1. PICK a \in T : \E u \in 1..g[a] : q = <<a, u>>
    BY UnitsArePairs
  <2>2. PICK u \in 1..g[a] : q = <<a, u>>
    BY <2>1
  <2>3. <<at[a], u>> \in Units(f)
    BY <1>0, <1>a, InUnits
  <2>4. h[<<at[a], u>>] = <<back[at[a]], u>>
    <3> HIDE DEF back
    <3> QED BY <2>3
  <2> QED BY <1>2, <2>2, <2>3, <2>4
<1>8. h \in Bijection(Units(f), Units(g))
  <2>1. h \in [Units(f) -> Units(g)]
    BY <1>5
  <2>2. DOMAIN h = Units(f)
    OBVIOUS
  <2> HIDE DEF h
  <2> QED BY <1>6, <1>7, <2>1, <2>2 DEF Bijection, Injection, Surjection, IsInjective
<1> HIDE DEF h, back
<1>9. IsFiniteSet(Units(f)) /\ Total(f) = Cardinality(Units(f))
  BY TotalTyped
<1>10. IsFiniteSet(Units(g)) /\ Cardinality(Units(g)) = Cardinality(Units(f))
  BY <1>8, <1>9, FS_Bijection DEF ExistsBijection
<1>11. Total(g) = Cardinality(Units(g))
  BY DEF Total, Units
<1> QED BY <1>9, <1>10, <1>11

-----------------------------------------------------------------------------
(***************************************************************************)
(* Lists.                                                                  *)
(***************************************************************************)
LEMMA SeqIsFunction ==
  ASSUME NEW S, NEW n \in Nat, NEW f \in [1..n -> S]
  PROVE  f \in Seq(S) /\ Len(f) = n
OBVIOUS

\* What is chosen is in one-to-one correspondence with the places it comes from.
Order(at, list, I) ==
  /\ Renames(at, 1..Cardinality(I), I)
  /\ DOMAIN Chosen(list, I) = 1..Cardinality(I)
  /\ \A a \in 1..Cardinality(I) : Chosen(list, I)[a] = list[at[a]]

LEMMA ChosenFacts ==
  ASSUME NEW list, NEW n \in Nat, NEW I \in SUBSET (1..n)
  PROVE  /\ IsFiniteSet(I) /\ Cardinality(I) \in Nat /\ Cardinality(I) <= n
         /\ \A S : (\A i \in I : list[i] \in S) => Chosen(list, I) \in [1..Cardinality(I) -> S]
         /\ \E at : Order(at, list, I)
<1> DEFINE upTo(i) == {j \in I : j <= i}
           m == Cardinality(I)
           rank == [i \in I |-> Cardinality({j \in I : j <= i})]
           at == [a \in 1..m |-> CHOOSE i \in I : Cardinality({j \in I : j <= i}) = a]
<1>1. IsFiniteSet(1..n) /\ Cardinality(1..n) = n
  <2>1. n \in Int /\ 1 \in Int
    OBVIOUS
  <2>2. IsFiniteSet(1..n) /\ Cardinality(1..n) = IF 1 > n THEN 0 ELSE n - 1 + 1
    BY <2>1, FS_Interval
  <2> QED BY <2>2
<1>2. IsFiniteSet(I) /\ m \in Nat /\ m <= n
  BY <1>1, FS_Subset, FS_CardinalityType
<1>3. ASSUME NEW i \in I
      PROVE  IsFiniteSet(upTo(i)) /\ rank[i] \in 1..m /\ rank[i] = Cardinality(upTo(i))
  <2>1. upTo(i) \in SUBSET I /\ i \in upTo(i)
    OBVIOUS
  <2>2. IsFiniteSet(upTo(i)) /\ Cardinality(upTo(i)) <= m /\ Cardinality(upTo(i)) \in Nat
    <3> HIDE DEF upTo
    <3> QED BY <1>2, <2>1, FS_Subset, FS_CardinalityType
  <2>3. Cardinality(upTo(i)) # 0
    <3> HIDE DEF upTo
    <3> QED BY <2>1, <2>2, FS_EmptySet
  <2>4. rank[i] = Cardinality(upTo(i))
    OBVIOUS
  <2> HIDE DEF upTo, rank
  <2> QED BY <1>2, <2>2, <2>3, <2>4
<1>4. ASSUME NEW i \in I, NEW j \in I, i < j PROVE rank[i] # rank[j]
  <2>0. \A x \in I : x \in Int
    OBVIOUS
  <2>1. \A x \in I : x <= i => x <= j
    <3> HIDE DEF upTo, rank, at, m
    <3> QED BY <1>4, <2>0
  <2>2. upTo(i) \in SUBSET upTo(j) /\ j \in upTo(j) /\ j \notin upTo(i)
    <3>1. j <= j /\ ~(j <= i)
      BY <1>4, <2>0
    <3> QED BY <2>1, <3>1
  <2>3. Cardinality(upTo(i)) # Cardinality(upTo(j))
    <3> HIDE DEF upTo, rank
    <3> QED BY <1>3, <2>2, FS_Subset
  <2> HIDE DEF upTo, rank
  <2> QED BY <1>3, <2>3
<1>5. rank \in Injection(I, 1..m)
  <2>1. rank \in [I -> 1..m]
    BY <1>3
  <2>2. ASSUME NEW i \in I, NEW j \in I, rank[i] = rank[j] PROVE i = j
    <3>1. i \in Int /\ j \in Int
      OBVIOUS
    <3> HIDE DEF rank
    <3> QED BY <1>4, <2>2, <3>1
  <2>3. DOMAIN rank = I
    OBVIOUS
  <2> HIDE DEF rank
  <2> QED BY <2>1, <2>2, <2>3 DEF Injection, IsInjective
<1>6. \A a \in 1..m : \E i \in I : rank[i] = a
  <2> DEFINE R == {rank[i] : i \in I}
  <2>1. R \subseteq 1..m /\ rank \in Surjection(I, R) /\ rank \in Injection(I, R)
    <3>1. rank \in [I -> 1..m] /\ DOMAIN rank = I /\ \A i, j \in I : rank[i] = rank[j] => i = j
      BY <1>5 DEF Injection, IsInjective
    <3> HIDE DEF rank
    <3> QED BY <3>1 DEF Surjection, Injection, IsInjective
  <2>2. Cardinality(R) = m
    <3> HIDE DEF rank, R
    <3> QED BY <1>2, <2>1, FS_Surjection
  <2>3. IsFiniteSet(1..m) /\ Cardinality(1..m) = m
    <3> HIDE DEF rank, R
    <3>1. m \in Int /\ 1 \in Int
      BY <1>2
    <3>2. IsFiniteSet(1..m) /\ Cardinality(1..m) = IF 1 > m THEN 0 ELSE m - 1 + 1
      BY <3>1, FS_Interval
    <3> QED BY <1>2, <3>2
  <2>4. R = 1..m
    <3> HIDE DEF rank, R
    <3> QED BY <2>1, <2>2, <2>3, FS_Subset
  <2> HIDE DEF rank
  <2> QED BY <2>4
<1>7. \A a \in 1..m : at[a] \in I /\ rank[at[a]] = a
  <2> SUFFICES ASSUME NEW a \in 1..m PROVE at[a] \in I /\ rank[at[a]] = a
    OBVIOUS
  <2>1. \E i \in I : Cardinality({j \in I : j <= i}) = a
    BY <1>6
  <2>2. at[a] \in I /\ Cardinality({j \in I : j <= at[a]}) = a
    BY <2>1
  <2> HIDE DEF at
  <2> QED BY <2>2
<1>8. at \in [1..m -> I]
  BY <1>7
<1>9. \A a, b \in 1..m : at[a] = at[b] => a = b
  <2> HIDE DEF at, rank, m
  <2> QED BY <1>7
<1>10. \A i \in I : \E a \in 1..m : at[a] = i
  <2> SUFFICES ASSUME NEW i \in I PROVE \E a \in 1..m : at[a] = i
    OBVIOUS
  <2>1. rank[i] \in 1..m /\ rank[at[rank[i]]] = rank[i] /\ at[rank[i]] \in I
    <3> HIDE DEF at, rank, m
    <3> QED BY <1>3, <1>7
  <2>2. at[rank[i]] = i
    <3> HIDE DEF at, rank, m
    <3> QED BY <1>5, <2>1 DEF Injection, IsInjective
  <2> QED BY <2>1, <2>2
<1>11. Chosen(list, I) = [a \in 1..m |-> list[at[a]]]
  BY DEF Chosen
<1> HIDE DEF at, rank, upTo, m
<1>12. /\ DOMAIN Chosen(list, I) = 1..m /\ \A a \in 1..m : Chosen(list, I)[a] = list[at[a]]
       /\ \A S : (\A i \in I : list[i] \in S) => Chosen(list, I) \in [1..m -> S]
  BY <1>8, <1>11
<1>13. Order(at, list, I)
  BY <1>8, <1>9, <1>10, <1>12 DEF m, Order, Renames
<1> QED BY <1>2, <1>12, <1>13 DEF m

\* The same of a list of some S.
LEMMA ChosenIsList ==
  ASSUME NEW S, NEW list \in Seq(S), NEW I \in SUBSET DOMAIN list
  PROVE  /\ IsFiniteSet(I) /\ Cardinality(I) <= Len(list)
         /\ Chosen(list, I) \in Seq(S) /\ Len(Chosen(list, I)) = Cardinality(I)
         /\ DOMAIN Chosen(list, I) = 1..Cardinality(I)
         /\ \E at : Order(at, list, I)
<1> DEFINE m == Cardinality(I)
<1>1. Len(list) \in Nat /\ DOMAIN list = 1..Len(list) /\ I \in SUBSET (1..Len(list))
  BY LenProperties
<1>2. /\ IsFiniteSet(I) /\ m \in Nat /\ m <= Len(list)
      /\ \A T : (\A i \in I : list[i] \in T) => Chosen(list, I) \in [1..m -> T]
      /\ \E at : Order(at, list, I)
  BY <1>1, ChosenFacts
<1> HIDE DEF m
<1>4. \A i \in I : list[i] \in S
  BY <1>1, ElementOfSeq
<1>5. Chosen(list, I) \in [1..m -> S]
  BY <1>2, <1>4
<1>6. Chosen(list, I) \in Seq(S) /\ Len(Chosen(list, I)) = m
  BY <1>2, <1>5, SeqIsFunction
<1> QED BY <1>2, <1>6 DEF m

TakenFrom(c, list, J) ==
  /\ \A a \in DOMAIN c : \E i \in J : c[a] = list[i]
  /\ \A i \in J : \E a \in DOMAIN c : c[a] = list[i]

\* What is in the chosen list is what the list has at the chosen places.
LEMMA ChosenTaken ==
  ASSUME NEW list, NEW n \in Nat, NEW J \in SUBSET (1..n)
  PROVE  TakenFrom(Chosen(list, J), list, J)
<1> DEFINE m == Cardinality(J)
           c == Chosen(list, J)
<1>1. PICK at : Order(at, list, J)
  BY ChosenFacts
<1>2. /\ DOMAIN c = 1..m /\ \A a \in 1..m : c[a] = list[at[a]] /\ at[a] \in J
      /\ \A i \in J : \E a \in 1..m : at[a] = i
  BY <1>1 DEF Order, Renames
<1> HIDE DEF c, m
<1>3. \A a \in DOMAIN c : \E i \in J : c[a] = list[i]
  BY <1>2
<1>4. ASSUME NEW i \in J PROVE \E a \in DOMAIN c : c[a] = list[i]
  <2>1. PICK a \in 1..m : at[a] = i
    BY <1>2
  <2> QED BY <1>2, <2>1
<1>5. TakenFrom(c, list, J)
  BY <1>3, <1>4 DEF TakenFrom
<1> QED BY <1>5 DEF c

-----------------------------------------------------------------------------
(***************************************************************************)
(* How many of a kind a list holds.                                        *)
(***************************************************************************)
Counts(e, k) == IF e.item = k THEN e.count ELSE 0

Of(list, k) == [i \in DOMAIN list |-> Counts(list[i], k)]

LEMMA InListTyped ==
  ASSUME NEW E, \A e \in E : e.count \in Nat, NEW list \in Seq(E), NEW k
  PROVE  /\ IsFiniteSet(DOMAIN list) /\ Of(list, k) \in [DOMAIN list -> Nat]
         /\ InList(list, k) = Total(Of(list, k)) /\ InList(list, k) \in Nat
<1>1. Len(list) \in Nat /\ DOMAIN list = 1..Len(list) /\ \A i \in DOMAIN list : list[i] \in E
  BY LenProperties, ElementOfSeq
<1>2. IsFiniteSet(DOMAIN list)
  <2>1. Len(list) \in Int /\ 1 \in Int
    BY <1>1
  <2> QED BY <1>1, <2>1, FS_Interval
<1>3. Of(list, k) \in [DOMAIN list -> Nat]
  <2>1. \A i \in DOMAIN list : Counts(list[i], k) \in Nat
    BY <1>1 DEF Counts
  <2> QED BY <2>1 DEF Of
<1>4. InList(list, k) = Total(Of(list, k))
  BY DEF InList, Of, Counts
<1> QED BY <1>2, <1>3, <1>4, TotalTyped

LEMMA InListOfNone ==
  ASSUME NEW k
  PROVE  InList(<<>>, k) = 0
<1>1. DOMAIN <<>> = {} /\ Of(<<>>, k) \in [{} -> Nat]
  BY DEF Of
<1>2. InList(<<>>, k) = Total(Of(<<>>, k))
  BY DEF InList, Of, Counts
<1> QED BY <1>1, <1>2, TotalOfNone

OneMore(list, a, rest) ==
  \E at : /\ Renames(at, DOMAIN list \ {a}, DOMAIN rest)
          /\ \A i \in DOMAIN list \ {a} : list[i] = rest[at[i]]

\* A list that is put together of one entity and, in any order, a list.
LEMMA InListOneMore ==
  ASSUME NEW E, \A e \in E : e.count \in Nat, NEW list \in Seq(E), NEW rest \in Seq(E),
         NEW a \in DOMAIN list, OneMore(list, a, rest), NEW k
  PROVE  InList(list, k) = InList(rest, k) + Counts(list[a], k)
<1> DEFINE f == Of(list, k)
           r == Of(rest, k)
<1>a. PICK at : /\ Renames(at, DOMAIN list \ {a}, DOMAIN rest)
                /\ \A i \in DOMAIN list \ {a} : list[i] = rest[at[i]]
  BY DEF OneMore
<1>1. /\ f \in [DOMAIN list -> Nat] /\ IsFiniteSet(DOMAIN list) /\ InList(list, k) = Total(f)
      /\ r \in [DOMAIN rest -> Nat] /\ IsFiniteSet(DOMAIN rest) /\ InList(rest, k) = Total(r)
  BY InListTyped
<1>2. Total(f) = Total(Part(f, DOMAIN list \ {a})) + f[a]
  <2> HIDE DEF f, r
  <2> QED BY <1>1, TotalApart
<1>3. f[a] = Counts(list[a], k)
  BY DEF Of
<1>4. Part(f, DOMAIN list \ {a}) \in [DOMAIN list \ {a} -> Nat]
      /\ \A i \in DOMAIN list \ {a} : Part(f, DOMAIN list \ {a})[i] = r[at[i]]
  <2>1. \A i \in DOMAIN list \ {a} : f[i] = r[at[i]]
    BY <1>a DEF Of, Renames
  <2> HIDE DEF f, r
  <2> QED BY <1>1, <2>1 DEF Part
<1> HIDE DEF f, r
<1>5. SameTerms(Part(f, DOMAIN list \ {a}), DOMAIN list \ {a}, r, DOMAIN rest)
  BY <1>4, <1>a DEF SameTerms
<1>6. Total(Part(f, DOMAIN list \ {a})) = Total(r)
  <2> DEFINE D == DOMAIN list \ {a}
             R == DOMAIN rest
             g == Part(f, D)
  <2>1. /\ g \in [D -> Nat] /\ SameTerms(g, D, r, R)
        /\ r \in [R -> Nat] /\ IsFiniteSet(R)
    BY <1>1, <1>4, <1>5
  <2> HIDE DEF D, g, R
  <2>2. Total(g) = Total(r)
    BY ONLY <2>1, TotalRenamed
  <2> QED BY <2>2 DEF D, g
<1> QED BY <1>1, <1>2, <1>3, <1>6

LEMMA InListAppend ==
  ASSUME NEW E, \A e \in E : e.count \in Nat, NEW list \in Seq(E), NEW e \in E, NEW k
  PROVE  InList(Append(list, e), k) = InList(list, k) + Counts(e, k)
<1> DEFINE n == Len(list)
           more == Append(list, e)
           at == [i \in 1..n |-> i]
<1>1. /\ more \in Seq(E) /\ n \in Nat /\ DOMAIN list = 1..n /\ DOMAIN more = 1..n + 1
      /\ more[n + 1] = e /\ \A i \in 1..n : more[i] = list[i]
  BY AppendProperties, LenProperties
<1>2. DOMAIN more \ {n + 1} = 1..n /\ n + 1 \in DOMAIN more
  BY <1>1
<1> HIDE DEF n, more
<1>3. Renames(at, DOMAIN more \ {n + 1}, DOMAIN list)
      /\ \A i \in DOMAIN more \ {n + 1} : more[i] = list[at[i]]
  <2>1. Renames(at, 1..n, 1..n)
    BY DEF Renames
  <2>2. \A i \in 1..n : more[i] = list[at[i]]
    BY <1>1
  <2> HIDE DEF at
  <2> QED BY <1>1, <1>2, <2>1, <2>2
<1> HIDE DEF at
<1>4. OneMore(more, n + 1, list)
  BY <1>3 DEF OneMore
<1>5. InList(more, k) = InList(list, k) + Counts(more[n + 1], k)
  BY <1>1, <1>2, <1>4, InListOneMore
<1> QED BY <1>1, <1>5 DEF more

LEMMA InListTail ==
  ASSUME NEW E, \A e \in E : e.count \in Nat, NEW list \in Seq(E), list # <<>>, NEW k
  PROVE  InList(list, k) = InList(Tail(list), k) + Counts(Head(list), k)
<1> DEFINE n == Len(list)
           rest == Tail(list)
           at == [i \in 2..n |-> i - 1]
<1>1. /\ rest \in Seq(E) /\ n \in Nat \ {0} /\ DOMAIN list = 1..n /\ DOMAIN rest = 1..n - 1
      /\ Head(list) = list[1] /\ \A i \in 1..n - 1 : rest[i] = list[i + 1]
  BY HeadTailProperties, LenProperties, EmptySeq
<1>2. DOMAIN list \ {1} = 2..n /\ 1 \in DOMAIN list
  BY <1>1
<1> HIDE DEF n, rest
<1>3. /\ at \in [2..n -> 1..n - 1] /\ \A i, j \in 2..n : at[i] = at[j] => i = j
      /\ \A i \in 2..n : list[i] = rest[at[i]]
  BY <1>1
<1>4. \A r \in 1..n - 1 : \E i \in 2..n : at[i] = r
  <2> SUFFICES ASSUME NEW r \in 1..n - 1 PROVE \E i \in 2..n : at[i] = r
    OBVIOUS
  <2>1. r + 1 \in 2..n /\ at[r + 1] = r
    BY <1>1
  <2> QED BY <2>1
<1> HIDE DEF at
<1>5. Renames(at, DOMAIN list \ {1}, DOMAIN rest)
      /\ \A i \in DOMAIN list \ {1} : list[i] = rest[at[i]]
  <2>1. Renames(at, 2..n, 1..n - 1)
    BY <1>3, <1>4 DEF Renames
  <2> QED BY <1>1, <1>2, <1>3, <2>1
<1>6. InList(list, k) = InList(rest, k) + Counts(list[1], k)
  <2>1. PICK a : a = 1
    OBVIOUS
  <2>2. a \in DOMAIN list /\ OneMore(list, a, rest)
    BY <1>2, <1>5, <2>1 DEF OneMore
  <2>3. InList(list, k) = InList(rest, k) + Counts(list[a], k)
    BY <1>1, <2>2, InListOneMore
  <2> QED BY <2>1, <2>3
<1> QED BY <1>1, <1>6 DEF rest

\* What is chosen, summed over the places it comes from.
LEMMA InListChosen ==
  ASSUME NEW E, \A e \in E : e.count \in Nat, NEW list \in Seq(E),
         NEW I \in SUBSET DOMAIN list, NEW k
  PROVE  InList(Chosen(list, I), k) = Total(Part(Of(list, k), I))
<1> DEFINE f == Part(Of(list, k), I)
           c == Chosen(list, I)
<1>1. IsFiniteSet(I) /\ c \in Seq(E) /\ DOMAIN c = 1..Cardinality(I)
  BY ChosenIsList
<1>2. f \in [I -> Nat] /\ \A i \in I : f[i] = Counts(list[i], k)
  <2>1. Of(list, k) \in [DOMAIN list -> Nat]
    BY InListTyped
  <2> QED BY <2>1 DEF Part, Of
<1>3. PICK at : Order(at, list, I)
  BY ChosenIsList
<1> HIDE DEF f, c
<1>4. Of(c, k) \in [DOMAIN c -> Nat] /\ InList(c, k) = Total(Of(c, k))
  BY <1>1, InListTyped
<1>5. Renames(at, DOMAIN c, I) /\ \A a \in DOMAIN c : Of(c, k)[a] = f[at[a]]
  <2>1. Renames(at, DOMAIN c, I) /\ \A a \in DOMAIN c : c[a] = list[at[a]] /\ at[a] \in I
    BY <1>1, <1>3 DEF Order, Renames, c
  <2> QED BY <1>2, <2>1 DEF Of
<1>6. Total(Of(c, k)) = Total(f)
  <2>1. SameTerms(Of(c, k), DOMAIN c, f, I)
    BY <1>5 DEF SameTerms
  <2> QED BY <1>1, <1>2, <1>4, <2>1, TotalRenamed
<1> QED BY <1>4, <1>6 DEF c, f

\* What is taken out of a list and what stays.
LEMMA InListParts ==
  ASSUME NEW E, \A e \in E : e.count \in Nat, NEW list \in Seq(E),
         NEW I \in SUBSET DOMAIN list, NEW J, J = DOMAIN list \ I, NEW k
  PROVE  InList(list, k) = InList(Chosen(list, I), k) + InList(Chosen(list, J), k)
<1> DEFINE f == Of(list, k)
<1>1. f \in [DOMAIN list -> Nat] /\ IsFiniteSet(DOMAIN list) /\ InList(list, k) = Total(f)
  BY InListTyped
<1>2. DOMAIN list = I \cup J /\ I \cap J = {} /\ J \in SUBSET DOMAIN list
  OBVIOUS
<1>3. InList(Chosen(list, I), k) = Total(Part(f, I))
      /\ InList(Chosen(list, J), k) = Total(Part(f, J))
  BY <1>2, InListChosen
<1> HIDE DEF f
<1>4. Total(f) = Total(Part(f, I)) + Total(Part(f, J))
  BY <1>1, <1>2, TotalOfParts
<1> QED BY <1>1, <1>3, <1>4

-----------------------------------------------------------------------------
(***************************************************************************)
(* What a client will show.  Of one id some changes say last that it       *)
(* spawned, or that it is gone, or they say neither.                       *)
(***************************************************************************)
SaysGone(changes, id) ==
  \E i \in DOMAIN changes : changes[i].is = "gone" /\ changes[i].id = id

LastSpawned(changes, id) ==
  \E i \in DOMAIN changes :
    /\ changes[i].is = "spawned" /\ changes[i].id = id
    /\ \A j \in DOMAIN changes :
         j > i => ~(changes[j].is = "gone" /\ changes[j].id = id)

LEMMA WhatItShows ==
  ASSUME NEW S, NEW changes \in Seq(Change), NEW id
  PROVE  id \in WillShow(S, changes)
           <=> LastSpawned(changes, id) \/ (id \in S /\ ~SaysGone(changes, id))
<1>1. DOMAIN changes = 1..Len(changes) /\ Len(changes) \in Nat
  BY LenProperties
<1>2. \A j \in DOMAIN changes : j > 0
  BY <1>1
<1> QED BY <1>2 DEF WillShow, LastSpawned, SaysGone

\* What was said in two goes.
LEMMA SaidInTwo ==
  ASSUME NEW a \in Seq(Change), NEW b \in Seq(Change), NEW id
  PROVE  /\ a \o b \in Seq(Change)
         /\ SaysGone(a \o b, id) <=> SaysGone(a, id) \/ SaysGone(b, id)
         /\ LastSpawned(a \o b, id)
              <=> LastSpawned(b, id) \/ (LastSpawned(a, id) /\ ~SaysGone(b, id))
<1> DEFINE m == Len(a)
           n == Len(b)
           ab == a \o b
<1>1. /\ ab \in Seq(Change) /\ m \in Nat /\ n \in Nat
      /\ DOMAIN a = 1..m /\ DOMAIN b = 1..n /\ DOMAIN ab = 1..m + n
      /\ \A i \in 1..m : ab[i] = a[i]
      /\ \A i \in m + 1..m + n : ab[i] = b[i - m]
  <2>1. /\ ab \in Seq(Change) /\ Len(ab) = m + n /\ m \in Nat /\ n \in Nat
        /\ \A i \in 1..m + n : ab[i] = IF i <= m THEN a[i] ELSE b[i - m]
    BY ConcatProperties, LenProperties
  <2>2. DOMAIN a = 1..m /\ DOMAIN b = 1..n /\ DOMAIN ab = 1..Len(ab)
    BY <2>1, LenProperties
  <2> HIDE DEF m, n, ab
  <2> QED BY <2>1, <2>2
<1> HIDE DEF m, n, ab
<1>2. \A j \in 1..n : j + m \in m + 1..m + n /\ ab[j + m] = b[j]
  <2> SUFFICES ASSUME NEW j \in 1..n PROVE j + m \in m + 1..m + n /\ ab[j + m] = b[j]
    OBVIOUS
  <2>1. j + m \in m + 1..m + n /\ j + m - m = j
    BY <1>1
  <2> QED BY <1>1, <2>1
<1>3. \A i \in 1..m + n : i \in 1..m \/ (i \in m + 1..m + n /\ i - m \in 1..n)
  BY <1>1
<1>4. 1..m \subseteq 1..m + n /\ m + 1..m + n \subseteq 1..m + n
  BY <1>1
<1>5. SaysGone(ab, id) <=> SaysGone(a, id) \/ SaysGone(b, id)
  <2>1. ASSUME SaysGone(ab, id) PROVE SaysGone(a, id) \/ SaysGone(b, id)
    <3>1. PICK i \in 1..m + n : ab[i].is = "gone" /\ ab[i].id = id
      BY <1>1, <2>1 DEF SaysGone
    <3> QED BY <1>1, <1>3, <3>1 DEF SaysGone
  <2>2. ASSUME SaysGone(a, id) PROVE SaysGone(ab, id)
    BY <1>1, <1>4, <2>2 DEF SaysGone
  <2>3. ASSUME SaysGone(b, id) PROVE SaysGone(ab, id)
    <3>1. PICK j \in 1..n : b[j].is = "gone" /\ b[j].id = id
      BY <1>1, <2>3 DEF SaysGone
    <3> QED BY <1>1, <1>2, <1>4, <3>1 DEF SaysGone
  <2> QED BY <2>1, <2>2, <2>3
<1>6. ASSUME LastSpawned(ab, id)
      PROVE  LastSpawned(b, id) \/ (LastSpawned(a, id) /\ ~SaysGone(b, id))
  <2>1. PICK i \in 1..m + n :
          /\ ab[i].is = "spawned" /\ ab[i].id = id
          /\ \A j \in 1..m + n : j > i => ~(ab[j].is = "gone" /\ ab[j].id = id)
    BY <1>1, <1>6 DEF LastSpawned
  <2>2. CASE i \in 1..m
    <3>1. a[i].is = "spawned" /\ a[i].id = id
      BY <1>1, <2>1, <2>2
    <3>2. \A j \in 1..m : j > i => ~(a[j].is = "gone" /\ a[j].id = id)
      BY <1>1, <1>4, <2>1
    <3>3. ASSUME NEW j \in 1..n PROVE ~(b[j].is = "gone" /\ b[j].id = id)
      <4>1. j + m > i /\ j + m \in 1..m + n /\ ab[j + m] = b[j]
        BY <1>1, <1>2, <1>4, <2>2
      <4> QED BY <2>1, <4>1
    <3>4. LastSpawned(a, id)
      BY <1>1, <2>2, <3>1, <3>2 DEF LastSpawned
    <3>5. ~SaysGone(b, id)
      BY <1>1, <3>3 DEF SaysGone
    <3> QED BY <3>4, <3>5
  <2>3. CASE i \in m + 1..m + n /\ i - m \in 1..n
    <3>1. b[i - m].is = "spawned" /\ b[i - m].id = id
      BY <1>1, <2>1, <2>3
    <3>2. ASSUME NEW j \in 1..n, j > i - m PROVE ~(b[j].is = "gone" /\ b[j].id = id)
      <4>1. j + m > i /\ j + m \in 1..m + n /\ ab[j + m] = b[j]
        BY <1>1, <1>2, <1>4, <3>2
      <4> QED BY <2>1, <4>1
    <3>3. LastSpawned(b, id)
      BY <1>1, <2>3, <3>1, <3>2 DEF LastSpawned
    <3> QED BY <3>3
  <2> QED BY <1>3, <2>2, <2>3
<1>7. ASSUME LastSpawned(b, id) PROVE LastSpawned(ab, id)
  <2>1. PICK i \in 1..n :
          /\ b[i].is = "spawned" /\ b[i].id = id
          /\ \A j \in 1..n : j > i => ~(b[j].is = "gone" /\ b[j].id = id)
    BY <1>1, <1>7 DEF LastSpawned
  <2>2. i + m \in 1..m + n /\ ab[i + m] = b[i]
    BY <1>1, <1>2, <1>4
  <2>3. ASSUME NEW j \in 1..m + n, j > i + m PROVE ~(ab[j].is = "gone" /\ ab[j].id = id)
    <3>1. j \in m + 1..m + n /\ j - m \in 1..n /\ j - m > i
      BY <1>1, <2>3
    <3>2. ab[j] = b[j - m]
      BY <1>1, <3>1
    <3> QED BY <2>1, <3>1, <3>2
  <2> QED BY <1>1, <2>1, <2>2, <2>3 DEF LastSpawned
<1>8. ASSUME LastSpawned(a, id), ~SaysGone(b, id) PROVE LastSpawned(ab, id)
  <2>1. PICK i \in 1..m :
          /\ a[i].is = "spawned" /\ a[i].id = id
          /\ \A j \in 1..m : j > i => ~(a[j].is = "gone" /\ a[j].id = id)
    BY <1>1, <1>8 DEF LastSpawned
  <2>2. \A j \in 1..n : ~(b[j].is = "gone" /\ b[j].id = id)
    BY <1>1, <1>8 DEF SaysGone
  <2>3. ASSUME NEW j \in 1..m + n, j > i PROVE ~(ab[j].is = "gone" /\ ab[j].id = id)
    BY <1>1, <1>3, <2>1, <2>2, <2>3
  <2>4. i \in 1..m + n /\ ab[i] = a[i]
    BY <1>1, <1>4
  <2> QED BY <1>1, <2>1, <2>3, <2>4 DEF LastSpawned
<1> QED BY <1>1, <1>5, <1>6, <1>7, <1>8 DEF ab

\* One change is told as `relay_item` tells it.
LEMMA SaidAtOnce ==
  ASSUME NEW S, NEW c \in Change
  PROVE  <<c>> \in Seq(Change) /\ WillShow(S, <<c>>) = Told(S, c)
<1>1. <<c>> \in Seq(Change) /\ DOMAIN <<c>> = {1} /\ <<c>>[1] = c
  OBVIOUS
<1>2. c.is \in {"spawned", "settled", "gone"}
  BY DEF Change
<1>3. ASSUME NEW id PROVE id \in WillShow(S, <<c>>) <=> id \in Told(S, c)
  <2>1. SaysGone(<<c>>, id) <=> c.is = "gone" /\ c.id = id
    BY <1>1 DEF SaysGone
  <2>2. LastSpawned(<<c>>, id) <=> c.is = "spawned" /\ c.id = id
    BY <1>1 DEF LastSpawned
  <2>3. CASE c.is = "spawned"
    BY <1>1, <2>1, <2>2, <2>3, WhatItShows DEF Told
  <2>4. CASE c.is = "gone"
    BY <1>1, <2>1, <2>2, <2>4, WhatItShows DEF Told
  <2>5. CASE c.is = "settled"
    BY <1>1, <2>1, <2>2, <2>5, WhatItShows DEF Told
  <2> QED BY <1>2, <2>3, <2>4, <2>5
<1> QED BY <1>1, <1>3

LEMMA HeadThenTail ==
  ASSUME NEW changes \in Seq(Change), changes # <<>>
  PROVE  /\ Head(changes) \in Change /\ Tail(changes) \in Seq(Change)
         /\ <<Head(changes)>> \in Seq(Change)
         /\ changes = <<Head(changes)>> \o Tail(changes)
<1> DEFINE c == Head(changes)
           rest == Tail(changes)
<1>1. c \in Change /\ rest \in Seq(Change)
  BY HeadTailProperties
<1>2. <<c>> \in Seq(Change)
  BY <1>1
<1>3. changes = <<c>> \o rest
  <2>1. /\ Len(changes) \in Nat \ {0} /\ Len(rest) = Len(changes) - 1 /\ c = changes[1]
        /\ \A i \in 1..Len(rest) : rest[i] = changes[i + 1]
    BY HeadTailProperties, EmptySeq
  <2>2. /\ <<c>> \o rest \in Seq(Change) /\ Len(<<c>>) = 1 /\ Len(<<c>> \o rest) = Len(<<c>>) + Len(rest)
        /\ \A i \in 1..Len(<<c>>) + Len(rest) :
             (<<c>> \o rest)[i] = IF i <= Len(<<c>>) THEN <<c>>[i] ELSE rest[i - Len(<<c>>)]
    BY <1>1, <1>2, ConcatProperties
  <2> DEFINE both == <<c>> \o rest
  <2>3. Len(both) = Len(changes) /\ both \in Seq(Change)
    <3> HIDE DEF c, rest
    <3> QED BY <2>1, <2>2
  <2>4. ASSUME NEW i \in 1..Len(changes) PROVE changes[i] = both[i]
    <3>1. i \in 1..1 + Len(rest) /\ i \in Int
      BY <2>1
    <3>2. both[i] = IF i <= 1 THEN <<c>>[i] ELSE rest[i - 1]
      BY <2>2, <3>1
    <3>3. CASE i = 1
      BY <2>1, <3>2, <3>3
    <3>4. CASE i # 1
      <4>1. i - 1 \in 1..Len(rest) /\ i - 1 + 1 = i /\ ~(i <= 1)
        BY <3>1, <3>4
      <4>2. rest[i - 1] = changes[i - 1 + 1]
        BY <2>1, <4>1
      <4> QED BY <3>2, <4>1, <4>2
    <3> QED BY <3>3, <3>4
  <2> HIDE DEF both
  <2>5. changes = both
    BY <2>3, <2>4, SeqEqual
  <2> QED BY <2>5 DEF both
<1> HIDE DEF c, rest
<1>4. /\ c \in Change /\ rest \in Seq(Change) /\ <<c>> \in Seq(Change)
      /\ changes = <<c>> \o rest
  BY <1>1, <1>2, <1>3
<1> QED BY <1>4 DEF c, rest

\* The first of some changes has been taken.
LEMMA SaidOnceTaken ==
  ASSUME NEW changes \in Seq(Change), changes # <<>>, NEW id
  PROVE  /\ SaysGone(Tail(changes), id) => SaysGone(changes, id)
         /\ LastSpawned(Tail(changes), id) => LastSpawned(changes, id)
         /\ SaysGone(Tail(changes), id) /\ LastSpawned(changes, id)
              => LastSpawned(Tail(changes), id)
<1>1. PICK one, rest : one = <<Head(changes)>> /\ rest = Tail(changes)
  OBVIOUS
<1>2. one \in Seq(Change) /\ rest \in Seq(Change) /\ changes = one \o rest
  BY <1>1, HeadThenTail
<1>3. /\ SaysGone(changes, id) <=> SaysGone(one, id) \/ SaysGone(rest, id)
      /\ LastSpawned(changes, id)
           <=> LastSpawned(rest, id) \/ (LastSpawned(one, id) /\ ~SaysGone(rest, id))
  BY <1>2, SaidInTwo
<1> QED BY <1>1, <1>3

-----------------------------------------------------------------------------
(***************************************************************************)
(* The channel.                                                            *)
(***************************************************************************)
ChannelOK ==
  /\ inbox \in [Sessions -> Seq(Change)]
  /\ lagged \in [Sessions -> {"no", "yes", "was"}]
  /\ \A s \in Sessions : Len(inbox[s]) <= Backlog

\* What is announced is just what happened to the list.
Announced ==
  \E c \in Seq(Change) : Announce(c) /\ WillShow(OnGround(ground), c) = OnGround(ground')

\* The end of a list of changes that is no longer than the backlog.
LEMMA KeptOf ==
  ASSUME NEW all \in Seq(Change), NEW m,
         m = 1 + (IF Len(all) > Backlog THEN Len(all) - Backlog ELSE 0)
  PROVE  /\ SubSeq(all, m, Len(all)) \in Seq(Change)
         /\ Len(SubSeq(all, m, Len(all))) <= Backlog
         /\ Len(all) <= Backlog => SubSeq(all, m, Len(all)) = all
<1> DEFINE n == Len(all)
<1>1. n \in Nat /\ Backlog \in Nat /\ DOMAIN all = 1..n /\ \A i \in 1..n : all[i] \in Change
  BY LenProperties, ElementOfSeq, ItemsAssumption
<1>2. m = 1 + (IF n > Backlog THEN n - Backlog ELSE 0)
  OBVIOUS
<1>3. n <= Backlog => SubSeq(all, 1, n) = all
  BY SubSeqFull
<1> HIDE DEF n
<1>4. m \in Int /\ n \in Int /\ m >= 1 /\ n - m + 1 <= Backlog /\ (n <= Backlog => m = 1)
  BY <1>1, <1>2
<1>5. \A i \in m..n : all[i] \in Change
  BY <1>1, <1>4
<1>6. SubSeq(all, m, n) \in Seq(Change)
      /\ Len(SubSeq(all, m, n)) = IF m <= n THEN n - m + 1 ELSE 0
  BY <1>4, <1>5, SubSeqProperties
<1>7. Len(SubSeq(all, m, n)) <= Backlog
  BY <1>1, <1>4, <1>6
<1> QED BY <1>3, <1>4, <1>6, <1>7 DEF n

LEMMA AnnounceFacts ==
  ASSUME ChannelOK, NEW c \in Seq(Change), Announce(c)
  PROVE  /\ ChannelOK'
         /\ \A s \in Present : lagged'[s] = "no"
              => lagged[s] = "no" /\ inbox'[s] = inbox[s] \o c
         /\ \A s \in Sessions \ Present : inbox'[s] = <<>>
<1> DEFINE all(s) == inbox[s] \o c
           m(s) == 1 + (IF Len(all(s)) > Backlog THEN Len(all(s)) - Backlog ELSE 0)
           kept(s) == SubSeq(all(s), m(s), Len(all(s)))
<1>1. ASSUME NEW s \in Sessions
      PROVE  /\ kept(s) \in Seq(Change) /\ Len(kept(s)) <= Backlog
             /\ Len(all(s)) <= Backlog => kept(s) = all(s)
             /\ Len(all(s)) \in Nat
  <2>1. all(s) \in Seq(Change) /\ Len(all(s)) \in Nat
    BY ConcatProperties, LenProperties DEF ChannelOK
  <2>2. PICK one : one = all(s)
    OBVIOUS
  <2>3. PICK from : from = m(s)
    OBVIOUS
  <2>4. from = 1 + (IF Len(one) > Backlog THEN Len(one) - Backlog ELSE 0)
        /\ kept(s) = SubSeq(one, from, Len(one)) /\ one \in Seq(Change)
    BY <2>1, <2>2, <2>3
  <2> HIDE DEF all, m, kept
  <2>5. /\ SubSeq(one, from, Len(one)) \in Seq(Change)
        /\ Len(SubSeq(one, from, Len(one))) <= Backlog
        /\ Len(one) <= Backlog => SubSeq(one, from, Len(one)) = one
    BY <2>4, KeptOf
  <2> QED BY <2>1, <2>2, <2>4, <2>5
<1>2. /\ inbox' = [s \in Sessions |-> IF s \in Present THEN kept(s) ELSE <<>>]
      /\ lagged' = [s \in Sessions |->
           IF s \in Present /\ Len(all(s)) > Backlog THEN "yes" ELSE lagged[s]]
  BY DEF Announce
<1> HIDE DEF all, m, kept
<1>3. Len(<<>>) = 0 /\ Backlog \in Nat /\ <<>> \in Seq(Change) /\ Present \subseteq Sessions
  BY ItemsAssumption DEF Present
<1>4. ChannelOK'
  BY <1>1, <1>2, <1>3 DEF ChannelOK
<1>5. ASSUME NEW s \in Present, lagged'[s] = "no"
      PROVE  lagged[s] = "no" /\ inbox'[s] = inbox[s] \o c
  <2>1. Len(all(s)) <= Backlog /\ lagged[s] = "no"
    BY <1>1, <1>2, <1>3, <1>5
  <2>2. inbox'[s] = all(s)
    BY <1>1, <1>2, <1>3, <2>1
  <2> QED BY <2>1, <2>2 DEF all
<1>6. \A s \in Sessions \ Present : inbox'[s] = <<>>
  BY <1>2
<1> QED BY <1>4, <1>5, <1>6

\* A client is told of some changes, and then of others.
LEMMA ShownInTwo ==
  ASSUME NEW S, NEW a \in Seq(Change), NEW b \in Seq(Change)
  PROVE  WillShow(S, a \o b) = WillShow(WillShow(S, a), b)
<1> DEFINE T == WillShow(S, a)
           ab == a \o b
<1>1. ASSUME NEW id PROVE id \in WillShow(S, ab) <=> id \in WillShow(T, b)
  <2>1. /\ ab \in Seq(Change)
        /\ SaysGone(ab, id) <=> SaysGone(a, id) \/ SaysGone(b, id)
        /\ LastSpawned(ab, id) <=> LastSpawned(b, id) \/ (LastSpawned(a, id) /\ ~SaysGone(b, id))
    BY SaidInTwo
  <2>2. id \in T <=> LastSpawned(a, id) \/ (id \in S /\ ~SaysGone(a, id))
    BY WhatItShows
  <2> HIDE DEF T, ab
  <2>3. id \in WillShow(T, b) <=> LastSpawned(b, id) \/ (id \in T /\ ~SaysGone(b, id))
    BY WhatItShows
  <2>4. id \in WillShow(S, ab) <=> LastSpawned(ab, id) \/ (id \in S /\ ~SaysGone(ab, id))
    BY <2>1, WhatItShows
  <2> QED BY <2>1, <2>2, <2>3, <2>4
<1> HIDE DEF T, ab
<1>2. \A id : id \in WillShow(S, ab) <=> id \in WillShow(T, b)
  BY <1>1
<1> QED BY <1>2 DEF T, ab

\* To be told the first of some changes, and then of the others.
LEMMA ToldAndThen ==
  ASSUME NEW S, NEW changes \in Seq(Change), changes # <<>>
  PROVE  WillShow(Told(S, Head(changes)), Tail(changes)) = WillShow(S, changes)
<1>1. PICK one, rest : one = <<Head(changes)>> /\ rest = Tail(changes)
  OBVIOUS
<1>2. one \in Seq(Change) /\ rest \in Seq(Change) /\ changes = one \o rest
      /\ Head(changes) \in Change
  BY <1>1, HeadThenTail
<1>3. WillShow(S, one) = Told(S, Head(changes))
  BY <1>1, <1>2, SaidAtOnce
<1>4. WillShow(S, one \o rest) = WillShow(WillShow(S, one), rest)
  BY <1>2, ShownInTwo
<1> QED BY <1>1, <1>2, <1>3, <1>4

LEMMA ShownOfNone ==
  ASSUME NEW S
  PROVE  <<>> \in Seq(Change) /\ WillShow(S, <<>>) = S
<1>1. PICK none : none = <<>>
  OBVIOUS
<1>2. none \in Seq(Change) /\ DOMAIN none = {}
  BY <1>1
<1>3. ASSUME NEW id PROVE id \in WillShow(S, none) <=> id \in S
  <2>1. ~SaysGone(none, id) /\ ~LastSpawned(none, id)
    BY <1>2 DEF SaysGone, LastSpawned
  <2> QED BY <1>2, <2>1, WhatItShows
<1> QED BY <1>1, <1>2, <1>3

\* Nothing but the end of some.
LEMMA NoneSpawned ==
  ASSUME NEW S, NEW c \in Seq(Change), \A i \in DOMAIN c : c[i].is # "spawned", NEW id
  PROVE  id \in WillShow(S, c) <=> id \in S /\ ~SaysGone(c, id)
<1>1. ~LastSpawned(c, id)
  BY DEF LastSpawned
<1> QED BY <1>1, WhatItShows

-----------------------------------------------------------------------------
(***************************************************************************)
(* What the clients show.                                                  *)
(***************************************************************************)
\* What some changes say last of an id is so.
Honest(changes, on) ==
  /\ \A id : LastSpawned(changes, id) => id \in on
  /\ \A id : SaysGone(changes, id) /\ ~LastSpawned(changes, id) => id \notin on

ClientOK(s) ==
  /\ session[s].at = "out" => inbox[s] = <<>>
  /\ session[s].whole => Covers(session[s].place)
  /\ lagged[s] = "no" => Honest(inbox[s], OnGround(ground))
  /\ session[s].at = "in" /\ session[s].whole /\ lagged[s] = "no"
       => WillShow(session[s].shown, inbox[s]) = OnGround(ground)

LEMMA NoneIsHonest ==
  ASSUME NEW on
  PROVE  Honest(<<>>, on)
<1>1. PICK none : none = <<>>
  OBVIOUS
<1>2. DOMAIN none = {}
  BY <1>1
<1>3. Honest(none, on)
  BY <1>2 DEF Honest, SaysGone, LastSpawned
<1> QED BY <1>1, <1>3

\* A session that does no more than take up or put down what is in its hand.
SameView(s) ==
  /\ session'[s].at = session[s].at /\ session'[s].place = session[s].place
  /\ session'[s].shown = session[s].shown /\ session'[s].whole = session[s].whole

\* Whoever changes the list, and announces what it did, leaves the clients right.
LEMMA AnnouncedKeeps ==
  ASSUME ChannelOK, Announced, NEW s \in Sessions, ClientOK(s), SameView(s)
  PROVE  ClientOK(s)'
<1> DEFINE G == OnGround(ground)
           H == OnGround(ground')
<1>1. PICK c \in Seq(Change) : Announce(c) /\ WillShow(G, c) = H
  BY DEF Announced
<1>2. /\ ChannelOK'
      /\ s \in Present /\ lagged'[s] = "no" => lagged[s] = "no" /\ inbox'[s] = inbox[s] \o c
      /\ s \notin Present => inbox'[s] = <<>>
  BY <1>1, AnnounceFacts
<1>3. s \in Present <=> session[s].at # "out"
  BY DEF Present
<1>4. inbox[s] \in Seq(Change)
  BY DEF ChannelOK
<1>5. ASSUME NEW id PROVE id \in H <=> LastSpawned(c, id) \/ (id \in G /\ ~SaysGone(c, id))
  BY <1>1, WhatItShows
<1> HIDE DEF G, H
<1>6. ASSUME s \in Present, lagged'[s] = "no"
      PROVE  /\ Honest(inbox'[s], H)
             /\ session'[s].at = "in" /\ session'[s].whole
                  => WillShow(session'[s].shown, inbox'[s]) = H
  <2>1. lagged[s] = "no" /\ inbox'[s] = inbox[s] \o c
    BY <1>2, <1>6
  <2>2. Honest(inbox[s], G)
    BY <2>1 DEF ClientOK, G
  <2>3. ASSUME NEW id
        PROVE  /\ LastSpawned(inbox'[s], id) => id \in H
               /\ SaysGone(inbox'[s], id) /\ ~LastSpawned(inbox'[s], id) => id \notin H
    <3>1. /\ SaysGone(inbox'[s], id) <=> SaysGone(inbox[s], id) \/ SaysGone(c, id)
          /\ LastSpawned(inbox'[s], id)
               <=> LastSpawned(c, id) \/ (LastSpawned(inbox[s], id) /\ ~SaysGone(c, id))
      BY <1>4, <2>1, SaidInTwo
    <3>2. /\ LastSpawned(inbox[s], id) => id \in G
          /\ SaysGone(inbox[s], id) /\ ~LastSpawned(inbox[s], id) => id \notin G
      BY <2>2 DEF Honest
    <3>3. id \in H <=> LastSpawned(c, id) \/ (id \in G /\ ~SaysGone(c, id))
      BY <1>5
    <3> QED BY <3>1, <3>2, <3>3
  <2>4. Honest(inbox'[s], H)
    BY <2>3 DEF Honest
  <2>5. ASSUME session'[s].at = "in", session'[s].whole
        PROVE  WillShow(session'[s].shown, inbox'[s]) = H
    <3>1. WillShow(session[s].shown, inbox[s]) = G /\ session'[s].shown = session[s].shown
      BY <2>1, <2>5 DEF ClientOK, SameView, G
    <3>2. WillShow(session[s].shown, inbox[s] \o c) = WillShow(G, c)
      BY <1>4, <3>1, ShownInTwo
    <3> QED BY <1>1, <2>1, <3>1, <3>2
  <2> QED BY <2>4, <2>5
<1>7. CASE s \in Present
  BY <1>3, <1>6, <1>7 DEF ClientOK, SameView, G, H
<1>8. CASE s \notin Present
  <2>1. inbox'[s] = <<>> /\ session'[s].at = "out" /\ Honest(inbox'[s], H)
    BY <1>2, <1>3, <1>8, NoneIsHonest DEF SameView
  <2> QED BY <2>1 DEF ClientOK, SameView, G, H
<1> QED BY <1>7, <1>8

-----------------------------------------------------------------------------
(***************************************************************************)
(* What is done to the list: something is put at its end.                  *)
(***************************************************************************)
Distinct(list) == \A i, j \in DOMAIN list : list[i].id = list[j].id => i = j

GroundOK(list) == list \in Seq(Entity) /\ Len(list) <= MaxEntities /\ Distinct(list)

ExtendedBy(more, e, base) ==
  \A i \in DOMAIN more : more[i] = e \/ \E j \in DOMAIN base : more[i] = base[j]

LEMMA AppendOK ==
  ASSUME NEW base, GroundOK(base), Len(base) < MaxEntities,
         NEW e \in Entity, e.id \notin OnGround(base)
  PROVE  /\ GroundOK(Append(base, e))
         /\ OnGround(Append(base, e)) = OnGround(base) \cup {e.id}
         /\ ExtendedBy(Append(base, e), e, base)
<1> DEFINE n == Len(base)
           more == Append(base, e)
<1>1. /\ more \in Seq(Entity) /\ n \in Nat /\ DOMAIN base = 1..n /\ DOMAIN more = 1..n + 1
      /\ Len(more) = n + 1 /\ more[n + 1] = e /\ \A i \in 1..n : more[i] = base[i]
  BY AppendProperties, LenProperties DEF GroundOK
<1>2. n + 1 <= MaxEntities /\ MaxEntities \in Nat
  BY <1>1, ItemsAssumption
<1> HIDE DEF n, more
<1>3. \A i \in 1..n + 1 : i \in 1..n \/ i = n + 1
  BY <1>1
<1>4. \A i \in 1..n : i \in 1..n + 1 /\ base[i].id # e.id
  BY <1>1 DEF OnGround
<1>5. Distinct(more)
  <2>1. \A i, j \in 1..n : base[i].id = base[j].id => i = j
    BY <1>1 DEF GroundOK, Distinct
  <2>2. \A i, j \in 1..n + 1 : more[i].id = more[j].id => i = j
    BY <1>1, <1>3, <1>4, <2>1
  <2> QED BY <1>1, <2>2 DEF Distinct
<1>6. OnGround(more) = OnGround(base) \cup {e.id}
  BY <1>1, <1>3, <1>4 DEF OnGround
<1>7. GroundOK(more)
  BY <1>1, <1>2, <1>5 DEF GroundOK
<1>8. ExtendedBy(more, e, base)
  BY <1>1, <1>3 DEF ExtendedBy
<1> QED BY <1>6, <1>7, <1>8 DEF more

LEMMA TailOK ==
  ASSUME NEW list, GroundOK(list), list # <<>>
  PROVE  /\ GroundOK(Tail(list)) /\ Len(Tail(list)) < MaxEntities
         /\ Head(list) \in Entity
         /\ OnGround(Tail(list)) = OnGround(list) \ {Head(list).id}
         /\ \A i \in DOMAIN Tail(list) : \E j \in DOMAIN list : Tail(list)[i] = list[j]
<1> DEFINE n == Len(list)
           rest == Tail(list)
<1>1. /\ rest \in Seq(Entity) /\ n \in Nat \ {0} /\ DOMAIN list = 1..n /\ DOMAIN rest = 1..n - 1
      /\ Len(rest) = n - 1 /\ Head(list) = list[1] /\ Head(list) \in Entity
      /\ \A i \in 1..n - 1 : rest[i] = list[i + 1]
      /\ n <= MaxEntities /\ MaxEntities \in Nat
  BY HeadTailProperties, LenProperties, EmptySeq, ItemsAssumption DEF GroundOK
<1>2. \A i, j \in 1..n : list[i].id = list[j].id => i = j
  BY <1>1 DEF GroundOK, Distinct
<1> HIDE DEF n, rest
<1>3. \A i \in 1..n - 1 : i + 1 \in 1..n /\ i + 1 # 1
  BY <1>1
<1>4. \A j \in 1..n : j = 1 \/ (j - 1 \in 1..n - 1 /\ j - 1 + 1 = j)
  BY <1>1
<1>5. \A i, j \in 1..n - 1 : rest[i].id = rest[j].id => i = j
  <2> SUFFICES ASSUME NEW i \in 1..n - 1, NEW j \in 1..n - 1, rest[i].id = rest[j].id
               PROVE  i = j
    OBVIOUS
  <2>1. i + 1 = j + 1
    BY <1>1, <1>2, <1>3
  <2> QED BY <2>1
<1>6. ASSUME NEW id PROVE id \in OnGround(rest) <=> id \in OnGround(list) \ {list[1].id}
  <2>1. ASSUME id \in OnGround(rest) PROVE id \in OnGround(list) \ {list[1].id}
    <3>1. PICK i \in 1..n - 1 : id = rest[i].id
      BY <1>1, <2>1 DEF OnGround
    <3>2. id = list[i + 1].id /\ i + 1 \in 1..n /\ i + 1 # 1 /\ 1 \in 1..n
      BY <1>1, <1>3, <3>1
    <3>3. id # list[1].id
      BY <1>2, <3>2
    <3> QED BY <1>1, <3>2, <3>3 DEF OnGround
  <2>2. ASSUME id \in OnGround(list) \ {list[1].id} PROVE id \in OnGround(rest)
    <3>1. PICK j \in 1..n : id = list[j].id /\ j # 1
      BY <1>1, <2>2 DEF OnGround
    <3>2. j - 1 \in 1..n - 1 /\ rest[j - 1] = list[j - 1 + 1] /\ j - 1 + 1 = j
      BY <1>1, <1>4, <3>1
    <3> QED BY <1>1, <3>1, <3>2 DEF OnGround
  <2> QED BY <2>1, <2>2
<1>7. GroundOK(rest) /\ Len(rest) < MaxEntities
  BY <1>1, <1>5 DEF GroundOK, Distinct
<1>8. OnGround(rest) = OnGround(list) \ {list[1].id}
  BY <1>6
<1>9. \A i \in DOMAIN rest : \E j \in DOMAIN list : rest[i] = list[j]
  BY <1>1, <1>3
<1> QED BY <1>1, <1>7, <1>8, <1>9 DEF rest

\* Everything on the ground now is new, or was there.
OldOrNew ==
  \A i \in DOMAIN ground' : ground'[i].age = 0 \/ \E j \in DOMAIN ground : ground'[i] = ground[j]

LEMMA EntityCounts == \A e \in Entity : e.count \in Nat /\ e.item \in Kinds /\ e.id \in Ids
                                          /\ e.place \in Floor /\ e.to \in Floor
BY ItemsAssumption DEF Entity

LEMMA PopDoes ==
  ASSUME GroundOK(ground), lost \in [Kinds -> Nat],
         NEW kind \in Kinds, NEW n \in 1..MaxStack, NEW p \in Floor, Pop(kind, n, p)
  PROVE  /\ GroundOK(ground') /\ Announced /\ OldOrNew
         /\ lost' \in [Kinds -> Nat]
         /\ \A k \in Kinds : InList(ground', k) + lost'[k]
              = InList(ground, k) + lost[k] + (IF kind = k THEN n ELSE 0)
<1> DEFINE New(to) == Popped(kind, n, p, to)
           full == Len(ground) >= MaxEntities
           base == IF full THEN Tail(ground) ELSE ground
           gone == IF full THEN <<Gone(Head(ground))>> ELSE <<>>
<1>1. PICK to \in Beside(p) :
        /\ ground' = Append(base, New(to))
        /\ lost' = IF full THEN Spilled(Head(ground)) ELSE lost
        /\ Announce(gone \o <<Spawned(New(to))>>)
  BY DEF Pop
<1> DEFINE new == New(to)
<1>2. new \in Entity /\ new.id \notin OnGround(ground) /\ new.age = 0
      /\ new.item = kind /\ new.count = n
  <2>1. PickupDelay \in Nat /\ Lifetime \in Nat \ {0}
    BY ItemsAssumption
  <2>2. 0 \in 0..Lifetime - 1 /\ PickupDelay \in 0..PickupDelay
    BY <2>1
  <2>3. to \in Floor
    BY DEF Beside
  <2>4. Ids \ Known # {}
    BY DEF Pop
  <2> DEFINE id == CHOOSE i \in Ids \ Known : TRUE
  <2>5. id \in Ids \ Known
    BY <2>4
  <2>6. OnGround(ground) \subseteq Known
    BY DEF Known
  <2>7. new = [id |-> id, item |-> kind, count |-> n, place |-> p, to |-> to,
               age |-> 0, delay |-> PickupDelay, settled |-> FALSE]
    BY DEF Popped
  <2> HIDE DEF id, new
  <2> QED BY <2>2, <2>3, <2>5, <2>6, <2>7 DEF Entity
<1>3. ASSUME full
      PROVE  ground # <<>>
  <2>1. Len(<<>>) = 0 /\ MaxEntities \in Nat \ {0}
    BY ItemsAssumption
  <2> QED BY <1>3, <2>1
<1>4. /\ GroundOK(base) /\ Len(base) < MaxEntities
      /\ gone \in Seq(Change) /\ WillShow(OnGround(ground), gone) = OnGround(base)
      /\ \A i \in DOMAIN base : \E j \in DOMAIN ground : base[i] = ground[j]
  <2>1. CASE full
    <3> DEFINE c == Gone(Head(ground))
    <3>1. /\ GroundOK(Tail(ground)) /\ Len(Tail(ground)) < MaxEntities
          /\ Head(ground) \in Entity
          /\ OnGround(Tail(ground)) = OnGround(ground) \ {Head(ground).id}
          /\ \A i \in DOMAIN Tail(ground) : \E j \in DOMAIN ground : Tail(ground)[i] = ground[j]
      BY <1>3, <2>1, TailOK
    <3>2. c \in Change /\ c.is = "gone" /\ c.id = Head(ground).id
      BY <3>1 DEF Gone, Change, Entity
    <3>3. Told(OnGround(ground), c) = OnGround(ground) \ {Head(ground).id}
      BY <3>2 DEF Told
    <3> HIDE DEF c
    <3>4. <<c>> \in Seq(Change) /\ WillShow(OnGround(ground), <<c>>) = Told(OnGround(ground), c)
      BY <3>2, SaidAtOnce
    <3> QED BY <2>1, <3>1, <3>3, <3>4 DEF c
  <2>2. CASE ~full
    <3>1. Len(ground) \in Nat /\ MaxEntities \in Nat
      BY LenProperties, ItemsAssumption DEF GroundOK
    <3>2. base = ground /\ gone = <<>> /\ Len(ground) < MaxEntities
      BY <2>2, <3>1
    <3> HIDE DEF base, gone
    <3> QED BY <3>2, ShownOfNone
  <2> QED BY <2>1, <2>2
<1>5. Spawned(new) \in Change /\ Spawned(new).is = "spawned" /\ Spawned(new).id = new.id
  BY <1>2 DEF Spawned, Change, Entity
<1> HIDE DEF new, New
<1>6. new.id \notin OnGround(base)
  <2> HIDE DEF gone
  <2>1. \A i \in DOMAIN base : base[i].id \in OnGround(ground)
    BY <1>4 DEF OnGround
  <2> QED BY <1>2, <2>1 DEF OnGround
<1>7. /\ GroundOK(Append(base, new))
      /\ OnGround(Append(base, new)) = OnGround(base) \cup {new.id}
      /\ ExtendedBy(Append(base, new), new, base)
  <2> HIDE DEF base, gone
  <2> QED BY <1>2, <1>4, <1>6, AppendOK
<1>8. ground' = Append(base, new)
  BY <1>1 DEF new
<1>9. GroundOK(ground') /\ OldOrNew
  <2> DEFINE more == Append(base, new)
  <2>1. /\ ground' = more /\ GroundOK(more)
        /\ ExtendedBy(more, new, base)
    <3> HIDE DEF base, gone
    <3> QED BY <1>7, <1>8
  <2> HIDE DEF base, gone, more
  <2>2. \A i \in DOMAIN more : more[i].age = 0 \/ \E j \in DOMAIN ground : more[i] = ground[j]
    BY <1>2, <1>4, <2>1 DEF ExtendedBy
  <2> QED BY <2>1, <2>2 DEF OldOrNew
<1>10. Announced
  <2> DEFINE last == Spawned(new)
             c == gone \o <<last>>
  <2>1. Announce(c)
    BY <1>1 DEF new
  <2>2. Told(OnGround(base), last) = OnGround(base) \cup {new.id}
    BY <1>5 DEF Told
  <2>3. last \in Change
    BY <1>5
  <2> HIDE DEF base, gone, last, full
  <2>4. <<last>> \in Seq(Change) /\ WillShow(OnGround(base), <<last>>) = Told(OnGround(base), last)
    BY <2>3, SaidAtOnce
  <2>5. WillShow(OnGround(ground), c) = WillShow(OnGround(base), <<last>>)
    <3>1. PICK one : one = <<last>>
      OBVIOUS
    <3>2. one \in Seq(Change) /\ c = gone \o one
      BY <2>4, <3>1
    <3> HIDE DEF c
    <3>3. WillShow(OnGround(ground), gone \o one) = WillShow(WillShow(OnGround(ground), gone), one)
      BY <1>4, <3>2, ShownInTwo
    <3> QED BY <1>4, <3>1, <3>2, <3>3
  <2>6. c \in Seq(Change)
    BY <1>4, <2>4, ConcatProperties
  <2>7. WillShow(OnGround(ground), c) = OnGround(ground')
    BY <1>7, <1>8, <2>2, <2>4, <2>5
  <2> HIDE DEF c
  <2> QED BY <2>1, <2>6, <2>7 DEF Announced
<1>11. lost' \in [Kinds -> Nat]
       /\ \A k \in Kinds : lost'[k] = lost[k] + (IF full THEN Counts(Head(ground), k) ELSE 0)
  <2>1. CASE full
    <3> DEFINE h == Head(ground)
    <3>1. h \in Entity
      BY <1>3, <2>1, TailOK
    <3>2. lost' = [lost EXCEPT ![h.item] = @ + h.count] /\ h.item \in Kinds /\ h.count \in Nat
      BY <1>1, <2>1, <3>1, EntityCounts DEF Spilled
    <3> HIDE DEF h
    <3> QED BY <2>1, <3>2 DEF Counts, h
  <2>2. CASE ~full
    BY <1>1, <2>2
  <2> QED BY <2>1, <2>2
<1>12. ASSUME NEW k \in Kinds
       PROVE  /\ InList(ground, k) = InList(base, k) + (IF full THEN Counts(Head(ground), k) ELSE 0)
              /\ InList(base, k) \in Nat
              /\ IF full THEN Counts(Head(ground), k) \in Nat ELSE TRUE
  <2>1. base \in Seq(Entity) /\ ground \in Seq(Entity)
    BY <1>4 DEF GroundOK
  <2>2. InList(base, k) \in Nat
    <3> HIDE DEF base
    <3> QED BY <2>1, EntityCounts, InListTyped
  <2>3. CASE full
    <3>1. InList(ground, k) = InList(Tail(ground), k) + Counts(Head(ground), k)
      BY <1>3, <2>1, <2>3, EntityCounts, InListTail
    <3>2. Counts(Head(ground), k) \in Nat
      BY <1>3, <2>3, TailOK, EntityCounts DEF Counts
    <3> QED BY <2>2, <2>3, <3>1, <3>2
  <2>4. CASE ~full
    BY <2>2, <2>4
  <2> QED BY <2>2, <2>3, <2>4
<1>13. ASSUME NEW k \in Kinds
       PROVE  InList(ground', k) = InList(base, k) + (IF kind = k THEN n ELSE 0)
  <2>1. base \in Seq(Entity)
    BY <1>4 DEF GroundOK
  <2> HIDE DEF base
  <2>2. InList(Append(base, new), k) = InList(base, k) + Counts(new, k)
    BY <1>2, <2>1, EntityCounts, InListAppend
  <2> QED BY <1>2, <1>8, <2>2 DEF Counts
<1>14. ASSUME NEW k \in Kinds
       PROVE  InList(ground', k) + lost'[k]
                = InList(ground, k) + lost[k] + (IF kind = k THEN n ELSE 0)
  <2> DEFINE b == InList(base, k)
             h == IF full THEN Counts(Head(ground), k) ELSE 0
             x == IF kind = k THEN n ELSE 0
  <2>1. /\ InList(ground, k) = b + h /\ lost'[k] = lost[k] + h /\ InList(ground', k) = b + x
        /\ b \in Nat /\ h \in Nat /\ x \in Nat /\ lost[k] \in Nat
    BY <1>11, <1>12, <1>13
  <2> HIDE DEF b, h, x
  <2>2. InList(ground', k) + lost'[k] = InList(ground, k) + lost[k] + x
    BY <2>1
  <2> QED BY <2>2 DEF x
<1> QED BY <1>9, <1>10, <1>11, <1>14

-----------------------------------------------------------------------------
(***************************************************************************)
(* What is done to the list: some of it is taken out.                      *)
(***************************************************************************)
\* The places J of a list hold entities, of different ids.
Apart(list, J) ==
  /\ \A i \in J : list[i] \in Entity
  /\ \A i, j \in J : list[i].id = list[j].id => i = j

IdsAt(list, J) == {list[i].id : i \in J}

\* What is left at some places of a list.
LEMMA ChosenOK ==
  ASSUME NEW list, NEW n \in Nat, n <= MaxEntities, NEW J \in SUBSET (1..n),
         Apart(list, J)
  PROVE  /\ GroundOK(Chosen(list, J)) /\ TakenFrom(Chosen(list, J), list, J)
         /\ OnGround(Chosen(list, J)) = IdsAt(list, J)
<1> DEFINE m == Cardinality(J)
           c == Chosen(list, J)
<1>1. /\ m \in Nat /\ m <= n
      /\ (\A i \in J : list[i] \in Entity) => c \in [1..m -> Entity]
  BY ChosenFacts
<1>2. PICK at : Order(at, list, J)
  BY ChosenFacts
<1>3. /\ DOMAIN c = 1..m /\ \A a \in 1..m : c[a] = list[at[a]]
      /\ \A a \in 1..m : at[a] \in J /\ \A d, b \in 1..m : at[d] = at[b] => d = b
  BY <1>2 DEF Order, Renames
<1> HIDE DEF m, c
<1>4. c \in Seq(Entity) /\ Len(c) = m /\ m <= MaxEntities
  <2>1. c \in [1..m -> Entity]
    BY <1>1 DEF Apart
  <2>2. c \in Seq(Entity) /\ Len(c) = m
    BY <1>1, <2>1, SeqIsFunction
  <2> QED BY <1>1, <2>2, ItemsAssumption
<1>5. Distinct(c)
  <2> SUFFICES ASSUME NEW a \in 1..m, NEW b \in 1..m, c[a].id = c[b].id PROVE a = b
    BY <1>3 DEF Distinct
  <2>1. at[a] \in J /\ at[b] \in J /\ list[at[a]].id = list[at[b]].id
    BY <1>3
  <2>2. at[a] = at[b]
    BY <2>1 DEF Apart
  <2> QED BY <1>3, <2>2
<1>6. TakenFrom(c, list, J)
  BY ChosenTaken DEF c
<1>7. OnGround(c) = IdsAt(list, J)
  <2>1. ASSUME NEW id PROVE id \in OnGround(c) <=> id \in IdsAt(list, J)
    <3>1. id \in OnGround(c) <=> \E a \in DOMAIN c : c[a].id = id
      BY DEF OnGround
    <3>2. id \in IdsAt(list, J) <=> \E i \in J : list[i].id = id
      BY DEF IdsAt
    <3> QED BY <1>6, <3>1, <3>2 DEF TakenFrom
  <2> QED BY <2>1
<1> QED BY <1>4, <1>5, <1>6, <1>7 DEF GroundOK, c

HandItem == [item : Kinds, count : 1..MaxStack]

LEMMA ClaimDoes ==
  ASSUME GroundOK(ground), session \in [Sessions -> Session], NEW s \in Sessions, ClaimNear(s)
  PROVE  /\ GroundOK(ground') /\ Announced /\ OldOrNew
         /\ session'[s].hand \in Seq(HandItem) /\ session[s].place \in Floor
         /\ session' = [session EXCEPT ![s].hand = session'[s].hand]
         /\ \A k \in Kinds : InList(ground', k) + InList(session'[s].hand, k) = InList(ground, k)
<1> DEFINE near == {i \in DOMAIN ground : Takes(s, ground[i])}
           far == DOMAIN ground \ near
           taken == Chosen(ground, near)
           hand == [i \in DOMAIN taken |-> [item |-> taken[i].item, count |-> taken[i].count]]
           c == [i \in DOMAIN taken |-> Gone(taken[i])]
           m == Cardinality(near)
           n == Len(ground)
<1>1. /\ near # {} /\ ground' = Chosen(ground, far) /\ Announce(c)
      /\ session' = [session EXCEPT ![s].hand = hand]
  BY DEF ClaimNear
<1>2. /\ ground \in Seq(Entity) /\ n \in Nat /\ DOMAIN ground = 1..n /\ n <= MaxEntities
      /\ \A i \in 1..n : ground[i] \in Entity
      /\ \A i, j \in 1..n : ground[i].id = ground[j].id => i = j
  BY LenProperties, ElementOfSeq DEF GroundOK, Distinct
<1>3. near \in SUBSET (1..n) /\ far \in SUBSET (1..n) /\ Apart(ground, near) /\ Apart(ground, far)
      /\ near \in SUBSET DOMAIN ground /\ far = DOMAIN ground \ near
  BY <1>2 DEF Apart
<1>4. session[s].place \in Floor
  <2>1. PICK i \in DOMAIN ground : Within(ground[i].place, session[s].place, PickupReach)
    BY <1>1 DEF Takes
  <2>2. ground[i].place \in Floor /\ session[s].place \in Places
    BY <1>2, EntityCounts DEF Session
  <2>3. PICK q : q = ground[i].place
    OBVIOUS
  <2>4. PICK p : p = session[s].place
    OBVIOUS
  <2>5. q \in Floor /\ p \in Places /\ q - p \in -PickupReach..PickupReach
    BY <2>1, <2>2, <2>3, <2>4 DEF Within
  <2>6. p \in Int /\ q \in Int /\ PickupReach \in Nat
    BY <2>5, ItemsAssumption
  <2>7. p - q \in -PickupReach..PickupReach
    BY <2>5, <2>6
  <2> QED BY <2>4, <2>5, <2>7, ItemsAssumption DEF Within
<1> HIDE DEF near, far, n, c, hand
<1>5. /\ GroundOK(ground') /\ TakenFrom(ground', ground, far)
      /\ OnGround(ground') = IdsAt(ground, far)
  BY <1>1, <1>2, <1>3, ChosenOK
<1>6. TakenFrom(taken, ground, near)
  BY <1>2, <1>3, ChosenOK
<1>7. taken \in Seq(Entity) /\ DOMAIN taken = 1..m /\ m \in Nat
      /\ \A i \in 1..m : taken[i] \in Entity
  <2>1. taken \in Seq(Entity) /\ DOMAIN taken = 1..Cardinality(near) /\ IsFiniteSet(near)
    BY <1>2, <1>3, ChosenIsList
  <2>2. m \in Nat
    BY <2>1, FS_CardinalityType
  <2> HIDE DEF taken
  <2> QED BY <2>1, <2>2, ElementOfSeq
<1> HIDE DEF taken, m
<1>8. OldOrNew
  BY <1>3, <1>5 DEF OldOrNew, TakenFrom
<1>9. hand \in Seq(HandItem)
  <2>1. \A i \in 1..m : [item |-> taken[i].item, count |-> taken[i].count] \in HandItem
    BY <1>7 DEF Entity, HandItem
  <2>2. hand \in [1..m -> HandItem]
    BY <1>7, <2>1 DEF hand
  <2> QED BY <1>7, <2>2, SeqIsFunction
<1>10. /\ c \in Seq(Change) /\ DOMAIN c = 1..m
       /\ \A i \in 1..m : c[i].is = "gone" /\ c[i].id = taken[i].id
  <2>1. \A i \in 1..m : Gone(taken[i]) \in Change
    BY <1>7 DEF Entity, Change, Gone
  <2>2. c \in [1..m -> Change]
    BY <1>7, <2>1 DEF c
  <2>3. DOMAIN c = 1..m /\ \A i \in 1..m : c[i].is = "gone" /\ c[i].id = taken[i].id
    BY <1>7 DEF Gone, c
  <2> QED BY <1>7, <2>2, <2>3, SeqIsFunction
<1>11. Announced
  <2>1. ASSUME NEW id
        PROVE  id \in WillShow(OnGround(ground), c) <=> id \in OnGround(ground')
    <3>1. id \in WillShow(OnGround(ground), c) <=> id \in OnGround(ground) /\ ~SaysGone(c, id)
      BY <1>10, NoneSpawned
    <3>2. SaysGone(c, id) <=> \E i \in near : ground[i].id = id
      BY <1>6, <1>7, <1>10 DEF SaysGone, TakenFrom
    <3>3. id \in OnGround(ground) <=> \E i \in 1..n : ground[i].id = id
      BY <1>2 DEF OnGround
    <3>4. id \in OnGround(ground') <=> \E i \in far : ground[i].id = id
      BY <1>5 DEF IdsAt
    <3> QED BY <1>2, <1>3, <3>1, <3>2, <3>3, <3>4
  <2>2. WillShow(OnGround(ground), c) = OnGround(ground')
    BY <2>1
  <2> QED BY <1>1, <1>10, <2>2 DEF Announced
<1>12. session'[s].hand = hand
  BY <1>1 DEF Session
<1>13. ASSUME NEW k \in Kinds
       PROVE  InList(ground', k) + InList(hand, k) = InList(ground, k)
  <2>1. InList(ground, k) = InList(taken, k) + InList(ground', k)
    <3>0. /\ ground \in Seq(Entity) /\ near \in SUBSET DOMAIN ground /\ far = DOMAIN ground \ near
          /\ \A e \in Entity : e.count \in Nat
      BY <1>2, <1>3, EntityCounts
    <3>1. InList(ground, k) = InList(Chosen(ground, near), k) + InList(Chosen(ground, far), k)
      BY ONLY <3>0, InListParts
    <3> QED BY <1>1, <1>3, <3>1 DEF taken
  <2>2. InList(hand, k) = InList(taken, k)
    <3>1. Of(hand, k) = Of(taken, k)
      BY DEF Of, Counts, hand
    <3>2. InList(hand, k) = Total(Of(hand, k)) /\ InList(taken, k) = Total(Of(taken, k))
      BY DEF InList, Of, Counts
    <3> QED BY <3>1, <3>2
  <2>3. InList(ground', k) \in Nat /\ InList(taken, k) \in Nat
    <3>1. ground' \in Seq(Entity)
      BY <1>5 DEF GroundOK
    <3> QED BY <1>7, <3>1, EntityCounts, InListTyped
  <2> QED BY <2>1, <2>2, <2>3
<1> QED BY <1>1, <1>4, <1>5, <1>8, <1>9, <1>11, <1>12, <1>13

-----------------------------------------------------------------------------
(***************************************************************************)
(* What is done to the list: a tick.  First what the first pass makes of   *)
(* an entity, which may be as old as one gets.                             *)
(***************************************************************************)
Aged == [ id : Ids, item : Kinds, count : 1..MaxStack, place : Floor, to : Floor,
          age : 0..Lifetime, delay : 0..PickupDelay, settled : BOOLEAN ]

SameStack(e, f) == f.id = e.id /\ f.item = e.item /\ f.count = e.count

LEMMA OlderFacts ==
  ASSUME NEW e \in Entity
  PROVE  Older(e) \in Aged /\ SameStack(e, Older(e)) /\ Older(e).to = e.to
<1> DEFINE d == IF e.delay = 0 THEN 0 ELSE e.delay - 1
<1>1. Lifetime \in Nat \ {0} /\ PickupDelay \in Nat /\ e.age \in 0..Lifetime - 1
      /\ e.delay \in 0..PickupDelay
  BY ItemsAssumption DEF Entity
<1>2. e.age + 1 \in 0..Lifetime /\ d \in 0..PickupDelay
  BY <1>1
<1>3. Older(e) = [e EXCEPT !.age = e.age + 1, !.delay = d]
  BY DEF Older
<1> HIDE DEF d
<1> QED BY <1>2, <1>3 DEF Entity, Aged, SameStack

LEMMA SteppedFacts ==
  ASSUME NEW e \in Entity, NEW players, NEW f \in Stepped(e, players)
  PROVE  f \in Aged /\ SameStack(e, f)
<1>1. CASE ~NearAny(e, players)
  <2>1. f = e
    BY <1>1 DEF Stepped
  <2>2. 0..Lifetime - 1 \subseteq 0..Lifetime
    BY ItemsAssumption
  <2> QED BY <2>1, <2>2 DEF Entity, Aged, SameStack
<1>2. CASE NearAny(e, players) /\ Ends(e)
  BY <1>2, OlderFacts DEF Stepped
<1>3. CASE NearAny(e, players) /\ ~Ends(e)
  <2> DEFINE o == Older(e)
  <2>1. o \in Aged /\ SameStack(e, o)
    BY OlderFacts
  <2>2. f \in Moves(o)
    BY <1>3 DEF Stepped
  <2> HIDE DEF o
  <2>3. CASE f = o
    BY <2>1, <2>3
  <2>4. CASE f = [o EXCEPT !.place = o.to, !.to = o.to, !.settled = TRUE]
    BY <2>1, <2>4 DEF Aged, SameStack
  <2>5. ASSUME NEW q \in Beside(o.to), f = [o EXCEPT !.place = o.to, !.to = q]
        PROVE  f \in Aged /\ SameStack(e, f)
    <3>1. q \in Floor
      BY DEF Beside
    <3> QED BY <2>1, <2>5, <3>1 DEF Aged, SameStack
  <2> QED BY <2>2, <2>3, <2>4, <2>5 DEF Moves
<1> QED BY <1>1, <1>2, <1>3

LEMMA NotEnded ==
  ASSUME NEW e \in Aged, ~(e.age >= Lifetime), NEW n \in 1..MaxStack
  PROVE  [e EXCEPT !.count = n] \in Entity
<1>1. e.age \in 0..Lifetime - 1
  <2>1. Lifetime \in Nat /\ e.age \in 0..Lifetime
    BY ItemsAssumption DEF Aged
  <2> QED BY <2>1
<1> QED BY <1>1 DEF Aged, Entity

-----------------------------------------------------------------------------
(***************************************************************************)
(* Then the second pass: what the turns leave of each stack.               *)
(***************************************************************************)
\* How many k are left of each.
LeftOf(left, list, k) == [i \in DOMAIN list |-> IF list[i].item = k THEN left[i] ELSE 0]

MergeOK(acc, list, near) ==
  /\ acc.left \in [DOMAIN list -> 0..MaxStack]
  /\ acc.told \in Seq(Change) /\ \A a \in DOMAIN acc.told : acc.told[a].is = "gone"
  /\ \A id : SaysGone(acc.told, id) <=> \E i \in DOMAIN list : acc.left[i] = 0 /\ list[i].id = id
  /\ \A i \in DOMAIN list \ near : acc.left[i] = list[i].count
  /\ \A k : Total(LeftOf(acc.left, list, k)) = InList(list, k)

MovedTo(g, f, S, a, b) ==
  /\ a \in S /\ b \in S /\ a # b
  /\ g[a] = f[a] + f[b] /\ g[b] = 0
  /\ \A x \in S \ {a, b} : g[x] = f[x]

\* Two terms change, and their sum does not.
LEMMA TotalMoved ==
  ASSUME NEW S, IsFiniteSet(S), NEW f \in [S -> Nat], NEW g \in [S -> Nat],
         NEW a, NEW b, MovedTo(g, f, S, a, b)
  PROVE  Total(g) = Total(f)
<1> DEFINE h == [f EXCEPT ![a] = g[a]]
<1>1. h \in [S -> Nat] /\ h[a] = g[a] /\ h[b] = f[b] /\ (\A x \in S \ {a} : h[x] = f[x])
      /\ \A x \in S \ {b} : g[x] = h[x]
  BY DEF MovedTo
<1> HIDE DEF h
<1>2. Total(h) = Total(f) - f[a] + h[a] /\ Total(f) \in Nat /\ Total(h) \in Nat
  BY <1>1, TotalChanges DEF MovedTo
<1>3. Total(g) = Total(h) - h[b] + g[b] /\ Total(g) \in Nat
  BY <1>1, TotalChanges DEF MovedTo
<1>4. f[a] \in Nat /\ f[b] \in Nat /\ g[a] = f[a] + f[b] /\ g[b] = 0
  BY DEF MovedTo
<1> QED BY <1>1, <1>2, <1>3, <1>4

LEMMA SaysGoneAppended ==
  ASSUME NEW told \in Seq(Change), NEW c \in Change, c.is = "gone"
  PROVE  /\ Append(told, c) \in Seq(Change)
         /\ (\A a \in DOMAIN told : told[a].is = "gone")
              => \A a \in DOMAIN Append(told, c) : Append(told, c)[a].is = "gone"
         /\ \A id : SaysGone(Append(told, c), id) <=> SaysGone(told, id) \/ c.id = id
<1> DEFINE n == Len(told)
           more == Append(told, c)
<1>1. /\ more \in Seq(Change) /\ n \in Nat /\ DOMAIN told = 1..n /\ DOMAIN more = 1..n + 1
      /\ more[n + 1] = c /\ \A i \in 1..n : more[i] = told[i]
  BY AppendProperties, LenProperties
<1> HIDE DEF n, more
<1>2. \A i \in 1..n + 1 : i \in 1..n \/ i = n + 1
  BY <1>1
<1>3. n + 1 \in 1..n + 1 /\ \A i \in 1..n : i \in 1..n + 1
  BY <1>1
<1>4. ASSUME NEW id PROVE SaysGone(more, id) <=> SaysGone(told, id) \/ c.id = id
  BY <1>1, <1>2, <1>3 DEF SaysGone
<1>5. (\A a \in DOMAIN told : told[a].is = "gone") => \A a \in DOMAIN more : more[a].is = "gone"
  BY <1>1, <1>2
<1>6. \A id : SaysGone(more, id) <=> SaysGone(told, id) \/ c.id = id
  BY <1>4
<1> QED BY <1>1, <1>5, <1>6 DEF more

LEMMA TurnKeeps ==
  ASSUME NEW list \in Seq(Aged), NEW near, near \in SUBSET DOMAIN list,
         NEW acc, MergeOK(acc, list, near), NEW i, NEW j
  PROVE  MergeOK(MergeTurn(list, near, acc, i, j), list, near)
<1> DEFINE new == [ left |-> [acc.left EXCEPT ![i] = acc.left[i] + acc.left[j], ![j] = 0],
                    told |-> Append(acc.told, Gone(list[j])) ]
           turn == MergeTurn(list, near, acc, i, j)
           left == acc.left
<1>1. \/ turn = acc
      \/ /\ turn = new /\ i \in near /\ j \in near /\ i < j
         /\ left[i] > 0 /\ left[j] > 0 /\ list[i].item = list[j].item
         /\ left[i] + left[j] <= MaxStack
  <2>1. ASSUME i \in near, j \in near
        PROVE  /\ [list[i] EXCEPT !.count = left[i]].item = list[i].item
               /\ [list[j] EXCEPT !.count = left[j]].item = list[j].item
               /\ [list[i] EXCEPT !.count = left[i]].count = left[i]
               /\ [list[j] EXCEPT !.count = left[j]].count = left[j]
    <3>1. list[i] \in Aged /\ list[j] \in Aged
      BY <2>1, ElementOfSeq, LenProperties
    <3> QED BY <3>1 DEF Aged
  <2> QED BY <2>1 DEF MergeTurn, Merged
<1>2. CASE turn = acc
  BY <1>2
<1>3. ASSUME turn = new, i \in near, j \in near, i < j, left[i] > 0, left[j] > 0,
             list[i].item = list[j].item, left[i] + left[j] <= MaxStack
      PROVE  MergeOK(turn, list, near)
  <2> DEFINE c == Gone(list[j])
             D == DOMAIN list
             after == new.left
  <2>1. /\ i \in D /\ j \in D /\ i # j /\ list[j] \in Aged
        /\ D = 1..Len(list) /\ Len(list) \in Nat
    <3>1. i \in Int /\ j \in Int
      BY <1>3, LenProperties
    <3> QED BY <1>3, <3>1, ElementOfSeq, LenProperties
  <2>2. c \in Change /\ c.is = "gone" /\ c.id = list[j].id
    BY <2>1 DEF Gone, Change, Aged
  <2>3. new.told = Append(acc.told, c) /\ new.left = [left EXCEPT ![i] = left[i] + left[j], ![j] = 0]
    OBVIOUS
  <2>4. left \in [D -> 0..MaxStack] /\ MaxStack \in Nat \ {0}
    BY ItemsAssumption DEF MergeOK
  <2> HIDE DEF left, D, new, c, turn
  <2>5. /\ after \in [D -> 0..MaxStack]
        /\ after[i] = left[i] + left[j] /\ after[j] = 0 /\ after[i] # 0
        /\ \A x \in D \ {i, j} : after[x] = left[x]
    <3>1. left[i] \in Nat /\ left[j] \in Nat /\ left[i] + left[j] \in 0..MaxStack
          /\ left[i] + left[j] # 0 /\ 0 \in 0..MaxStack
      BY <1>3, <2>1, <2>4
    <3> QED BY <2>1, <2>3, <2>4, <3>1
  <2> HIDE DEF after
  <2>6. /\ new.told \in Seq(Change) /\ \A a \in DOMAIN new.told : new.told[a].is = "gone"
        /\ \A id : SaysGone(new.told, id) <=> SaysGone(acc.told, id) \/ c.id = id
    <3>1. acc.told \in Seq(Change) /\ \A a \in DOMAIN acc.told : acc.told[a].is = "gone"
      BY DEF MergeOK
    <3> QED BY <2>2, <2>3, <3>1, SaysGoneAppended
  <2>7. ASSUME NEW id
        PROVE  SaysGone(new.told, id) <=> \E x \in D : after[x] = 0 /\ list[x].id = id
    <3>1. SaysGone(acc.told, id) <=> \E x \in D : left[x] = 0 /\ list[x].id = id
      BY DEF MergeOK, left, D
    <3>2. \A x \in D : after[x] = 0 <=> left[x] = 0 \/ x = j
      <4>1. left[i] # 0
        BY <1>3, <2>1, <2>4
      <4> QED BY <2>1, <2>5, <4>1
    <3> QED BY <2>1, <2>2, <2>6, <3>1, <3>2
  <2>8. \A x \in D \ near : after[x] = list[x].count
    <3>1. \A x \in D \ near : left[x] = list[x].count
      BY DEF MergeOK, left, D
    <3> QED BY <1>3, <2>5, <3>1
  <2>9. ASSUME NEW k PROVE Total(LeftOf(after, list, k)) = InList(list, k)
    <3> DEFINE f == LeftOf(left, list, k)
               g == LeftOf(after, list, k)
    <3>1. Total(f) = InList(list, k)
      BY DEF MergeOK, left
    <3>2. f \in [D -> Nat] /\ g \in [D -> Nat]
          /\ \A x \in D : /\ f[x] = IF list[x].item = k THEN left[x] ELSE 0
                          /\ g[x] = IF list[x].item = k THEN after[x] ELSE 0
      <4>1. \A x \in D : left[x] \in Nat /\ after[x] \in Nat
        BY <2>4, <2>5
      <4> QED BY <4>1 DEF LeftOf, D
    <3>3. IsFiniteSet(D)
      <4>1. Len(list) \in Int /\ 1 \in Int
        BY <2>1
      <4> QED BY <2>1, <4>1, FS_Interval
    <3> HIDE DEF f, g
    <3>4. CASE list[i].item = k
      <4>1. /\ g[i] = f[i] + f[j] /\ g[j] = 0
            /\ \A x \in D \ {i, j} : g[x] = f[x]
        <5>1. list[j].item = k
          BY <1>3, <3>4
        <5>2. g[i] = after[i] /\ g[j] = after[j] /\ f[i] = left[i] /\ f[j] = left[j]
          BY <2>1, <3>2, <3>4, <5>1
        <5>3. ASSUME NEW x \in D \ {i, j} PROVE g[x] = f[x]
          BY <2>5, <3>2
        <5>4. after[i] = left[i] + left[j] /\ after[j] = 0
          BY <2>5
        <5>5. g[i] = f[i] + f[j] /\ g[j] = 0
          BY <5>2, <5>4
        <5> QED BY <5>3, <5>5
      <4>2. Total(g) = Total(f)
        <5>1. MovedTo(g, f, D, i, j)
          BY <2>1, <4>1 DEF MovedTo
        <5> QED BY <3>2, <3>3, <5>1, TotalMoved
      <4> QED BY <3>1, <4>2 DEF g
    <3>5. CASE list[i].item # k
      <4>1. g = f
        <5>1. list[j].item # k
          BY <1>3, <3>5
        <5>2. ASSUME NEW x \in D PROVE g[x] = f[x]
          <6>1. x = i \/ x = j \/ x \in D \ {i, j}
            OBVIOUS
          <6> QED BY <2>5, <3>2, <3>5, <5>1, <6>1
        <5> QED BY <3>2, <5>2
      <4> QED BY <3>1, <4>1 DEF g
    <3> QED BY <3>4, <3>5
  <2>10. MergeOK(new, list, near)
    BY <2>5, <2>6, <2>7, <2>8, <2>9 DEF MergeOK, D, after
  <2> QED BY <1>3, <2>10
<1> HIDE DEF turn, new, left
<1>4. MergeOK(turn, list, near)
  BY <1>1, <1>2, <1>3
<1> QED BY <1>4 DEF turn

First(list) == [left |-> [i \in DOMAIN list |-> list[i].count], told |-> <<>>]

NextTurn(list, near, acc, t) ==
  MergeTurn(list, near, acc, 1 + ((t - 1) \div Len(list)), 1 + ((t - 1) % Len(list)))

Turns(g, list, near, n) ==
  g = [t \in 0..n |-> IF t = 0 THEN First(list) ELSE NextTurn(list, near, g[t - 1], t)]

\* The first so many turns are a function.
LEMMA LoopTurns ==
  ASSUME NEW list, NEW near, NEW n \in Nat
  PROVE  \E g : Turns(g, list, near, n)
<1> DEFINE T == {m \in Nat : \A g : ~Turns(g, list, near, m)}
<1>0. T \subseteq Nat /\ \A m \in Nat : m \in T \/ \E g : Turns(g, list, near, m)
  OBVIOUS
<1>1. ASSUME T # {} PROVE FALSE
  <2>1. PICK m \in T : \A k \in T : m <= k
    <3> HIDE DEF T
    <3> QED BY <1>0, <1>1, LeastNumber
  <2>2. m # 0
    <3>1. Turns([t \in 0..0 |-> First(list)], list, near, 0)
      BY DEF Turns
    <3> QED BY <3>1
  <2>3. m \in Nat /\ m - 1 \in Nat /\ m - 1 \notin T
    <3> HIDE DEF T
    <3> QED BY <1>0, <2>1, <2>2
  <2>4. PICK g : Turns(g, list, near, m - 1)
    BY <2>3
  <2> DEFINE h == [t \in 0..m |-> IF t < m THEN g[t] ELSE NextTurn(list, near, g[m - 1], m)]
  <2>5. \A t \in 0..m : h[t] = IF t = 0 THEN First(list) ELSE NextTurn(list, near, h[t - 1], t)
    <3> SUFFICES ASSUME NEW t \in 0..m
                 PROVE  h[t] = IF t = 0 THEN First(list) ELSE NextTurn(list, near, h[t - 1], t)
      OBVIOUS
    <3>1. CASE t < m
      <4>1. t \in 0..m - 1 /\ h[t] = g[t] /\ (t # 0 => t - 1 \in 0..m /\ t - 1 < m)
        BY <3>1, <2>2
      <4>2. t # 0 => h[t - 1] = g[t - 1]
        BY <4>1
      <4>3. g[t] = IF t = 0 THEN First(list) ELSE NextTurn(list, near, g[t - 1], t)
        BY <4>1, <2>4 DEF Turns
      <4> QED BY <4>1, <4>2, <4>3
    <3>2. CASE t = m
      <4>1. h[t] = NextTurn(list, near, g[m - 1], m) /\ h[m - 1] = g[m - 1] /\ t # 0
        BY <3>2, <2>2
      <4> QED BY <3>2, <4>1
    <3> QED BY <3>1, <3>2
  <2>6. Turns(h, list, near, m)
    BY <2>5 DEF Turns
  <2> QED BY <2>1, <2>6
<1>2. n \notin T
  BY <1>1
<1> HIDE DEF T
<1> QED BY <1>0, <1>2

LEMMA FirstOK ==
  ASSUME NEW list \in Seq(Aged), NEW near
  PROVE  MergeOK(First(list), list, near)
<1> DEFINE left == [i \in DOMAIN list |-> list[i].count]
           none == <<>>
<1>1. First(list).left = left /\ First(list).told = none
  BY DEF First
<1>2. \A i \in DOMAIN list : list[i].count \in 1..MaxStack
  <2>1. \A i \in DOMAIN list : list[i] \in Aged
    BY ElementOfSeq, LenProperties
  <2> QED BY <2>1 DEF Aged
<1>3. left \in [DOMAIN list -> 0..MaxStack] /\ \A i \in DOMAIN list : left[i] # 0 /\ left[i] = list[i].count
  <2>1. 1..MaxStack \subseteq 0..MaxStack /\ 0 \notin 1..MaxStack
    BY ItemsAssumption
  <2> QED BY <1>2, <2>1
<1>4. none \in Seq(Change) /\ DOMAIN none = {}
  OBVIOUS
<1>5. ASSUME NEW k PROVE Total(LeftOf(left, list, k)) = InList(list, k)
  BY DEF LeftOf, InList
<1> HIDE DEF left, none
<1>6. \A id : ~SaysGone(none, id)
  BY <1>4 DEF SaysGone
<1>7. \A id : SaysGone(none, id) <=> \E i \in DOMAIN list : left[i] = 0 /\ list[i].id = id
  BY <1>3, <1>6
<1> QED BY <1>1, <1>3, <1>4, <1>5, <1>7 DEF MergeOK

LEMMA TurnsKeep ==
  ASSUME NEW list \in Seq(Aged), NEW near, near \in SUBSET DOMAIN list,
         NEW n \in Nat, NEW g, Turns(g, list, near, n)
  PROVE  MergeOK(g[n], list, near)
<1> DEFINE T == {m \in 0..n : ~MergeOK(g[m], list, near)}
<1>1. ASSUME T # {} PROVE FALSE
  <2>1. PICK m \in T : \A k \in T : m <= k
    <3>1. T \subseteq Nat
      OBVIOUS
    <3> HIDE DEF T
    <3> QED BY <1>1, <3>1, LeastNumber
  <2>2. m \in 0..n /\ ~MergeOK(g[m], list, near)
    BY <2>1
  <2>3. g[m] = IF m = 0 THEN First(list) ELSE NextTurn(list, near, g[m - 1], m)
    BY <2>2 DEF Turns
  <2>4. m # 0
    BY <2>2, <2>3, FirstOK
  <2>5. m - 1 \in 0..n /\ m - 1 \notin T
    <3>1. m - 1 \in 0..n /\ ~(m <= m - 1)
      BY <2>2, <2>4
    <3> HIDE DEF T
    <3> QED BY <2>1, <3>1
  <2>6. MergeOK(g[m - 1], list, near)
    BY <2>5
  <2>7. MergeOK(NextTurn(list, near, g[m - 1], m), list, near)
    BY <2>6, TurnKeeps DEF NextTurn
  <2> QED BY <2>2, <2>3, <2>4, <2>7
<1>2. n \in 0..n
  OBVIOUS
<1> QED BY <1>1, <1>2

LEMMA PassFacts ==
  ASSUME NEW list \in Seq(Aged), NEW near, near \in SUBSET DOMAIN list
  PROVE  MergeOK(MergePass(list, near), list, near)
<1> DEFINE n == Len(list) * Len(list)
           g == CHOOSE f : Turns(f, list, near, n)
<1>1. n \in Nat
  <2>1. Len(list) \in Nat
    BY LenProperties
  <2> QED BY <2>1
<1>2. MergePass(list, near) = g[n]
  BY DEF MergePass, Turns, NextTurn, First
<1> HIDE DEF n
<1>3. Turns(g, list, near, n)
  BY <1>1, LoopTurns
<1> HIDE DEF g
<1> QED BY <1>1, <1>2, <1>3, TurnsKeep

-----------------------------------------------------------------------------
(***************************************************************************)
(* The whole of a tick.                                                    *)
(***************************************************************************)
\* An entity of which as much is left as the second pass left.
Rest == [ id : Ids, item : Kinds, count : 0..MaxStack, place : Floor, to : Floor,
          age : 0..Lifetime, delay : 0..PickupDelay, settled : BOOLEAN ]

LEMMA TickDoes ==
  ASSUME GroundOK(ground), lost \in [Kinds -> Nat], TickRun
  PROVE  /\ GroundOK(ground') /\ Announced /\ lost' \in [Kinds -> Nat]
         /\ \A k \in Kinds : InList(ground', k) + lost'[k] = InList(ground, k) + lost[k]
<1> DEFINE n == Len(ground)
<1>1. PICK stepped : /\ DOMAIN stepped = DOMAIN ground /\ stepped = [i \in DOMAIN ground |-> stepped[i]]
                     /\ \A i \in DOMAIN ground : stepped[i] \in Stepped(ground[i], ticker.players)
                     /\ TickTo(stepped)
  BY DEF TickRun
<1> DEFINE ended == {i \in DOMAIN ground : stepped[i].age >= Lifetime}
           landed == {i \in DOMAIN ground : stepped[i].settled /\ ~ground[i].settled}
           said == [i \in DOMAIN ground |-> IF i \in ended THEN Gone(ground[i])
                                            ELSE Settled(stepped[i])]
           said1 == Chosen(said, ended \cup landed)
           near == Near(ticker.players) \ ended
           rest == MergePass(stepped, near)
           left == rest.left
           now == [i \in DOMAIN ground |-> [stepped[i] EXCEPT !.count = left[i]]]
           stay == {i \in DOMAIN ground \ ended : left[i] > 0}
           merged == {i \in DOMAIN ground \ ended : ~(left[i] > 0)}
<1>2. /\ ground' = Chosen(now, stay) /\ Announce(said1 \o rest.told)
      /\ lost' = [k \in Kinds |-> lost[k] + InList(Chosen(ground, ended), k)]
  BY <1>1 DEF TickTo
<1>3. /\ ground \in Seq(Entity) /\ n \in Nat /\ DOMAIN ground = 1..n /\ n <= MaxEntities
      /\ \A i \in 1..n : ground[i] \in Entity
      /\ \A i, j \in 1..n : ground[i].id = ground[j].id => i = j
  BY LenProperties, ElementOfSeq DEF GroundOK, Distinct
<1>4. /\ ended \in SUBSET (1..n) /\ ended \cup landed \in SUBSET (1..n)
      /\ near \in SUBSET (1..n) /\ stay \in SUBSET (1..n) /\ merged \in SUBSET (1..n)
      /\ near \cap ended = {} /\ ended \in SUBSET DOMAIN ground
      /\ \A i \in 1..n : i \in ended <=> stepped[i].age >= Lifetime
      /\ \A i \in 1..n : i \in stay <=> i \notin ended /\ left[i] > 0
      /\ \A i \in 1..n : i \in merged <=> i \notin ended /\ ~(left[i] > 0)
  BY <1>3 DEF Near
<1>5. /\ stepped \in Seq(Aged) /\ DOMAIN stepped = 1..n
      /\ \A i \in 1..n : stepped[i] \in Aged /\ SameStack(ground[i], stepped[i])
  <2>1. \A i \in 1..n : stepped[i] \in Aged /\ SameStack(ground[i], stepped[i])
    BY <1>1, <1>3, SteppedFacts
  <2>2. stepped \in [1..n -> Aged]
    BY <1>1, <1>3, <2>1
  <2> QED BY <1>3, <2>1, <2>2, SeqIsFunction
<1>6. MergeOK(rest, stepped, near)
  BY <1>4, <1>5, PassFacts
<1> HIDE DEF n, ended, landed, near, rest
<1>7. /\ left \in [1..n -> 0..MaxStack]
      /\ rest.told \in Seq(Change) /\ \A a \in DOMAIN rest.told : rest.told[a].is = "gone"
      /\ \A id : SaysGone(rest.told, id) <=> \E i \in 1..n : left[i] = 0 /\ stepped[i].id = id
      /\ \A i \in ended : left[i] = stepped[i].count
      /\ \A k : Total(LeftOf(left, stepped, k)) = InList(stepped, k)
  BY <1>4, <1>5, <1>6 DEF MergeOK
<1>8. \A i \in 1..n : left[i] \in 0..MaxStack /\ left[i] \in Nat
  <2>1. left \in [1..n -> 0..MaxStack] /\ 0..MaxStack \subseteq Nat
    BY <1>7
  <2> HIDE DEF left
  <2> QED BY <2>1
<1>9. \A i \in 1..n : /\ now[i] = [stepped[i] EXCEPT !.count = left[i]]
                      /\ now[i] \in Rest /\ now[i].id = ground[i].id
                      /\ now[i].item = ground[i].item /\ now[i].count = left[i]
  <2> HIDE DEF left
  <2> SUFFICES ASSUME NEW i \in 1..n
               PROVE  /\ now[i] = [stepped[i] EXCEPT !.count = left[i]]
                      /\ now[i] \in Rest /\ now[i].id = ground[i].id
                      /\ now[i].item = ground[i].item /\ now[i].count = left[i]
    OBVIOUS
  <2>1. now[i] = [stepped[i] EXCEPT !.count = left[i]]
    BY <1>3
  <2> HIDE DEF now
  <2>2. stepped[i] \in Aged /\ SameStack(ground[i], stepped[i]) /\ left[i] \in 0..MaxStack
    BY <1>5, <1>8
  <2> QED BY <2>1, <2>2 DEF Aged, Rest, SameStack
<1>10. DOMAIN now = 1..n
  BY <1>3
<1> HIDE DEF left, now, stay, merged
<1>11. Apart(now, stay)
  <2>1. ASSUME NEW i \in stay PROVE now[i] \in Entity
    <3>1. i \in 1..n /\ left[i] > 0 /\ ~(stepped[i].age >= Lifetime) /\ stepped[i] \in Aged
      BY <1>4, <1>5
    <3>2. left[i] \in 1..MaxStack
      BY <1>8, <3>1
    <3> QED BY <1>9, <3>1, <3>2, NotEnded
  <2>2. \A i, j \in stay : now[i].id = now[j].id => i = j
    BY <1>3, <1>4, <1>9
  <2> QED BY <2>1, <2>2 DEF Apart
<1>12. GroundOK(ground') /\ OnGround(ground') = IdsAt(now, stay)
  BY <1>2, <1>3, <1>4, <1>11, ChosenOK
<1>13. /\ said1 \in Seq(Change) /\ \A a \in DOMAIN said1 : said1[a].is # "spawned"
       /\ \A id : SaysGone(said1, id) <=> \E i \in ended : ground[i].id = id
  <2> DEFINE I == ended \cup landed
  <2>1. \A i \in 1..n : /\ said[i] \in Change /\ said[i].is # "spawned"
                        /\ said[i].is = "gone" <=> i \in ended
                        /\ i \in ended => said[i].id = ground[i].id
    <3>1. \A i \in 1..n : said[i] = IF i \in ended THEN Gone(ground[i]) ELSE Settled(stepped[i])
      BY <1>3
    <3> HIDE DEF said
    <3> SUFFICES ASSUME NEW i \in 1..n
                 PROVE  /\ said[i] \in Change /\ said[i].is # "spawned"
                        /\ said[i].is = "gone" <=> i \in ended
                        /\ i \in ended => said[i].id = ground[i].id
      OBVIOUS
    <3>2. ground[i] \in Entity /\ stepped[i] \in Aged
      BY <1>3, <1>5
    <3>3. CASE i \in ended
      <4>1. said[i] = [is |-> "gone", id |-> ground[i].id, place |-> ground[i].place]
        BY <3>1, <3>3 DEF Gone
      <4>2. ground[i].id \in Ids /\ ground[i].place \in Floor
        BY <3>2 DEF Entity
      <4> QED BY <3>3, <4>1, <4>2 DEF Change
    <3>4. CASE i \notin ended
      <4>1. said[i] = [is |-> "settled", id |-> stepped[i].id, place |-> stepped[i].place]
        BY <3>1, <3>4 DEF Settled
      <4>2. stepped[i].id \in Ids /\ stepped[i].place \in Floor
        BY <3>2 DEF Aged
      <4> QED BY <3>4, <4>1, <4>2 DEF Change
    <3> QED BY <3>3, <3>4
  <2> HIDE DEF said, I
  <2>2. Cardinality(I) \in Nat /\ ((\A i \in I : said[i] \in Change)
                                     => Chosen(said, I) \in [1..Cardinality(I) -> Change])
    BY <1>3, <1>4, ChosenFacts DEF I
  <2>3. \A i \in I : i \in 1..n
    BY <1>4 DEF I
  <2>4. said1 \in Seq(Change)
    BY <2>1, <2>2, <2>3, SeqIsFunction DEF I
  <2>5. TakenFrom(said1, said, I)
    BY <1>3, <1>4, ChosenTaken DEF I
  <2> HIDE DEF said1
  <2>6. \A a \in DOMAIN said1 : said1[a].is # "spawned"
    BY <2>1, <2>3, <2>5 DEF TakenFrom
  <2>7. ASSUME NEW id PROVE SaysGone(said1, id) <=> \E i \in ended : ground[i].id = id
    <3>1. ended \subseteq I
      BY DEF I
    <3> QED BY <2>1, <2>3, <2>5, <3>1 DEF TakenFrom, SaysGone
  <2> QED BY <2>4, <2>6, <2>7
<1>14. Announced
  <2> DEFINE G == OnGround(ground)
             F == WillShow(G, said1)
             told == rest.told
  <2> HIDE DEF said1
  <2>1. ASSUME NEW id
        PROVE  id \in WillShow(F, told) <=> id \in OnGround(ground')
    <3>1. id \in F <=> id \in G /\ ~SaysGone(said1, id)
      BY <1>13, NoneSpawned
    <3>2. told \in Seq(Change) /\ \A a \in DOMAIN told : told[a].is # "spawned"
      BY <1>7
    <3> HIDE DEF F, G, told
    <3>3. id \in WillShow(F, told) <=> id \in F /\ ~SaysGone(told, id)
      BY <3>2, NoneSpawned
    <3>4. id \in G <=> \E i \in 1..n : ground[i].id = id
      BY <1>3 DEF OnGround, G
    <3>5. SaysGone(told, id) <=> \E i \in 1..n : left[i] = 0 /\ ground[i].id = id
      <4>1. \A i \in 1..n : stepped[i].id = ground[i].id
        BY <1>5 DEF SameStack
      <4> QED BY <1>7, <4>1 DEF told
    <3>6. id \in OnGround(ground') <=> \E i \in stay : ground[i].id = id
      <4>1. \A i \in stay : now[i].id = ground[i].id
        BY <1>4, <1>9
      <4> QED BY <1>12, <4>1 DEF IdsAt
    <3>7. \A i \in 1..n : left[i] = 0 <=> ~(left[i] > 0)
      BY <1>8
    <3>8. ASSUME id \in WillShow(F, told) PROVE id \in OnGround(ground')
      <4>1. PICK i \in 1..n : ground[i].id = id
        BY <3>1, <3>3, <3>4, <3>8
      <4>2. i \notin ended /\ left[i] > 0
        BY <1>13, <3>1, <3>3, <3>5, <3>7, <3>8, <4>1
      <4> QED BY <1>4, <3>6, <4>1, <4>2
    <3>9. ASSUME id \in OnGround(ground') PROVE id \in WillShow(F, told)
      <4>1. PICK i \in stay : ground[i].id = id
        BY <3>6, <3>9
      <4>2. i \in 1..n /\ i \notin ended /\ ~(left[i] = 0)
        BY <1>4, <3>7, <4>1
      <4>3. \A j \in 1..n : ground[j].id = id => j = i
        BY <1>3, <4>1, <4>2
      <4>4. ~SaysGone(said1, id)
        BY <1>4, <1>13, <4>2, <4>3
      <4>5. ~SaysGone(told, id)
        BY <3>5, <4>2, <4>3
      <4> QED BY <3>1, <3>3, <3>4, <4>1, <4>2, <4>4, <4>5
    <3> QED BY <3>8, <3>9
  <2>2. said1 \in Seq(Change) /\ told \in Seq(Change) /\ Announce(said1 \o told)
    BY <1>2, <1>7, <1>13
  <2>3. WillShow(F, told) = OnGround(ground')
    BY <2>1
  <2> HIDE DEF told
  <2>4. WillShow(G, said1 \o told) = OnGround(ground') /\ said1 \o told \in Seq(Change)
    BY <2>2, <2>3, ShownInTwo, ConcatProperties
  <2> QED BY <2>2, <2>4 DEF Announced
<1>15. ASSUME NEW k \in Kinds
       PROVE  /\ InList(ground', k) + InList(Chosen(ground, ended), k) = InList(ground, k)
              /\ InList(Chosen(ground, ended), k) \in Nat /\ InList(ground', k) \in Nat
  <2> DEFINE f == LeftOf(left, stepped, k)
             D == 1..n
             more == D \ ended
  <2> HIDE DEF said1
  <2>1. /\ f \in [D -> Nat] /\ Total(f) = InList(stepped, k)
        /\ \A i \in D : f[i] = IF ground[i].item = k THEN left[i] ELSE 0
    <3>1. \A i \in D : f[i] = IF ground[i].item = k THEN left[i] ELSE 0
      BY <1>5 DEF LeftOf, SameStack
    <3>2. f = [i \in D |-> f[i]]
      BY <1>5 DEF LeftOf
    <3>3. Total(f) = InList(stepped, k)
      BY <1>7
    <3> HIDE DEF f
    <3> QED BY <1>8, <3>1, <3>2, <3>3
  <2>2. InList(stepped, k) = InList(ground, k)
    <3>1. Of(stepped, k) = Of(ground, k)
      <4>1. \A i \in 1..n : Counts(stepped[i], k) = Counts(ground[i], k)
        BY <1>5 DEF Counts, SameStack
      <4> QED BY <1>3, <1>5, <4>1 DEF Of
    <3>2. InList(stepped, k) = Total(Of(stepped, k)) /\ InList(ground, k) = Total(Of(ground, k))
      BY DEF InList, Of, Counts
    <3> QED BY <3>1, <3>2
  <2>3. IsFiniteSet(D)
    <3>1. n \in Int /\ 1 \in Int
      BY <1>3
    <3> QED BY <3>1, FS_Interval
  <2> HIDE DEF f
  <2>4. InList(Chosen(ground, ended), k) = Total(Part(f, ended))
    <3>0. /\ ground \in Seq(Entity) /\ ended \in SUBSET DOMAIN ground
          /\ \A e \in Entity : e.count \in Nat
      BY <1>3, <1>4, EntityCounts
    <3>1. InList(Chosen(ground, ended), k) = Total(Part(Of(ground, k), ended))
      BY ONLY <3>0, InListChosen
    <3>2. \A i \in ended : Of(ground, k)[i] = f[i]
      <4>1. ASSUME NEW i \in ended PROVE Of(ground, k)[i] = f[i]
        <5>1. i \in 1..n /\ left[i] = ground[i].count
          BY <1>4, <1>5, <1>7 DEF SameStack
        <5>2. Of(ground, k)[i] = Counts(ground[i], k)
          BY <1>3, <5>1 DEF Of
        <5> QED BY <2>1, <5>1, <5>2 DEF Counts
      <4> QED BY <4>1
    <3>3. Part(Of(ground, k), ended) = Part(f, ended)
      BY <3>2 DEF Part
    <3> QED BY <3>1, <3>3
  <2>5. InList(ground', k) = Total(Part(f, stay))
    <3>0. /\ now \in Seq(Rest) /\ stay \in SUBSET DOMAIN now /\ \A e \in Rest : e.count \in Nat
      <4>1. now \in [1..n -> Rest]
        BY <1>9, <1>10 DEF now
      <4>2. \A e \in Rest : e.count \in Nat
        BY ItemsAssumption DEF Rest
      <4> QED BY <1>3, <1>4, <1>10, <4>1, <4>2, SeqIsFunction
    <3>1. InList(Chosen(now, stay), k) = Total(Part(Of(now, k), stay))
      BY ONLY <3>0, InListChosen
    <3>2. \A i \in stay : Of(now, k)[i] = f[i]
      <4>1. ASSUME NEW i \in stay PROVE Of(now, k)[i] = f[i]
        <5>1. i \in 1..n /\ now[i].item = ground[i].item /\ now[i].count = left[i]
          BY <1>4, <1>9
        <5>2. Of(now, k)[i] = Counts(now[i], k)
          BY <1>10, <5>1 DEF Of
        <5> QED BY <2>1, <5>1, <5>2 DEF Counts
      <4> QED BY <4>1
    <3>3. Part(Of(now, k), stay) = Part(f, stay)
      BY <3>2 DEF Part
    <3> QED BY <1>2, <3>1, <3>3
  <2>6. Total(f) = Total(Part(f, ended)) + Total(Part(f, more))
    <3>1. D = ended \cup more /\ ended \cap more = {}
      BY <1>4
    <3> HIDE DEF D, more
    <3> QED BY <2>1, <2>3, <3>1, TotalOfParts
  <2>7. Total(Part(f, more)) = Total(Part(f, stay))
    <3> DEFINE g == Part(f, more)
    <3>1. more = stay \cup merged /\ stay \cap merged = {}
      BY <1>4
    <3>2. g \in [more -> Nat] /\ IsFiniteSet(more)
      BY <2>1, <2>3, FS_Subset DEF Part
    <3>3. Part(g, stay) = Part(f, stay)
      BY <3>1 DEF Part
    <3>4. Part(g, merged) = [i \in merged |-> 0]
      <4>1. \A i \in merged : f[i] = 0
        <5>1. ASSUME NEW i \in merged PROVE f[i] = 0
          <6>1. i \in 1..n /\ left[i] = 0
            BY <1>4, <1>8
          <6> QED BY <2>1, <6>1
        <5> QED BY <5>1
      <4> QED BY <3>1, <4>1 DEF Part
    <3> HIDE DEF g, more
    <3>5. Total(g) = Total(Part(g, stay)) + Total(Part(g, merged))
      BY <3>1, <3>2, TotalOfParts
    <3>6. Total(Part(g, merged)) = 0
      BY <3>4, TotalOfZeros
    <3>7. Total(Part(g, stay)) \in Nat
      <4>1. Part(f, stay) \in [stay -> Nat] /\ IsFiniteSet(stay)
        BY <1>4, <2>1, <2>3, FS_Subset DEF Part
      <4> QED BY <3>3, <4>1, TotalTyped
    <3> QED BY <3>3, <3>5, <3>6, <3>7 DEF g
  <2>8. Total(Part(f, ended)) \in Nat /\ Total(Part(f, stay)) \in Nat
    <3>1. Part(f, ended) \in [ended -> Nat] /\ IsFiniteSet(ended)
          /\ Part(f, stay) \in [stay -> Nat] /\ IsFiniteSet(stay)
      BY <1>4, <2>1, <2>3, FS_Subset DEF Part
    <3> QED BY <3>1, TotalTyped
  <2> QED BY <2>1, <2>2, <2>4, <2>5, <2>6, <2>7, <2>8
<1>16. lost' \in [Kinds -> Nat]
  BY <1>2, <1>15
<1>17. ASSUME NEW k \in Kinds
       PROVE  InList(ground', k) + lost'[k] = InList(ground, k) + lost[k]
  <2> DEFINE e == InList(Chosen(ground, ended), k)
             a == InList(ground', k)
  <2>1. /\ a + e = InList(ground, k) /\ e \in Nat /\ a \in Nat
        /\ lost'[k] = lost[k] + e /\ lost[k] \in Nat
    BY <1>2, <1>15
  <2> HIDE DEF e, a
  <2>2. a + lost'[k] = InList(ground, k) + lost[k]
    BY <2>1
  <2> QED BY <2>2 DEF a
<1> QED BY <1>12, <1>14, <1>16, <1>17

-----------------------------------------------------------------------------
(***************************************************************************)
(* Inventories.                                                            *)
(***************************************************************************)
LEMMA DivFacts ==
  ASSUME NEW a \in Nat, NEW b \in Nat \ {0}
  PROVE  /\ a \div b \in Nat
         /\ (a \div b) * b <= a /\ a < (a \div b) * b + b
OBVIOUS

LEMMA FewerTimes ==
  ASSUME NEW r \in Nat, NEW q \in Nat, NEW b \in Nat \ {0}, r * b < q * b + b
  PROVE  r <= q
<1>1. ASSUME r > q PROVE FALSE
  <2>1. PICK d \in Nat : r = q + 1 + d
    <3>1. r - q - 1 \in Nat /\ r = q + 1 + (r - q - 1)
      BY <1>1
    <3> QED BY <3>1
  <2>2. r * b = q * b + b + d * b /\ d * b \in Nat /\ q * b \in Nat
    BY <2>1
  <2> QED BY <2>2
<1> QED BY <1>1

\* What a number of slots holds, and what fits into it.
LEMMA SlotsFacts ==
  ASSUME NEW n \in Nat
  PROVE  /\ SlotsOf(n) \in Nat /\ SlotsOf(n) * MaxStack \in Nat /\ n <= SlotsOf(n) * MaxStack
         /\ \A m \in Nat : \A d \in {0, 1} :
              m <= SlotsOf(n) * MaxStack + d * MaxStack => SlotsOf(m) <= SlotsOf(n) + d
<1>1. MaxStack \in Nat \ {0}
  BY ItemsAssumption
<1>2. ASSUME NEW m \in Nat
      PROVE  /\ SlotsOf(m) \in Nat /\ SlotsOf(m) * MaxStack \in Nat
             /\ SlotsOf(m) * MaxStack <= m + MaxStack - 1
             /\ m + MaxStack - 1 < SlotsOf(m) * MaxStack + MaxStack
  <2> DEFINE a == m + MaxStack - 1
             q == SlotsOf(m)
  <2>1. a \in Nat /\ q = a \div MaxStack
    BY <1>1 DEF SlotsOf
  <2> HIDE DEF a, q
  <2>2. q \in Nat /\ q * MaxStack <= a /\ a < q * MaxStack + MaxStack
    BY <1>1, <2>1, DivFacts
  <2>3. q * MaxStack \in Nat
    BY <1>1, <2>2
  <2> QED BY <2>2, <2>3 DEF a, q
<1> DEFINE q == SlotsOf(n)
           x == q * MaxStack
<1>3. q \in Nat /\ x \in Nat /\ n <= x
  <2>1. q \in Nat /\ x \in Nat /\ n + MaxStack - 1 < x + MaxStack
    BY <1>2
  <2> HIDE DEF q, x
  <2> QED BY <1>1, <2>1
<1>4. ASSUME NEW m \in Nat, NEW d \in {0, 1}, m <= x + d * MaxStack
      PROVE  SlotsOf(m) <= q + d
  <2> DEFINE r == SlotsOf(m)
             y == r * MaxStack
  <2>1. r \in Nat /\ y \in Nat /\ y <= m + MaxStack - 1
    BY <1>2
  <2>2. q + d \in Nat /\ (q + d) * MaxStack = x + d * MaxStack /\ d * MaxStack \in Nat
    <3>1. d = 0 \/ d = 1
      OBVIOUS
    <3> HIDE DEF q
    <3> QED BY <1>1, <1>3, <3>1
  <2>3. y < x + d * MaxStack + MaxStack
    <3> DEFINE z == d * MaxStack
    <3>1. z \in Nat /\ m <= x + z
      BY <1>4, <2>2
    <3> HIDE DEF z, x, y
    <3>2. y < x + z + MaxStack
      BY <1>1, <1>3, <2>1, <3>1
    <3> QED BY <3>2 DEF z
  <2>4. r * MaxStack < (q + d) * MaxStack + MaxStack
    BY <2>2, <2>3
  <2> DEFINE e == q + d
  <2>5. e \in Nat /\ r * MaxStack < e * MaxStack + MaxStack
    BY <2>2, <2>4
  <2> HIDE DEF r, e
  <2>6. r <= e
    BY <1>1, <2>1, <2>5, FewerTimes
  <2> QED BY <2>6 DEF r, e
<1> QED BY <1>3, <1>4

PocketsOK == pocket \in [Sessions -> [Kinds -> Nat]] /\ \A s \in Sessions : Used(s) <= Slots

LEMMA RoomFacts ==
  ASSUME PocketsOK, NEW s \in Sessions, NEW kind \in Kinds
  PROVE  Room(s, kind) \in Nat
<1> DEFINE n == pocket[s][kind]
           x == SlotsOf(n) * MaxStack
<1>1. n \in Nat /\ MaxStack \in Nat
  BY ItemsAssumption DEF PocketsOK
<1>2. x \in Nat /\ n <= x
  <2> HIDE DEF n
  <2> QED BY <1>1, SlotsFacts
<1>3. Room(s, kind) = x - n + (IF Used(s) < Slots THEN MaxStack ELSE 0)
  BY DEF Room
<1> HIDE DEF x, n
<1> QED BY <1>1, <1>2, <1>3

\* What there is room for takes up no more slots than there are.
LEMMA CollectOK ==
  ASSUME PocketsOK, NEW s \in Sessions, NEW kind \in Kinds, NEW more \in Nat,
         more <= Room(s, kind), pocket' = [pocket EXCEPT ![s][kind] = @ + more]
  PROVE  /\ PocketsOK' /\ pocket'[s][kind] = pocket[s][kind] + more
         /\ \A k \in Kinds \ {kind} : pocket'[s][k] = pocket[s][k]
         /\ \A t \in Sessions \ {s} : pocket'[t] = pocket[t]
<1> DEFINE mine == pocket[s]
           new == [mine EXCEPT ![kind] = mine[kind] + more]
<1>1. mine \in [Kinds -> Nat] /\ pocket' = [pocket EXCEPT ![s] = new]
  BY DEF PocketsOK
<1>2. new \in [Kinds -> Nat] /\ new[kind] = mine[kind] + more
      /\ \A k \in Kinds \ {kind} : new[k] = mine[k]
  BY <1>1
<1>3. pocket \in [Sessions -> [Kinds -> Nat]]
  BY DEF PocketsOK
<1> HIDE DEF mine, new
<1>4. /\ pocket' \in [Sessions -> [Kinds -> Nat]] /\ pocket'[s] = new
      /\ \A t \in Sessions \ {s} : pocket'[t] = pocket[t]
  BY <1>1, <1>2, <1>3
<1>5. ASSUME NEW t \in Sessions \ {s} PROVE Used(t)' <= Slots
  <2>1. Used(t)' = Used(t)
    BY <1>4, <1>5 DEF Used
  <2> QED BY <1>5, <2>1 DEF PocketsOK
<1>6. Used(s)' <= Slots
  <2> DEFINE f == [k \in Kinds |-> SlotsOf(mine[k])]
             g == [k \in Kinds |-> SlotsOf(new[k])]
             d == IF Used(s) < Slots THEN 1 ELSE 0
             x == SlotsOf(mine[kind]) * MaxStack
  <2>1. f \in [Kinds -> Nat] /\ g \in [Kinds -> Nat] /\ \A k \in Kinds \ {kind} : g[k] = f[k]
    <3>1. \A k \in Kinds : SlotsOf(mine[k]) \in Nat /\ SlotsOf(new[k]) \in Nat
      BY <1>1, <1>2, SlotsFacts
    <3>2. \A k \in Kinds \ {kind} : SlotsOf(new[k]) = SlotsOf(mine[k])
      BY <1>2
    <3> QED BY <3>1, <3>2
  <2>2. f[kind] = SlotsOf(mine[kind]) /\ g[kind] = SlotsOf(new[kind])
    OBVIOUS
  <2>3. Used(s) = Total(f) /\ Used(s)' = Total(g) /\ Used(s) <= Slots /\ Slots \in Nat
    BY <1>4, ItemsAssumption DEF Used, mine, PocketsOK
  <2>4. IsFiniteSet(Kinds) /\ MaxStack \in Nat
    BY ItemsAssumption
  <2> HIDE DEF f, g
  <2>5. Total(g) = Total(f) - f[kind] + g[kind] /\ Total(f) \in Nat /\ Total(g) \in Nat
    BY <2>1, <2>4, TotalChanges
  <2>6. g[kind] <= f[kind] + d
    <3>1. mine[kind] \in Nat /\ new[kind] \in Nat /\ new[kind] = mine[kind] + more
      BY <1>1, <1>2
    <3>2. x \in Nat
      <4> HIDE DEF mine
      <4> QED BY <3>1, SlotsFacts
    <3>3. more <= x - mine[kind] + (IF Used(s) < Slots THEN MaxStack ELSE 0)
      BY DEF Room, mine
    <3>4. d \in {0, 1} /\ d * MaxStack = IF Used(s) < Slots THEN MaxStack ELSE 0
      BY <2>4
    <3> HIDE DEF x, d
    <3>5. new[kind] <= x + d * MaxStack
      <4> DEFINE z == d * MaxStack
                 m == mine[kind]
      <4>1. z \in Nat /\ more <= x - m + z /\ m \in Nat
        BY <2>4, <3>1, <3>3, <3>4
      <4>2. new[kind] = m + more
        BY <3>1
      <4> HIDE DEF z, m
      <4>3. new[kind] <= x + z
        BY <3>2, <4>1, <4>2
      <4> QED BY <4>3 DEF z
    <3>6. SlotsOf(new[kind]) <= SlotsOf(mine[kind]) + d
      BY <3>1, <3>4, <3>5, SlotsFacts DEF x
    <3> QED BY <2>2, <3>6
  <2>7. f[kind] \in Nat /\ g[kind] \in Nat /\ (d = 1 => Used(s) < Slots) /\ d \in {0, 1}
    BY <2>1
  <2> HIDE DEF d
  <2> QED BY <2>3, <2>5, <2>6, <2>7
<1>7. PocketsOK'
  BY <1>4, <1>5, <1>6 DEF PocketsOK
<1> QED BY <1>2, <1>4, <1>7 DEF mine

-----------------------------------------------------------------------------
(***************************************************************************)
(* The invariant.  To the four properties it adds that what waits for a    *)
(* client says last of each item what is so (a join reads the list after   *)
(* it subscribed, and may be told what it has already seen), that a        *)
(* session's hand is empty unless it plays, where an item can lie, and     *)
(* that one which held every column holds every column now.                *)
(***************************************************************************)
TickerOK == ticker \in [at : {"idle", "claim", "tick"}, players : SUBSET Places,
                        claim : SUBSET Places]

TalliesOK == made \in [Kinds -> Nat] /\ lost \in [Kinds -> Nat]

TypesOK ==
  /\ GroundOK(ground) /\ session \in [Sessions -> Session]
  /\ ChannelOK /\ PocketsOK /\ TickerOK /\ TalliesOK

LEMMA TypesAre == ItemsTypeOK <=> TypesOK
BY DEF ItemsTypeOK, TypesOK, GroundOK, Distinct, ChannelOK, PocketsOK, TickerOK, TalliesOK

HandsOK ==
  \A s \in Sessions : session[s].hand # <<>> => session[s].at = "in" /\ session[s].place \in Floor

ClientsOK == \A s \in Sessions : ClientOK(s)

ItemsInv == TypesOK /\ HandsOK /\ ClientsOK /\ EveryItemIsSomewhere /\ FallingIsClaimed

LEMMA OutFacts == Out \in Session /\ Out.at = "out" /\ Out.hand = <<>> /\ Out.whole = FALSE
                    /\ Out.shown = {}
<1>1. \E p \in Places : TRUE
  BY ItemsAssumption
<1>2. (CHOOSE p \in Places : TRUE) \in Places
  BY <1>1
<1>3. <<>> \in Seq([item : Kinds, count : 1..MaxStack])
  OBVIOUS
<1> QED BY <1>2, <1>3 DEF Out, Session

Held(k) == [s \in Sessions |-> pocket[s][k] + InList(session[s].hand, k)]

LEMMA WorldIs ==
  ASSUME NEW k
  PROVE  InWorld(k) = InList(ground, k) + Total(Held(k))
BY DEF InWorld, Held

LEMMA HandCounts ==
  ASSUME NEW hand \in Seq(HandItem), NEW k
  PROVE  /\ InList(hand, k) \in Nat
         /\ hand # <<>> => /\ Head(hand) \in HandItem /\ Tail(hand) \in Seq(HandItem)
                           /\ InList(hand, k) = InList(Tail(hand), k) + Counts(Head(hand), k)
                           /\ InList(Tail(hand), k) \in Nat
<1>1. \A e \in HandItem : e.count \in Nat
  BY ItemsAssumption DEF HandItem
<1>2. InList(hand, k) \in Nat
  BY <1>1, InListTyped
<1>3. ASSUME hand # <<>>
      PROVE  /\ Head(hand) \in HandItem /\ Tail(hand) \in Seq(HandItem)
             /\ InList(hand, k) = InList(Tail(hand), k) + Counts(Head(hand), k)
             /\ InList(Tail(hand), k) \in Nat
  <2>1. Head(hand) \in HandItem /\ Tail(hand) \in Seq(HandItem)
    BY <1>3, HeadTailProperties
  <2>2. InList(hand, k) = InList(Tail(hand), k) + Counts(Head(hand), k)
    BY <1>1, <1>3, InListTail
  <2>3. InList(Tail(hand), k) \in Nat
    BY <1>1, <2>1, InListTyped
  <2> QED BY <2>1, <2>2, <2>3
<1> QED BY <1>2, <1>3

LEMMA HeldTyped ==
  ASSUME session \in [Sessions -> Session], pocket \in [Sessions -> [Kinds -> Nat]],
         NEW k \in Kinds
  PROVE  /\ IsFiniteSet(Sessions) /\ Held(k) \in [Sessions -> Nat] /\ Total(Held(k)) \in Nat
         /\ \A s \in Sessions : session[s].hand \in Seq(HandItem)
<1>1. \A s \in Sessions : session[s].hand \in Seq(HandItem)
  BY DEF Session, HandItem
<1>2. ASSUME NEW s \in Sessions PROVE pocket[s][k] + InList(session[s].hand, k) \in Nat
  <2>1. pocket[s][k] \in Nat /\ InList(session[s].hand, k) \in Nat
    BY <1>1, HandCounts
  <2> QED BY <2>1
<1>3. Held(k) \in [Sessions -> Nat]
  BY <1>2 DEF Held
<1>4. IsFiniteSet(Sessions)
  BY ItemsAssumption
<1> QED BY <1>1, <1>3, <1>4, TotalTyped

\* What one session does changes what it holds, and what no other does.
OthersHold(s, k) == \A t \in Sessions \ {s} : Held(k)'[t] = Held(k)[t]

LEMMA HeldChanges ==
  ASSUME session \in [Sessions -> Session], pocket \in [Sessions -> [Kinds -> Nat]],
         (session \in [Sessions -> Session])', (pocket \in [Sessions -> [Kinds -> Nat]])',
         NEW s \in Sessions, NEW k \in Kinds, OthersHold(s, k)
  PROVE  /\ Total(Held(k)') = Total(Held(k)) - Held(k)[s] + Held(k)'[s]
         /\ Total(Held(k)') \in Nat /\ Total(Held(k)) \in Nat
         /\ Held(k)[s] \in Nat /\ Held(k)'[s] \in Nat
<1> DEFINE f == Held(k)
           g == Held(k)'
<1>1. f \in [Sessions -> Nat] /\ IsFiniteSet(Sessions)
  BY HeldTyped
<1>2. g \in [Sessions -> Nat]
  <2>1. \A t \in Sessions : session'[t].hand \in Seq(HandItem)
    BY DEF Session, HandItem
  <2>2. ASSUME NEW t \in Sessions PROVE pocket'[t][k] + InList(session'[t].hand, k) \in Nat
    <3>1. pocket'[t][k] \in Nat /\ InList(session'[t].hand, k) \in Nat
      BY <2>1, HandCounts
    <3> QED BY <3>1
  <2> QED BY <2>2 DEF Held
<1>3. \A t \in Sessions \ {s} : g[t] = f[t]
  BY DEF OthersHold
<1> HIDE DEF f, g
<1>4. Total(g) = Total(f) - f[s] + g[s] /\ Total(f) \in Nat /\ Total(g) \in Nat
  BY <1>1, <1>2, <1>3, TotalChanges
<1>5. f[s] \in Nat /\ g[s] \in Nat
  BY <1>1, <1>2
<1> QED BY <1>4, <1>5 DEF f, g

LEMMA InitInv == ItemsInit => ItemsInv
<1> SUFFICES ASSUME ItemsInit PROVE ItemsInv
  OBVIOUS
<1>0. IsFiniteSet(Kinds) /\ IsFiniteSet(Sessions) /\ MaxEntities \in Nat /\ Backlog \in Nat
      /\ Slots \in Nat /\ MaxStack \in Nat \ {0}
  BY ItemsAssumption
<1>1. GroundOK(ground) /\ OnGround(ground) = {} /\ ground = <<>>
  <2>1. ground = <<>> /\ DOMAIN ground = {} /\ ground \in Seq(Entity) /\ Len(ground) = 0
    BY DEF ItemsInit
  <2> QED BY <1>0, <2>1 DEF GroundOK, Distinct, OnGround
<1>2. session \in [Sessions -> Session] /\ \A s \in Sessions : session[s] = Out
  BY OutFacts DEF ItemsInit
<1>3. ChannelOK /\ \A s \in Sessions : inbox[s] = <<>>
  <2>1. <<>> \in Seq(Change) /\ Len(<<>>) = 0
    OBVIOUS
  <2> QED BY <1>0, <2>1 DEF ItemsInit, ChannelOK
<1>4. PocketsOK
  <2>1. SlotsOf(0) = 0
    <3>1. SlotsOf(0) \in Nat /\ SlotsOf(0) * MaxStack <= MaxStack - 1
      <4>1. SlotsOf(0) = (MaxStack - 1) \div MaxStack
        BY <1>0 DEF SlotsOf
      <4>2. MaxStack - 1 \in Nat
        BY <1>0
      <4> QED BY <1>0, <4>1, <4>2, DivFacts
    <3>2. 0 * MaxStack + MaxStack = MaxStack
      BY <1>0
    <3>3. SlotsOf(0) * MaxStack < 0 * MaxStack + MaxStack
      <4> DEFINE y == SlotsOf(0) * MaxStack
      <4>1. y \in Nat /\ y <= MaxStack - 1
        BY <1>0, <3>1
      <4> HIDE DEF y
      <4>2. y < MaxStack
        BY <1>0, <4>1
      <4> QED BY <3>2, <4>2 DEF y
    <3>4. SlotsOf(0) <= 0
      BY <1>0, <3>1, <3>3, FewerTimes
    <3> QED BY <3>1, <3>4
  <2>2. pocket = [s \in Sessions |-> [k \in Kinds |-> 0]]
    BY DEF ItemsInit
  <2>3. ASSUME NEW s \in Sessions PROVE Used(s) = 0
    <3>1. [k \in Kinds |-> SlotsOf(pocket[s][k])] = [k \in Kinds |-> 0]
      BY <2>1, <2>2
    <3> QED BY <3>1, TotalOfZeros DEF Used
  <2> QED BY <1>0, <2>2, <2>3 DEF PocketsOK
<1>5. TickerOK /\ ticker.at = "idle"
  BY DEF ItemsInit, TickerOK, Resting
<1>6. TalliesOK /\ \A k \in Kinds : made[k] = 0 /\ lost[k] = 0
  BY DEF ItemsInit, TalliesOK
<1>7. HandsOK
  BY <1>2, OutFacts DEF HandsOK
<1>8. ClientsOK
  <2> SUFFICES ASSUME NEW s \in Sessions PROVE ClientOK(s)
    BY DEF ClientsOK
  <2>1. session[s].at = "out" /\ session[s].whole = FALSE
    BY <1>2, OutFacts
  <2> QED BY <1>3, <2>1, NoneIsHonest DEF ClientOK
<1>9. EveryItemIsSomewhere
  <2> SUFFICES ASSUME NEW k \in Kinds PROVE made[k] = InWorld(k) + lost[k]
    BY DEF EveryItemIsSomewhere
  <2>1. InList(ground, k) = 0 /\ InList(<<>>, k) = 0
    BY <1>1, InListOfNone
  <2>2. \A s \in Sessions : pocket[s][k] + InList(session[s].hand, k) = 0
    BY <1>2, <2>1, OutFacts DEF ItemsInit
  <2>3. Held(k) = [s \in Sessions |-> 0]
    BY <2>2 DEF Held
  <2>4. Total(Held(k)) = 0
    BY <2>3, TotalOfZeros
  <2> QED BY <1>6, <2>1, <2>4, WorldIs
<1>10. FallingIsClaimed
  BY <1>5 DEF FallingIsClaimed
<1> QED BY <1>1, <1>2, <1>3, <1>4, <1>5, <1>6, <1>7, <1>8, <1>9, <1>10 DEF ItemsInv, TypesOK

-----------------------------------------------------------------------------
(***************************************************************************)
(* Each step keeps the invariant.                                          *)
(***************************************************************************)
LEMMA FallingKeeps ==
  ASSUME FallingIsClaimed, OldOrNew, GroundOK(ground'), ticker' = ticker
  PROVE  FallingIsClaimed'
<1> SUFFICES ASSUME ticker.at = "tick", NEW i \in DOMAIN ground',
                    ~ground'[i].settled, NearAny(ground'[i], ticker.players), ground'[i].age > 0
             PROVE  ground'[i].to \in ticker.claim
  BY DEF FallingIsClaimed, NearAny
<1>1. ground'[i].age # 0
  OBVIOUS
<1>2. PICK j \in DOMAIN ground : ground'[i] = ground[j]
  BY <1>1 DEF OldOrNew
<1> QED BY <1>2 DEF FallingIsClaimed

LEMMA SameGround ==
  ASSUME ground' = ground
  PROVE  OldOrNew
BY DEF OldOrNew

\* A session that nothing happens to, while nothing happens to the list.
LEMMA ClientSame ==
  ASSUME NEW s, ClientOK(s), ground' = ground, session'[s] = session[s],
         inbox'[s] = inbox[s], lagged'[s] = lagged[s]
  PROVE  ClientOK(s)'
BY DEF ClientOK

\* A step in which nothing comes, goes or changes hands.
LEMMA CountSame ==
  ASSUME EveryItemIsSomewhere, session' \in [Sessions -> Session], ground' = ground,
         \A s \in Sessions : session'[s].hand = session[s].hand,
         pocket' = pocket, made' = made, lost' = lost
  PROVE  EveryItemIsSomewhere'
<1> SUFFICES ASSUME NEW k \in Kinds PROVE made'[k] = InWorld(k)' + lost'[k]
  BY DEF EveryItemIsSomewhere
<1>1. Held(k)' = Held(k)
  BY DEF Held
<1>2. InWorld(k)' = InList(ground', k) + Total(Held(k)')
  BY DEF InWorld, Held
<1>3. InWorld(k)' = InWorld(k)
  BY <1>1, <1>2, WorldIs
<1> QED BY <1>3 DEF EveryItemIsSomewhere

LEMMA WorldIsNext ==
  ASSUME NEW k
  PROVE  InWorld(k)' = InList(ground', k) + Total(Held(k)')
BY DEF InWorld, Held

LEMMA DropKeeps ==
  ASSUME ItemsInv, NEW kind \in Kinds, NEW n \in Rolls, NEW p \in Cells, Drop(kind, n, p)
  PROVE  ItemsInv'
<1>1. /\ Pop(kind, n, p) /\ made' = [made EXCEPT ![kind] = @ + n]
      /\ session' = session /\ pocket' = pocket /\ ticker' = ticker
  BY DEF Drop
<1>2. n \in 1..MaxStack /\ p \in Floor
  BY ItemsAssumption
<1>3. GroundOK(ground) /\ TalliesOK /\ ChannelOK
  BY DEF ItemsInv, TypesOK
<1>4. /\ GroundOK(ground') /\ Announced /\ OldOrNew /\ lost' \in [Kinds -> Nat]
      /\ \A k \in Kinds : InList(ground', k) + lost'[k]
           = InList(ground, k) + lost[k] + (IF kind = k THEN n ELSE 0)
  BY <1>1, <1>2, <1>3, PopDoes DEF TalliesOK
<1>5. TypesOK'
  <2>1. ChannelOK'
    BY <1>3, <1>4, AnnounceFacts DEF Announced
  <2>2. TalliesOK'
    BY <1>1, <1>2, <1>3, <1>4 DEF TalliesOK
  <2>3. PocketsOK' /\ TickerOK' /\ session' \in [Sessions -> Session]
    BY <1>1 DEF ItemsInv, TypesOK, PocketsOK, TickerOK, Used
  <2> QED BY <1>4, <2>1, <2>2, <2>3 DEF TypesOK
<1>6. HandsOK'
  BY <1>1 DEF ItemsInv, HandsOK
<1>7. ClientsOK'
  <2> SUFFICES ASSUME NEW s \in Sessions PROVE ClientOK(s)'
    BY DEF ClientsOK
  <2>1. ClientOK(s) /\ SameView(s)
    BY <1>1 DEF ItemsInv, ClientsOK, SameView
  <2> QED BY <1>3, <1>4, <2>1, AnnouncedKeeps
<1>8. EveryItemIsSomewhere'
  <2> SUFFICES ASSUME NEW k \in Kinds PROVE made'[k] = InWorld(k)' + lost'[k]
    BY DEF EveryItemIsSomewhere
  <2>1. Held(k)' = Held(k)
    BY <1>1 DEF Held
  <2>2. made[k] = InList(ground, k) + Total(Held(k)) + lost[k]
    BY WorldIs DEF ItemsInv, EveryItemIsSomewhere
  <2>3. made'[k] = made[k] + (IF kind = k THEN n ELSE 0)
    BY <1>1, <1>2, <1>3 DEF TalliesOK
  <2>4. InList(ground, k) \in Nat /\ InList(ground', k) \in Nat
    BY <1>3, <1>4, EntityCounts, InListTyped DEF GroundOK
  <2>5. Total(Held(k)) \in Nat
    BY HeldTyped DEF ItemsInv, TypesOK, PocketsOK
  <2> DEFINE a == InList(ground, k)
             b == InList(ground', k)
             h == Total(Held(k))
             x == IF kind = k THEN n ELSE 0
  <2>6. /\ a \in Nat /\ b \in Nat /\ h \in Nat /\ x \in Nat
        /\ made[k] \in Nat /\ made'[k] = made[k] + x /\ lost[k] \in Nat /\ lost'[k] \in Nat
        /\ b + lost'[k] = a + lost[k] + x /\ made[k] = a + h + lost[k]
    BY <1>2, <1>3, <1>4, <2>2, <2>3, <2>4, <2>5 DEF TalliesOK
  <2>7. InWorld(k)' = b + h
    BY <2>1, WorldIsNext
  <2> HIDE DEF a, b, h, x
  <2> QED BY <2>6, <2>7
<1>9. FallingIsClaimed'
  BY <1>1, <1>4, FallingKeeps DEF ItemsInv
<1> QED BY <1>5, <1>6, <1>7, <1>8, <1>9 DEF ItemsInv

\* A session with nothing in its hand sees something, or goes somewhere.
LEMMA SightKeeps ==
  ASSUME ItemsInv, NEW s \in Sessions, NEW new \in Session,
         session' = [session EXCEPT ![s] = new],
         session[s].hand = <<>>, new.hand = <<>>, ClientOK(s)', ChannelOK',
         \A t \in Sessions \ {s} : inbox'[t] = inbox[t] /\ lagged'[t] = lagged[t],
         ground' = ground, pocket' = pocket, ticker' = ticker, made' = made, lost' = lost
  PROVE  ItemsInv'
<1>1. /\ session' \in [Sessions -> Session] /\ session'[s] = new
      /\ \A t \in Sessions \ {s} : session'[t] = session[t]
  BY DEF ItemsInv, TypesOK
<1>2. TypesOK'
  BY <1>1 DEF ItemsInv, TypesOK, PocketsOK, TickerOK, TalliesOK, Used, GroundOK, Distinct
<1>3. HandsOK'
  BY <1>1 DEF ItemsInv, HandsOK
<1>4. ClientsOK'
  <2> SUFFICES ASSUME NEW t \in Sessions PROVE ClientOK(t)'
    BY DEF ClientsOK
  <2>1. CASE t = s
    BY <2>1
  <2>2. CASE t # s
    BY <1>1, <2>2, ClientSame DEF ItemsInv, ClientsOK
  <2> QED BY <2>1, <2>2
<1>5. EveryItemIsSomewhere'
  <2>1. \A t \in Sessions : session'[t].hand = session[t].hand
    BY <1>1
  <2> QED BY <1>1, <2>1, CountSame DEF ItemsInv
<1>6. FallingIsClaimed'
  BY <1>2, SameGround, FallingKeeps DEF ItemsInv, TypesOK
<1> QED BY <1>2, <1>3, <1>4, <1>5, <1>6 DEF ItemsInv

LEMMA JoinKeeps ==
  ASSUME ItemsInv, NEW s \in Sessions, Join(s)
  PROVE  ItemsInv'
<1>1. PICK p \in Places :
        session' = [session EXCEPT ![s] = [Out EXCEPT !.at = "enter", !.place = p, !.whole = Covers(p)]]
  BY DEF Join
<1> DEFINE new == [Out EXCEPT !.at = "enter", !.place = p, !.whole = Covers(p)]
<1>2. new \in Session /\ new.hand = <<>> /\ new.at = "enter" /\ new.place = p /\ new.whole = Covers(p)
  <2>1. Covers(p) \in BOOLEAN
    BY DEF Covers
  <2> QED BY <2>1, OutFacts DEF Session
<1> HIDE DEF new
<1>3. session[s].at = "out" /\ session[s].hand = <<>> /\ inbox[s] = <<>>
  BY DEF Join, ItemsInv, HandsOK, ClientsOK, ClientOK
<1>4. /\ ground' = ground /\ inbox' = inbox /\ lagged' = lagged /\ pocket' = pocket
      /\ ticker' = ticker /\ made' = made /\ lost' = lost
  BY DEF Join
<1>5. session' = [session EXCEPT ![s] = new] /\ session'[s] = new
  BY <1>1 DEF new, ItemsInv, TypesOK
<1>6. ClientOK(s)'
  <2>1. Honest(inbox'[s], OnGround(ground'))
    BY <1>3, <1>4, NoneIsHonest
  <2> QED BY <1>2, <1>3, <1>4, <1>5, <2>1 DEF ClientOK
<1>7. ChannelOK'
  BY <1>4 DEF ItemsInv, TypesOK, ChannelOK
<1> QED BY <1>2, <1>3, <1>4, <1>5, <1>6, <1>7, SightKeeps

LEMMA EnterKeeps ==
  ASSUME ItemsInv, NEW s \in Sessions, Enter(s)
  PROVE  ItemsInv'
<1> DEFINE seen == {i \in DOMAIN ground : ground[i].place \in Square(session[s].place)}
           ids == {ground[i].id : i \in seen}
           new == [session[s] EXCEPT !.at = "in", !.shown = ids]
<1>1. session[s] \in Session /\ session[s].at = "enter" /\ session[s].hand = <<>>
  BY DEF Enter, ItemsInv, TypesOK, HandsOK
<1>2. \A i \in DOMAIN ground : ground[i].place \in Floor /\ ground[i].id \in Ids
  <2>1. \A i \in DOMAIN ground : ground[i] \in Entity
    BY ElementOfSeq, LenProperties DEF ItemsInv, TypesOK, GroundOK
  <2> QED BY <2>1, EntityCounts
<1>3. ids \subseteq Ids /\ (session[s].whole => ids = OnGround(ground))
  <2>1. session[s].whole => Floor \subseteq Square(session[s].place)
    BY DEF ItemsInv, ClientsOK, ClientOK, Covers
  <2> QED BY <1>2, <2>1 DEF OnGround
<1>4. session' = [session EXCEPT ![s] = new]
  BY <1>1 DEF Enter
<1> HIDE DEF ids
<1>5. /\ new \in Session /\ new.hand = <<>> /\ new.at = "in" /\ new.shown = ids
      /\ new.whole = session[s].whole /\ new.place = session[s].place
  BY <1>1, <1>3 DEF Session
<1> HIDE DEF new
<1>6. /\ ground' = ground /\ inbox' = inbox /\ lagged' = lagged /\ pocket' = pocket
      /\ ticker' = ticker /\ made' = made /\ lost' = lost
  BY DEF Enter
<1>7. session'[s] = new
  BY <1>4 DEF ItemsInv, TypesOK
<1>8. ClientOK(s)'
  <2>1. ASSUME new.whole, lagged[s] = "no"
        PROVE  WillShow(ids, inbox[s]) = OnGround(ground)
    <3>1. Honest(inbox[s], OnGround(ground)) /\ inbox[s] \in Seq(Change)
      BY <2>1 DEF ItemsInv, TypesOK, ChannelOK, ClientsOK, ClientOK
    <3>2. ids = OnGround(ground)
      BY <1>3, <1>5, <2>1
    <3>3. ASSUME NEW id PROVE id \in WillShow(ids, inbox[s]) <=> id \in OnGround(ground)
      <4>1. id \in WillShow(ids, inbox[s])
              <=> LastSpawned(inbox[s], id) \/ (id \in ids /\ ~SaysGone(inbox[s], id))
        BY <3>1, WhatItShows
      <4> QED BY <3>1, <3>2, <4>1 DEF Honest
    <3> QED BY <3>3
  <2>2. ClientOK(s)
    BY DEF ItemsInv, ClientsOK
  <2> QED BY <1>5, <1>6, <1>7, <2>1, <2>2 DEF ClientOK
<1>9. ChannelOK'
  BY <1>6 DEF ItemsInv, TypesOK, ChannelOK
<1> QED BY <1>1, <1>4, <1>5, <1>6, <1>8, <1>9, SightKeeps

LEMMA WalkKeeps ==
  ASSUME ItemsInv, NEW s \in Sessions, Walk(s)
  PROVE  ItemsInv'
<1>1. PICK p \in Places :
        session' = [session EXCEPT ![s].place = p, ![s].whole = @ /\ Covers(p)]
  BY DEF Walk
<1> DEFINE w == session[s].whole /\ Covers(p)
           new == [session[s] EXCEPT !.place = p, !.whole = w]
<1>2. session[s] \in Session /\ session[s].at = "in" /\ session[s].hand = <<>>
  BY DEF Walk, Idle, ItemsInv, TypesOK
<1>3. w \in BOOLEAN /\ (w => Covers(p)) /\ (w => session[s].whole)
  BY <1>2 DEF Session, Covers
<1>4. session' = [session EXCEPT ![s] = new]
  BY <1>1, <1>2 DEF ItemsInv, TypesOK
<1> HIDE DEF w
<1>5. /\ new \in Session /\ new.hand = <<>> /\ new.at = "in" /\ new.shown = session[s].shown
      /\ new.whole = w /\ new.place = p
  BY <1>2, <1>3 DEF Session
<1> HIDE DEF new
<1>6. /\ ground' = ground /\ inbox' = inbox /\ lagged' = lagged /\ pocket' = pocket
      /\ ticker' = ticker /\ made' = made /\ lost' = lost
  BY DEF Walk
<1>7. session'[s] = new
  BY <1>4 DEF ItemsInv, TypesOK
<1>8. ClientOK(s)'
  <2>1. ClientOK(s)
    BY DEF ItemsInv, ClientsOK
  <2> QED BY <1>2, <1>3, <1>5, <1>6, <1>7, <2>1 DEF ClientOK
<1>9. ChannelOK'
  BY <1>6 DEF ItemsInv, TypesOK, ChannelOK
<1> QED BY <1>2, <1>4, <1>5, <1>6, <1>8, <1>9, SightKeeps

LEMMA ReceiveKeeps ==
  ASSUME ItemsInv, NEW s \in Sessions, Receive(s)
  PROVE  ItemsInv'
<1>1. session[s] \in Session /\ session[s].at = "in" /\ session[s].hand = <<>>
  BY DEF Receive, Idle, ItemsInv, TypesOK
<1>2. /\ ground' = ground /\ pocket' = pocket /\ ticker' = ticker /\ made' = made /\ lost' = lost
  BY DEF Receive
<1>3. ChannelOK /\ ClientOK(s) /\ session \in [Sessions -> Session]
  BY DEF ItemsInv, TypesOK, ClientsOK
<1>4. CASE lagged[s] = "yes"
  <2>1. lagged' = [lagged EXCEPT ![s] = "was"] /\ inbox' = inbox /\ session' = session
    BY <1>4 DEF Receive
  <2>2. /\ ChannelOK' /\ lagged'[s] = "was"
        /\ \A t \in Sessions \ {s} : inbox'[t] = inbox[t] /\ lagged'[t] = lagged[t]
    BY <1>3, <2>1 DEF ChannelOK
  <2>3. ClientOK(s)'
    BY <1>2, <1>3, <2>1, <2>2 DEF ClientOK
  <2>4. session' = [session EXCEPT ![s] = session[s]]
    BY <1>3, <2>1
  <2> QED BY <1>1, <1>2, <2>2, <2>3, <2>4, SightKeeps
<1>5. CASE lagged[s] # "yes"
  <2> DEFINE c == Head(inbox[s])
             sees == IF c.place \in Square(session[s].place)
                     THEN Told(session[s].shown, c) ELSE session[s].shown
             new == [session[s] EXCEPT !.shown = sees]
  <2>1. /\ inbox[s] # <<>> /\ inbox' = [inbox EXCEPT ![s] = Tail(inbox[s])] /\ lagged' = lagged
        /\ session' = [session EXCEPT ![s] = new]
    BY <1>3, <1>5 DEF Receive
  <2>2. /\ c \in Change /\ Tail(inbox[s]) \in Seq(Change) /\ inbox[s] \in Seq(Change)
        /\ Len(Tail(inbox[s])) <= Backlog
    <3>1. inbox[s] \in Seq(Change) /\ Len(inbox[s]) \in Nat /\ Len(inbox[s]) <= Backlog /\ Backlog \in Nat
      BY <1>3, LenProperties, ItemsAssumption DEF ChannelOK
    <3> QED BY <2>1, <3>1, HeadTailProperties
  <2>3. sees \subseteq Ids
    <3>1. session[s].shown \subseteq Ids /\ c.id \in Ids /\ c.is \in {"spawned", "settled", "gone"}
      BY <1>1, <2>2 DEF Session, Change
    <3>2. Told(session[s].shown, c) \subseteq Ids
      <4>1. CASE c.is = "spawned"
        BY <3>1, <4>1 DEF Told
      <4>2. CASE c.is = "gone"
        BY <3>1, <4>2 DEF Told
      <4>3. CASE c.is = "settled"
        BY <3>1, <4>3 DEF Told
      <4> QED BY <3>1, <4>1, <4>2, <4>3
    <3> QED BY <3>1, <3>2
  <2>4. session[s].whole => sees = Told(session[s].shown, c)
    <3>1. c.place \in Floor
      BY <2>2 DEF Change
    <3> QED BY <1>3, <3>1 DEF ClientOK, Covers
  <2> HIDE DEF sees
  <2>5. /\ new \in Session /\ new.hand = <<>> /\ new.at = "in" /\ new.shown = sees
        /\ new.whole = session[s].whole /\ new.place = session[s].place
    BY <1>1, <2>3 DEF Session
  <2> HIDE DEF new
  <2>6. session'[s] = new /\ inbox'[s] = Tail(inbox[s])
        /\ \A t \in Sessions \ {s} : inbox'[t] = inbox[t] /\ lagged'[t] = lagged[t]
    BY <1>3, <2>1 DEF ChannelOK
  <2>7. ChannelOK'
    <3>1. inbox' \in [Sessions -> Seq(Change)]
      BY <1>3, <2>1, <2>2 DEF ChannelOK
    <3>2. \A t \in Sessions : Len(inbox'[t]) <= Backlog
      BY <1>3, <2>2, <2>6 DEF ChannelOK
    <3> QED BY <1>3, <2>1, <3>1, <3>2 DEF ChannelOK
  <2>8. ClientOK(s)'
    <3>1. ASSUME lagged[s] = "no"
          PROVE  Honest(Tail(inbox[s]), OnGround(ground))
      <4>1. Honest(inbox[s], OnGround(ground))
        BY <1>3, <3>1 DEF ClientOK
      <4>2. ASSUME NEW id
            PROVE  /\ SaysGone(Tail(inbox[s]), id) => SaysGone(inbox[s], id)
                   /\ LastSpawned(Tail(inbox[s]), id) => LastSpawned(inbox[s], id)
                   /\ SaysGone(Tail(inbox[s]), id) /\ LastSpawned(inbox[s], id)
                        => LastSpawned(Tail(inbox[s]), id)
        BY <2>1, <2>2, SaidOnceTaken
      <4> QED BY <4>1, <4>2 DEF Honest
    <3>2. ASSUME session[s].whole, lagged[s] = "no"
          PROVE  WillShow(sees, Tail(inbox[s])) = OnGround(ground)
      <4>1. WillShow(session[s].shown, inbox[s]) = OnGround(ground)
        BY <1>1, <1>3, <3>2 DEF ClientOK
      <4>2. WillShow(Told(session[s].shown, c), Tail(inbox[s])) = WillShow(session[s].shown, inbox[s])
        BY <2>1, <2>2, ToldAndThen
      <4> QED BY <2>4, <3>2, <4>1, <4>2
    <3>3. new.whole => Covers(new.place)
      BY <1>3, <2>5 DEF ClientOK
    <3> QED BY <1>2, <2>1, <2>5, <2>6, <3>1, <3>2, <3>3 DEF ClientOK
  <2> QED BY <1>1, <1>2, <2>1, <2>5, <2>6, <2>7, <2>8, SightKeeps
<1> QED BY <1>4, <1>5

LEMMA ClaimKeeps ==
  ASSUME ItemsInv, NEW s \in Sessions, ClaimNear(s)
  PROVE  ItemsInv'
<1> DEFINE hand == session'[s].hand
<1>1. /\ GroundOK(ground) /\ session \in [Sessions -> Session] /\ ChannelOK /\ TalliesOK
      /\ pocket \in [Sessions -> [Kinds -> Nat]]
  BY DEF ItemsInv, TypesOK, PocketsOK
<1>2. /\ GroundOK(ground') /\ Announced /\ OldOrNew
      /\ hand \in Seq(HandItem) /\ session[s].place \in Floor
      /\ session' = [session EXCEPT ![s].hand = hand]
      /\ \A k \in Kinds : InList(ground', k) + InList(hand, k) = InList(ground, k)
  BY <1>1, ClaimDoes
<1>3. /\ pocket' = pocket /\ ticker' = ticker /\ made' = made /\ lost' = lost
      /\ session[s].at = "in" /\ session[s].hand = <<>>
  BY DEF ClaimNear, Idle
<1> HIDE DEF hand
<1>4. /\ session' \in [Sessions -> Session]
      /\ session'[s] = [session[s] EXCEPT !.hand = hand]
      /\ \A t \in Sessions \ {s} : session'[t] = session[t]
  BY <1>1, <1>2 DEF Session, HandItem
<1>5. session'[s].hand = hand /\ SameView(s)
  <2>1. session[s] \in Session
    BY <1>1
  <2> QED BY <1>4, <2>1 DEF Session, SameView
<1>6. TypesOK'
  <2>1. ChannelOK'
    BY <1>1, <1>2, AnnounceFacts DEF Announced
  <2>2. PocketsOK' /\ TickerOK' /\ TalliesOK'
    BY <1>3 DEF ItemsInv, TypesOK, PocketsOK, TickerOK, TalliesOK, Used
  <2> QED BY <1>2, <1>4, <2>1, <2>2 DEF TypesOK
<1>7. HandsOK'
  <2> SUFFICES ASSUME NEW t \in Sessions, session'[t].hand # <<>>
               PROVE  session'[t].at = "in" /\ session'[t].place \in Floor
    BY DEF HandsOK
  <2>1. CASE t = s
    BY <1>2, <1>3, <1>5, <2>1 DEF SameView
  <2>2. CASE t # s
    BY <1>4, <2>2 DEF ItemsInv, HandsOK
  <2> QED BY <2>1, <2>2
<1>8. ClientsOK'
  <2> SUFFICES ASSUME NEW t \in Sessions PROVE ClientOK(t)'
    BY DEF ClientsOK
  <2>1. SameView(t)
    BY <1>4, <1>5 DEF SameView
  <2> QED BY <1>1, <1>2, <2>1, AnnouncedKeeps DEF ItemsInv, ClientsOK
<1>9. EveryItemIsSomewhere'
  <2> SUFFICES ASSUME NEW k \in Kinds PROVE made'[k] = InWorld(k)' + lost'[k]
    BY DEF EveryItemIsSomewhere
  <2>1. OthersHold(s, k)
    BY <1>3, <1>4 DEF OthersHold, Held
  <2>2. /\ Total(Held(k)') = Total(Held(k)) - Held(k)[s] + Held(k)'[s]
        /\ Total(Held(k)') \in Nat /\ Total(Held(k)) \in Nat
        /\ Held(k)[s] \in Nat /\ Held(k)'[s] \in Nat
    BY <1>1, <1>3, <1>4, <2>1, HeldChanges
  <2>3. Held(k)[s] = pocket[s][k] + 0
    BY <1>3, InListOfNone DEF Held
  <2>4. Held(k)'[s] = pocket[s][k] + InList(hand, k)
    BY <1>3, <1>5 DEF Held
  <2>5. made[k] = InList(ground, k) + Total(Held(k)) + lost[k]
    BY WorldIs DEF ItemsInv, EveryItemIsSomewhere
  <2>6. InWorld(k)' = InList(ground', k) + Total(Held(k)')
    BY WorldIsNext
  <2>7. InList(ground, k) \in Nat /\ InList(ground', k) \in Nat /\ InList(hand, k) \in Nat
    BY <1>1, <1>2, EntityCounts, InListTyped, HandCounts DEF GroundOK
  <2> DEFINE a == InList(ground, k)
             b == InList(ground', k)
             c == InList(hand, k)
             h == Total(Held(k))
             i == Total(Held(k)')
  <2>8. /\ a \in Nat /\ b \in Nat /\ c \in Nat /\ h \in Nat /\ i \in Nat
        /\ pocket[s][k] \in Nat /\ lost[k] \in Nat /\ made'[k] = made[k] /\ lost'[k] = lost[k]
        /\ b + c = a /\ i = h - (pocket[s][k] + 0) + (pocket[s][k] + c)
        /\ made[k] = a + h + lost[k] /\ InWorld(k)' = b + i
    BY <1>1, <1>2, <1>3, <2>2, <2>3, <2>4, <2>5, <2>6, <2>7 DEF TalliesOK
  <2> HIDE DEF a, b, c, h, i
  <2> QED BY <2>8
<1>10. FallingIsClaimed'
  BY <1>2, <1>3, FallingKeeps DEF ItemsInv
<1> QED BY <1>6, <1>7, <1>8, <1>9, <1>10 DEF ItemsInv

\* What is taken out of a hand first.
LEMMA HandGoes ==
  ASSUME session \in [Sessions -> Session], NEW s \in Sessions, session[s].hand # <<>>,
         session' = [session EXCEPT ![s].hand = Tail(@)]
  PROVE  /\ Head(session[s].hand) \in HandItem
         /\ session' \in [Sessions -> Session]
         /\ session'[s].hand = Tail(session[s].hand)
         /\ \A t \in Sessions : SameView(t)
         /\ \A t \in Sessions \ {s} : session'[t] = session[t]
<1> DEFINE hand == session[s].hand
           rest == Tail(hand)
<1>1. hand \in Seq(HandItem) /\ hand # <<>> /\ session[s] \in Session
  BY DEF Session, HandItem
<1>2. Head(hand) \in HandItem /\ rest \in Seq(HandItem)
  BY <1>1, HeadTailProperties
<1>3. session' = [session EXCEPT ![s] = [session[s] EXCEPT !.hand = rest]]
  OBVIOUS
<1> HIDE DEF hand, rest
<1>4. [session[s] EXCEPT !.hand = rest] \in Session
  BY <1>1, <1>2 DEF Session, HandItem
<1>5. /\ session' \in [Sessions -> Session] /\ session'[s] = [session[s] EXCEPT !.hand = rest]
      /\ \A t \in Sessions \ {s} : session'[t] = session[t]
  BY <1>3, <1>4
<1>6. session'[s].hand = rest /\ SameView(s)
  BY <1>1, <1>5 DEF Session, SameView
<1>7. \A t \in Sessions : SameView(t)
  BY <1>5, <1>6 DEF SameView
<1> QED BY <1>2, <1>5, <1>6, <1>7 DEF hand, rest

LEMMA HandGoesKeeps ==
  ASSUME ItemsInv, NEW s \in Sessions, session[s].hand # <<>>,
         session' = [session EXCEPT ![s].hand = Tail(@)]
  PROVE  HandsOK'
<1> SUFFICES ASSUME NEW t \in Sessions, session'[t].hand # <<>>
             PROVE  session'[t].at = "in" /\ session'[t].place \in Floor
  BY DEF HandsOK
<1>1. session \in [Sessions -> Session]
  BY DEF ItemsInv, TypesOK
<1>2. SameView(t) /\ (t # s => session'[t] = session[t])
  BY <1>1, HandGoes
<1> QED BY <1>2 DEF ItemsInv, HandsOK, SameView

LEMMA PutAwayKeeps ==
  ASSUME ItemsInv, NEW s \in Sessions, PutAway(s)
  PROVE  ItemsInv'
<1> DEFINE got == Head(session[s].hand)
<1>1. /\ session[s].hand # <<>> /\ session' = [session EXCEPT ![s].hand = Tail(@)]
      /\ got.count <= Room(s, got.item)
      /\ pocket' = [pocket EXCEPT ![s][got.item] = @ + got.count]
      /\ ground' = ground /\ inbox' = inbox /\ lagged' = lagged /\ ticker' = ticker
      /\ made' = made /\ lost' = lost
  BY DEF PutAway
<1>2. session \in [Sessions -> Session] /\ PocketsOK /\ TalliesOK /\ GroundOK(ground)
  BY DEF ItemsInv, TypesOK
<1>3. /\ got \in HandItem /\ session' \in [Sessions -> Session]
      /\ session'[s].hand = Tail(session[s].hand)
      /\ \A t \in Sessions : SameView(t)
      /\ \A t \in Sessions \ {s} : session'[t] = session[t]
  BY <1>1, <1>2, HandGoes
<1> HIDE DEF got
<1>4. got.item \in Kinds /\ got.count \in Nat
  BY <1>3, ItemsAssumption DEF HandItem
<1>5. /\ PocketsOK' /\ pocket'[s][got.item] = pocket[s][got.item] + got.count
      /\ \A k \in Kinds \ {got.item} : pocket'[s][k] = pocket[s][k]
      /\ \A t \in Sessions \ {s} : pocket'[t] = pocket[t]
  BY <1>1, <1>2, <1>4, CollectOK
<1>6. TypesOK'
  BY <1>1, <1>3, <1>5 DEF ItemsInv, TypesOK, ChannelOK, TickerOK, TalliesOK, GroundOK, Distinct
<1>7. HandsOK'
  BY <1>1, HandGoesKeeps
<1>8. ClientsOK'
  <2> SUFFICES ASSUME NEW t \in Sessions PROVE ClientOK(t)'
    BY DEF ClientsOK
  <2>1. ClientOK(t) /\ SameView(t)
    BY <1>3 DEF ItemsInv, ClientsOK
  <2> QED BY <1>1, <2>1 DEF ClientOK, SameView
<1>9. EveryItemIsSomewhere'
  <2> SUFFICES ASSUME NEW k \in Kinds PROVE made'[k] = InWorld(k)' + lost'[k]
    BY DEF EveryItemIsSomewhere
  <2>1. Held(k)'[s] = Held(k)[s]
    <3>1. /\ Held(k)[s] = pocket[s][k] + InList(session[s].hand, k)
          /\ Held(k)'[s] = pocket'[s][k] + InList(session'[s].hand, k)
      BY DEF Held
    <3>2. /\ InList(session[s].hand, k) = InList(session'[s].hand, k) + Counts(got, k)
          /\ InList(session'[s].hand, k) \in Nat
      <4>1. session[s].hand \in Seq(HandItem)
        BY <1>2 DEF Session, HandItem
      <4> QED BY <1>1, <1>3, <4>1, HandCounts DEF got
    <3>3. pocket'[s][k] = pocket[s][k] + Counts(got, k) /\ pocket[s][k] \in Nat
          /\ Counts(got, k) \in Nat
      BY <1>2, <1>4, <1>5 DEF Counts, PocketsOK
    <3> QED BY <3>1, <3>2, <3>3
  <2>2. \A t \in Sessions \ {s} : Held(k)'[t] = Held(k)[t]
    BY <1>3, <1>5 DEF Held
  <2>3. Held(k)' = Held(k)
    BY <2>1, <2>2 DEF Held
  <2>4. made[k] = InList(ground, k) + Total(Held(k)) + lost[k]
    BY WorldIs DEF ItemsInv, EveryItemIsSomewhere
  <2>5. InWorld(k)' = InList(ground, k) + Total(Held(k))
    BY <1>1, <2>3, WorldIsNext
  <2> QED BY <1>1, <2>4, <2>5
<1>10. FallingIsClaimed'
  BY <1>1, <1>2, SameGround, FallingKeeps DEF ItemsInv
<1> QED BY <1>6, <1>7, <1>8, <1>9, <1>10 DEF ItemsInv

LEMMA PutBackKeeps ==
  ASSUME ItemsInv, NEW s \in Sessions, PutBack(s)
  PROVE  ItemsInv'
<1> DEFINE got == Head(session[s].hand)
           room == Room(s, got.item)
           back == got.count - room
<1>1. /\ session[s].hand # <<>> /\ session' = [session EXCEPT ![s].hand = Tail(@)]
      /\ got.count > room
      /\ pocket' = [pocket EXCEPT ![s][got.item] = @ + room]
      /\ Pop(got.item, back, session[s].place)
      /\ ticker' = ticker /\ made' = made
  BY DEF PutBack
<1>2. /\ session \in [Sessions -> Session] /\ PocketsOK /\ TalliesOK /\ GroundOK(ground)
      /\ ChannelOK
  BY DEF ItemsInv, TypesOK
<1>3. /\ got \in HandItem /\ session' \in [Sessions -> Session]
      /\ session'[s].hand = Tail(session[s].hand)
      /\ \A t \in Sessions : SameView(t)
      /\ \A t \in Sessions \ {s} : session'[t] = session[t]
  BY <1>1, <1>2, HandGoes
<1> HIDE DEF got
<1>4. got.item \in Kinds /\ got.count \in 1..MaxStack /\ MaxStack \in Nat
  BY <1>3, ItemsAssumption DEF HandItem
<1>5. room \in Nat
  BY <1>2, <1>4, RoomFacts
<1> HIDE DEF room
<1>6. back \in 1..MaxStack /\ session[s].place \in Floor /\ got.count = room + back
  <2>1. session[s].place \in Floor
    BY <1>1 DEF ItemsInv, HandsOK
  <2> QED BY <1>1, <1>4, <1>5, <2>1
<1> HIDE DEF back
<1>7. /\ PocketsOK' /\ pocket'[s][got.item] = pocket[s][got.item] + room
      /\ \A k \in Kinds \ {got.item} : pocket'[s][k] = pocket[s][k]
      /\ \A t \in Sessions \ {s} : pocket'[t] = pocket[t]
  <2>1. room <= Room(s, got.item)
    BY <1>5 DEF room
  <2> QED BY <1>1, <1>2, <1>4, <1>5, <2>1, CollectOK
<1>8. /\ GroundOK(ground') /\ Announced /\ OldOrNew /\ lost' \in [Kinds -> Nat]
      /\ \A k \in Kinds : InList(ground', k) + lost'[k]
           = InList(ground, k) + lost[k] + (IF got.item = k THEN back ELSE 0)
  BY <1>1, <1>2, <1>4, <1>6, PopDoes DEF TalliesOK
<1>9. TypesOK'
  <2>1. ChannelOK'
    BY <1>2, <1>8, AnnounceFacts DEF Announced
  <2>2. TalliesOK' /\ TickerOK'
    BY <1>1, <1>8 DEF ItemsInv, TypesOK, TalliesOK, TickerOK
  <2> QED BY <1>3, <1>7, <1>8, <2>1, <2>2 DEF TypesOK
<1>10. HandsOK'
  BY <1>1, HandGoesKeeps
<1>11. ClientsOK'
  <2> SUFFICES ASSUME NEW t \in Sessions PROVE ClientOK(t)'
    BY DEF ClientsOK
  <2>1. SameView(t)
    BY <1>3
  <2> QED BY <1>2, <1>8, <2>1, AnnouncedKeeps DEF ItemsInv, ClientsOK
<1>12. EveryItemIsSomewhere'
  <2> SUFFICES ASSUME NEW k \in Kinds PROVE made'[k] = InWorld(k)' + lost'[k]
    BY DEF EveryItemIsSomewhere
  <2>1. OthersHold(s, k)
    BY <1>3, <1>7 DEF OthersHold, Held
  <2>2. /\ Total(Held(k)') = Total(Held(k)) - Held(k)[s] + Held(k)'[s]
        /\ Total(Held(k)') \in Nat /\ Total(Held(k)) \in Nat
        /\ Held(k)[s] \in Nat /\ Held(k)'[s] \in Nat
    BY <1>2, <1>3, <1>7, <2>1, HeldChanges DEF PocketsOK
  <2>3. /\ Held(k)[s] = pocket[s][k] + InList(session[s].hand, k)
        /\ Held(k)'[s] = pocket'[s][k] + InList(session'[s].hand, k)
    BY DEF Held
  <2>4. /\ InList(session[s].hand, k) = InList(session'[s].hand, k) + Counts(got, k)
        /\ InList(session'[s].hand, k) \in Nat
    <3>1. session[s].hand \in Seq(HandItem)
      BY <1>2 DEF Session, HandItem
    <3> QED BY <1>1, <1>3, <3>1, HandCounts DEF got
  <2>5. /\ pocket'[s][k] = pocket[s][k] + (IF got.item = k THEN room ELSE 0)
        /\ pocket[s][k] \in Nat
    BY <1>2, <1>4, <1>5, <1>7 DEF PocketsOK
  <2>6. made[k] = InList(ground, k) + Total(Held(k)) + lost[k]
    BY WorldIs DEF ItemsInv, EveryItemIsSomewhere
  <2>7. InWorld(k)' = InList(ground', k) + Total(Held(k)')
    BY WorldIsNext
  <2>8. InList(ground, k) \in Nat /\ InList(ground', k) \in Nat
    BY <1>2, <1>8, EntityCounts, InListTyped DEF GroundOK
  <2> DEFINE a == InList(ground, k)
             b == InList(ground', k)
             c == Counts(got, k)
             d == InList(session'[s].hand, k)
             h == Total(Held(k))
             i == Total(Held(k)')
             p == pocket[s][k]
             x == IF got.item = k THEN room ELSE 0
             y == IF got.item = k THEN back ELSE 0
  <2>9. c = x + y /\ x \in Nat /\ y \in Nat
    <3>1. back \in Nat
      BY <1>4, <1>6
    <3> QED BY <1>5, <1>6, <3>1 DEF Counts
  <2>10. /\ a \in Nat /\ b \in Nat /\ d \in Nat /\ h \in Nat /\ i \in Nat
         /\ p \in Nat /\ lost[k] \in Nat /\ lost'[k] \in Nat /\ made'[k] = made[k]
         /\ b + lost'[k] = a + lost[k] + y /\ i = h - (p + (d + c)) + (p + x + d)
         /\ made[k] = a + h + lost[k] /\ InWorld(k)' = b + i
    BY <1>1, <1>2, <1>8, <2>2, <2>3, <2>4, <2>5, <2>6, <2>7, <2>8 DEF TalliesOK
  <2> HIDE DEF a, b, c, d, h, i, p, x, y
  <2> QED BY <2>9, <2>10
<1>13. FallingIsClaimed'
  BY <1>1, <1>8, FallingKeeps DEF ItemsInv
<1> QED BY <1>9, <1>10, <1>11, <1>12, <1>13 DEF ItemsInv

LEMMA LeaveKeeps ==
  ASSUME ItemsInv, NEW s \in Sessions, Leave(s)
  PROVE  ItemsInv'
<1>1. /\ session' = [session EXCEPT ![s] = Out] /\ inbox' = [inbox EXCEPT ![s] = <<>>]
      /\ lagged' = [lagged EXCEPT ![s] = "no"]
      /\ lost' = [k \in Kinds |-> lost[k] + InList(session[s].hand, k)]
      /\ ground' = ground /\ pocket' = pocket /\ ticker' = ticker /\ made' = made
  BY DEF Leave
<1>2. /\ session \in [Sessions -> Session] /\ ChannelOK /\ TalliesOK /\ GroundOK(ground)
      /\ pocket \in [Sessions -> [Kinds -> Nat]]
  BY DEF ItemsInv, TypesOK, PocketsOK
<1>3. /\ session' \in [Sessions -> Session] /\ session'[s] = Out
      /\ \A t \in Sessions \ {s} : session'[t] = session[t]
  BY <1>1, <1>2, OutFacts
<1>4. /\ ChannelOK' /\ inbox'[s] = <<>> /\ lagged'[s] = "no"
      /\ \A t \in Sessions \ {s} : inbox'[t] = inbox[t] /\ lagged'[t] = lagged[t]
  <2>1. <<>> \in Seq(Change) /\ Len(<<>>) = 0 /\ Backlog \in Nat
    BY ItemsAssumption
  <2>2. inbox' \in [Sessions -> Seq(Change)] /\ lagged' \in [Sessions -> {"no", "yes", "was"}]
    BY <1>1, <1>2, <2>1 DEF ChannelOK
  <2>3. /\ inbox'[s] = <<>> /\ lagged'[s] = "no"
        /\ \A t \in Sessions \ {s} : inbox'[t] = inbox[t] /\ lagged'[t] = lagged[t]
    BY <1>1, <1>2 DEF ChannelOK
  <2>4. \A t \in Sessions : Len(inbox'[t]) <= Backlog
    BY <1>2, <2>1, <2>3 DEF ChannelOK
  <2> QED BY <2>2, <2>3, <2>4 DEF ChannelOK
<1>5. \A k \in Kinds : InList(session[s].hand, k) \in Nat
  <2>1. session[s].hand \in Seq(HandItem)
    BY <1>2 DEF Session, HandItem
  <2> QED BY <2>1, HandCounts
<1>6. TypesOK'
  <2>1. TalliesOK'
    BY <1>1, <1>2, <1>5 DEF TalliesOK
  <2>2. PocketsOK' /\ TickerOK' /\ GroundOK(ground)'
    BY <1>1 DEF ItemsInv, TypesOK, PocketsOK, TickerOK, Used, GroundOK, Distinct
  <2> QED BY <1>3, <1>4, <2>1, <2>2 DEF TypesOK
<1>7. HandsOK'
  <2> SUFFICES ASSUME NEW t \in Sessions, session'[t].hand # <<>>
               PROVE  session'[t].at = "in" /\ session'[t].place \in Floor
    BY DEF HandsOK
  <2>1. t # s
    BY <1>3, OutFacts
  <2> QED BY <1>3, <2>1 DEF ItemsInv, HandsOK
<1>8. ClientsOK'
  <2> SUFFICES ASSUME NEW t \in Sessions PROVE ClientOK(t)'
    BY DEF ClientsOK
  <2>1. CASE t = s
    <3>1. Honest(inbox'[s], OnGround(ground'))
      BY <1>4, NoneIsHonest
    <3> QED BY <1>3, <1>4, <2>1, <3>1, OutFacts DEF ClientOK
  <2>2. CASE t # s
    BY <1>1, <1>3, <1>4, <2>2, ClientSame DEF ItemsInv, ClientsOK
  <2> QED BY <2>1, <2>2
<1>9. EveryItemIsSomewhere'
  <2> SUFFICES ASSUME NEW k \in Kinds PROVE made'[k] = InWorld(k)' + lost'[k]
    BY DEF EveryItemIsSomewhere
  <2>1. OthersHold(s, k)
    BY <1>1, <1>3 DEF OthersHold, Held
  <2>2. /\ Total(Held(k)') = Total(Held(k)) - Held(k)[s] + Held(k)'[s]
        /\ Total(Held(k)') \in Nat /\ Total(Held(k)) \in Nat
        /\ Held(k)[s] \in Nat /\ Held(k)'[s] \in Nat
    BY <1>1, <1>2, <1>3, <2>1, HeldChanges
  <2>3. /\ Held(k)[s] = pocket[s][k] + InList(session[s].hand, k)
        /\ Held(k)'[s] = pocket[s][k] + 0
    BY <1>1, <1>3, OutFacts, InListOfNone DEF Held
  <2>4. made[k] = InList(ground, k) + Total(Held(k)) + lost[k]
    BY WorldIs DEF ItemsInv, EveryItemIsSomewhere
  <2>5. InWorld(k)' = InList(ground, k) + Total(Held(k)')
    BY <1>1, WorldIsNext
  <2>6. InList(ground, k) \in Nat
    BY <1>2, EntityCounts, InListTyped DEF GroundOK
  <2> DEFINE a == InList(ground, k)
             c == InList(session[s].hand, k)
             h == Total(Held(k))
             i == Total(Held(k)')
             p == pocket[s][k]
  <2>7. /\ a \in Nat /\ c \in Nat /\ h \in Nat /\ i \in Nat /\ p \in Nat
        /\ lost[k] \in Nat /\ lost'[k] = lost[k] + c /\ made'[k] = made[k]
        /\ i = h - (p + c) + (p + 0) /\ made[k] = a + h + lost[k] /\ InWorld(k)' = a + i
    BY <1>1, <1>2, <1>5, <2>2, <2>3, <2>4, <2>5, <2>6 DEF TalliesOK
  <2> HIDE DEF a, c, h, i, p
  <2> QED BY <2>7
<1>10. FallingIsClaimed'
  BY <1>1, <1>2, SameGround, FallingKeeps DEF ItemsInv
<1> QED BY <1>6, <1>7, <1>8, <1>9, <1>10 DEF ItemsInv

\* The ticker looks round, or claims.
LEMMA TickerKeeps ==
  ASSUME ItemsInv, TickerOK', FallingIsClaimed',
         ground' = ground, inbox' = inbox, lagged' = lagged, session' = session,
         pocket' = pocket, made' = made, lost' = lost
  PROVE  ItemsInv'
<1>1. TypesOK'
  BY DEF ItemsInv, TypesOK, PocketsOK, TalliesOK, Used, GroundOK, Distinct, ChannelOK
<1>2. HandsOK'
  BY DEF ItemsInv, HandsOK
<1>3. ClientsOK'
  BY ClientSame DEF ItemsInv, ClientsOK
<1>4. EveryItemIsSomewhere'
  BY <1>1, CountSame DEF ItemsInv, TypesOK
<1> QED BY <1>1, <1>2, <1>3, <1>4 DEF ItemsInv

LEMMA LookKeeps ==
  ASSUME ItemsInv, TickLook
  PROVE  ItemsInv'
<1> DEFINE places == {session[s].place : s \in Present}
<1>1. places \subseteq Places
  BY DEF ItemsInv, TypesOK, Present, Session
<1>2. /\ ticker' = [ticker EXCEPT !.at = "claim", !.players = places]
      /\ ground' = ground /\ inbox' = inbox /\ lagged' = lagged /\ session' = session
      /\ pocket' = pocket /\ made' = made /\ lost' = lost
  BY DEF TickLook
<1> HIDE DEF places
<1>3. TickerOK' /\ ticker'.at = "claim"
  BY <1>1, <1>2 DEF ItemsInv, TypesOK, TickerOK
<1>4. FallingIsClaimed'
  BY <1>3 DEF FallingIsClaimed
<1> QED BY <1>2, <1>3, <1>4, TickerKeeps

LEMMA ClaimsKeep ==
  ASSUME ItemsInv, TickClaim
  PROVE  ItemsInv'
<1> DEFINE claim == Footprint(ticker.players)
<1>1. claim \subseteq Places
  <2>1. \A i \in DOMAIN ground : ground[i].to \in Places
    <3>1. \A i \in DOMAIN ground : ground[i] \in Entity
      BY ElementOfSeq, LenProperties DEF ItemsInv, TypesOK, GroundOK
    <3> QED BY <3>1, EntityCounts, ItemsAssumption
  <2> QED BY <2>1 DEF Footprint, Near
<1>2. /\ ticker' = [ticker EXCEPT !.at = "tick", !.claim = claim]
      /\ ground' = ground /\ inbox' = inbox /\ lagged' = lagged /\ session' = session
      /\ pocket' = pocket /\ made' = made /\ lost' = lost
  BY DEF TickClaim
<1>3. \A i \in DOMAIN ground : ~ground[i].settled /\ NearAny(ground[i], ticker.players)
                                 => ground[i].to \in claim
  BY DEF Footprint, Near
<1> HIDE DEF claim
<1>4. TickerOK' /\ ticker'.players = ticker.players /\ ticker'.claim = claim
  BY <1>1, <1>2 DEF ItemsInv, TypesOK, TickerOK
<1>5. FallingIsClaimed'
  BY <1>2, <1>3, <1>4 DEF FallingIsClaimed, NearAny
<1> QED BY <1>2, <1>4, <1>5, TickerKeeps

LEMMA TickKeeps ==
  ASSUME ItemsInv, TickRun
  PROVE  ItemsInv'
<1>1. GroundOK(ground) /\ TalliesOK /\ ChannelOK
  BY DEF ItemsInv, TypesOK
<1>2. /\ GroundOK(ground') /\ Announced /\ lost' \in [Kinds -> Nat]
      /\ \A k \in Kinds : InList(ground', k) + lost'[k] = InList(ground, k) + lost[k]
  BY <1>1, TickDoes DEF TalliesOK
<1>3. ticker' = Resting /\ session' = session /\ pocket' = pocket /\ made' = made
  BY DEF TickRun
<1>4. TickerOK' /\ ticker'.at = "idle"
  BY <1>3 DEF TickerOK, Resting
<1>5. TypesOK'
  <2>1. ChannelOK'
    BY <1>1, <1>2, AnnounceFacts DEF Announced
  <2>2. PocketsOK' /\ TalliesOK' /\ session' \in [Sessions -> Session]
    BY <1>1, <1>2, <1>3 DEF ItemsInv, TypesOK, PocketsOK, TalliesOK, Used
  <2> QED BY <1>2, <1>4, <2>1, <2>2 DEF TypesOK
<1>6. HandsOK'
  BY <1>3 DEF ItemsInv, HandsOK
<1>7. ClientsOK'
  <2> SUFFICES ASSUME NEW s \in Sessions PROVE ClientOK(s)'
    BY DEF ClientsOK
  <2>1. ClientOK(s) /\ SameView(s)
    BY <1>3 DEF ItemsInv, ClientsOK, SameView
  <2> QED BY <1>1, <1>2, <2>1, AnnouncedKeeps
<1>8. EveryItemIsSomewhere'
  <2> SUFFICES ASSUME NEW k \in Kinds PROVE made'[k] = InWorld(k)' + lost'[k]
    BY DEF EveryItemIsSomewhere
  <2>1. Held(k)' = Held(k)
    BY <1>3 DEF Held
  <2>2. made[k] = InList(ground, k) + Total(Held(k)) + lost[k]
    BY WorldIs DEF ItemsInv, EveryItemIsSomewhere
  <2>3. InList(ground, k) \in Nat /\ InList(ground', k) \in Nat
    BY <1>1, <1>2, EntityCounts, InListTyped DEF GroundOK
  <2>4. Total(Held(k)) \in Nat
    BY HeldTyped DEF ItemsInv, TypesOK, PocketsOK
  <2>5. InWorld(k)' = InList(ground', k) + Total(Held(k))
    BY <2>1, WorldIsNext
  <2> DEFINE a == InList(ground, k)
             b == InList(ground', k)
             h == Total(Held(k))
  <2>6. /\ a \in Nat /\ b \in Nat /\ h \in Nat /\ lost[k] \in Nat /\ lost'[k] \in Nat
        /\ made'[k] = made[k] /\ b + lost'[k] = a + lost[k] /\ made[k] = a + h + lost[k]
        /\ InWorld(k)' = b + h
    BY <1>1, <1>2, <1>3, <2>2, <2>3, <2>4, <2>5 DEF TalliesOK
  <2> HIDE DEF a, b, h
  <2> QED BY <2>6
<1>9. FallingIsClaimed'
  BY <1>4 DEF FallingIsClaimed
<1> QED BY <1>5, <1>6, <1>7, <1>8, <1>9 DEF ItemsInv

LEMMA StepInv ==
  ASSUME ItemsInv, [ItemsNext]_itemVars
  PROVE  ItemsInv'
<1>1. CASE Tick
  BY <1>1, LookKeeps, ClaimsKeep, TickKeeps DEF Tick
<1>2. ASSUME NEW s \in Sessions, Turn(s) PROVE ItemsInv'
  BY <1>2, JoinKeeps, EnterKeeps, WalkKeeps, ReceiveKeeps, ClaimKeeps, PutAwayKeeps,
     PutBackKeeps, LeaveKeeps DEF Turn
<1>3. ASSUME NEW k \in Kinds, NEW n \in Rolls, NEW p \in Cells, Drop(k, n, p) PROVE ItemsInv'
  BY <1>3, DropKeeps
<1>4. CASE UNCHANGED itemVars
  <2>1. /\ ground' = ground /\ inbox' = inbox /\ lagged' = lagged /\ session' = session
        /\ pocket' = pocket /\ ticker' = ticker /\ made' = made /\ lost' = lost
    BY <1>4 DEF itemVars
  <2>2. TickerOK'
    BY <2>1 DEF ItemsInv, TypesOK, TickerOK
  <2>3. FallingIsClaimed'
    BY <2>1, SameGround, FallingKeeps DEF ItemsInv, TypesOK
  <2> QED BY <2>1, <2>2, <2>3, TickerKeeps
<1> QED BY <1>1, <1>2, <1>3, <1>4 DEF ItemsNext

LEMMA Always == ItemsSpec => []ItemsInv
BY InitInv, StepInv, PTL DEF ItemsSpec

-----------------------------------------------------------------------------
(***************************************************************************)
(* The theorems.                                                           *)
(***************************************************************************)
\* The list never holds more than its ceiling, or one id twice; no receiver is
\* further behind than its backlog; no pickup fills more slots than there are.
THEOREM ItemsTyped == ItemsSpec => []ItemsTypeOK
<1>1. ItemsInv => ItemsTypeOK
  BY TypesAre DEF ItemsInv
<1> QED BY <1>1, Always, PTL

\* However drops, ticks, merges, claims, what is put away or back and sessions
\* that end come between each other, nothing is duplicated, and nothing is lost
\* but where the code says so.
THEOREM NothingIsLost == ItemsSpec => []EveryItemIsSomewhere
<1>1. ItemsInv => EveryItemIsSomewhere
  BY DEF ItemsInv
<1> QED BY <1>1, Always, PTL

\* A client that held every column and missed nothing comes to show exactly
\* what lies on the ground.
THEOREM ClientsCatchUp == ItemsSpec => []ClientShowsTheGround
<1>1. ItemsInv => ClientShowsTheGround
  BY DEF ItemsInv, ClientsOK, ClientOK, ClientShowsTheGround
<1> QED BY <1>1, Always, PTL

\* No tick looks into a column for a falling item that the ticker did not claim.
THEOREM FallersAreClaimed == ItemsSpec => []FallingIsClaimed
<1>1. ItemsInv => FallingIsClaimed
  BY DEF ItemsInv
<1> QED BY <1>1, Always, PTL
=============================================================================
