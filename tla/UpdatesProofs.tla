---------------------------- MODULE UpdatesProofs ----------------------------
(***************************************************************************)
(* A cell that should react is never forgotten, and no sand is lost or     *)
(* doubled, for any height of the world, any worlds to start with, any     *)
(* sizes of the queue and of the list of falling blocks, and any delays.   *)
(*                                                                         *)
(* The argument: the ticker has a cell in its batch from its look until    *)
(* what it does about it is done, and every write is followed by a note of *)
(* the cells it could move, which the queue takes or a full queue refuses. *)
(* What is in the air is sand, was launched by a look that saw sand, and   *)
(* goes only down: it comes to rest inside the world.                      *)
(***************************************************************************)
EXTENDS WorldUpdates, SequenceTheorems, FiniteSetTheorems, WellFoundedInduction, TLAPS

-----------------------------------------------------------------------------
(***************************************************************************)
(* The inductive invariant.                                                *)
(***************************************************************************)
Near == -1..Height
Due == [in : Int, cell : Near]

InOrder(s) ==
  \A i, j \in DOMAIN s : i < j => s[i].in <= s[j].in /\ s[i].cell # s[j].cell

TickState ==
  [ at : {"idle", "fall", "land", "due", "examine", "panicked"},
    batch : Seq(Near), index : 1..MaxFalling + 1,
    doing : {"look", "topple", "launch", "clear", "relabel"},
    saw : State, next : State ]

Calling ==
  [ at : {"write", "touch"}, verb : {"dig", "place"}, cell : Cells, saw : State, state : State ]

QueueInv ==
  /\ waiting \in Seq(Near) /\ Len(waiting) <= MaxPending /\ IsInjective(waiting)
  /\ missed \subseteq Near

ScheduleInv == schedule \in Seq(Due) /\ InOrder(schedule)

\* What is in the air is sand that falls, from below the top of the world.
Airborne == {e \in Entity : e.y <= (Height - 1) * Unit /\ e.vy <= 0 /\ Falls(e.state)}
AirInv ==
  /\ air \in Seq(Airborne) /\ Len(air) <= MaxFalling
  /\ landed \in Seq({l \in Landing : Falls(l.state)})

\* The ticker has the cell it works on, and has seen what it does to it.
TickInv ==
  /\ tick \in TickState
  /\ tick.at \in {"idle", "fall", "land"} => tick.batch = <<>>
  /\ tick.doing # "look" =>
       /\ tick.at \in {"due", "examine"} /\ tick.batch # <<>> /\ tick.batch[1] \in Cells
       /\ Falls(tick.saw) <=> tick.doing \in {"launch", "clear"}
  /\ tick.doing = "relabel" => ~Falls(tick.next)

WorldInv ==
  /\ world \in [Cells -> State]
  /\ player \in {Idle} \cup Calling
  /\ player.at = "write" /\ player.verb = "place" => ~Falls(player.saw)
  /\ verbs \in 0..MaxVerbs /\ stops \in 0..MaxStops
  /\ book \in [made : Nat, items : Nat, surprised : BOOLEAN]

UpdatesInv ==
  QueueInv /\ ScheduleInv /\ AirInv /\ TickInv /\ WorldInv /\ NothingHangs /\ EverySandIsSomewhere

-----------------------------------------------------------------------------
(***************************************************************************)
(* Lists.                                                                  *)
(***************************************************************************)
\* How the steps take from the front of a list.
LEMMA FrontTaken ==
  ASSUME NEW S, NEW s \in Seq(S), NEW n \in 0..Len(s)
  PROVE  /\ SubSeq(s, 1, n) \in Seq(S) /\ Len(SubSeq(s, 1, n)) = n
         /\ \A i \in 1..n : SubSeq(s, 1, n)[i] = s[i]
         /\ SubSeq(s, n + 1, Len(s)) \in Seq(S) /\ Len(SubSeq(s, n + 1, Len(s))) = Len(s) - n
         /\ \A i \in 1..Len(s) - n : SubSeq(s, n + 1, Len(s))[i] = s[i + n]
<1>0. n \in Int /\ 1 \in Int /\ Len(s) \in Int /\ n + 1 \in Int /\ \A i \in 1..Len(s) : s[i] \in S
  BY LenProperties
<1>1. \A i \in 1..n : s[i] \in S
  BY <1>0
<1>2. \A i \in n + 1..Len(s) : s[i] \in S
  BY <1>0
<1>3. /\ SubSeq(s, 1, n) \in Seq(S) /\ Len(SubSeq(s, 1, n)) = IF 1 <= n THEN n - 1 + 1 ELSE 0
      /\ \A i \in 1..n - 1 + 1 : SubSeq(s, 1, n)[i] = s[1 + i - 1]
  BY ONLY <1>0, <1>1, SubSeqProperties
<1>4. /\ SubSeq(s, n + 1, Len(s)) \in Seq(S)
      /\ Len(SubSeq(s, n + 1, Len(s))) = IF n + 1 <= Len(s) THEN Len(s) - (n + 1) + 1 ELSE 0
      /\ \A i \in 1..Len(s) - (n + 1) + 1 : SubSeq(s, n + 1, Len(s))[i] = s[n + 1 + i - 1]
  BY ONLY <1>0, <1>2, SubSeqProperties
<1>5. n \in 0..Len(s) /\ Len(s) \in Nat
  BY LenProperties
<1>6. \A i \in 1..Len(s) - n : n + 1 + i - 1 = i + n
  BY <1>5
<1>7. \A i \in 1..n : 1 + i - 1 = i
  BY <1>5
<1> QED BY <1>3, <1>4, <1>5, <1>6, <1>7

\* What was in a list is in its front or in the rest of it.
LEMMA NoneLost ==
  ASSUME NEW S, NEW s \in Seq(S), NEW n \in 0..Len(s)
  PROVE  ToSet(s) = ToSet(SubSeq(s, 1, n)) \cup ToSet(SubSeq(s, n + 1, Len(s)))
<1> DEFINE a == SubSeq(s, 1, n)
           b == SubSeq(s, n + 1, Len(s))
<1>1. /\ DOMAIN a = 1..n /\ \A i \in 1..n : a[i] = s[i]
      /\ DOMAIN b = 1..Len(s) - n /\ \A i \in 1..Len(s) - n : b[i] = s[i + n]
      /\ DOMAIN s = 1..Len(s) /\ Len(s) \in Nat
  BY FrontTaken, LenProperties
<1> HIDE DEF a, b
<1>2. ToSet(a) \subseteq ToSet(s) /\ ToSet(b) \subseteq ToSet(s)
  <2>1. \A i \in 1..n : i \in 1..Len(s)
    BY <1>1
  <2>2. \A i \in 1..Len(s) - n : i + n \in 1..Len(s)
    BY <1>1
  <2> QED BY <1>1, <2>1, <2>2 DEF ToSet
<1>3. ASSUME NEW i \in 1..Len(s) PROVE s[i] \in ToSet(a) \cup ToSet(b)
  <2>1. CASE i <= n
    BY <1>1, <2>1 DEF ToSet
  <2>2. CASE i > n
    <3>1. i - n \in 1..Len(s) - n /\ b[i - n] = s[i]
      BY <1>1, <2>2
    <3> QED BY <1>1, <3>1 DEF ToSet
  <2> QED BY <1>1, <2>1, <2>2
<1>4. ToSet(s) \subseteq ToSet(a) \cup ToSet(b)
  BY <1>1, <1>3 DEF ToSet
<1> QED BY <1>2, <1>4 DEF a, b

\* The first of a list, and what is left.
LEMMA FirstTaken ==
  ASSUME NEW S, NEW s \in Seq(S), s # <<>>
  PROVE  /\ Head(s) = s[1] /\ s[1] \in S /\ Tail(s) \in Seq(S) /\ Len(Tail(s)) = Len(s) - 1
         /\ 1 \in DOMAIN s /\ Len(s) >= 1
         /\ ToSet(s) \subseteq {s[1]} \cup ToSet(Tail(s))
<1>1. /\ Head(s) = s[1] /\ Len(s) \in Nat /\ Len(s) >= 1 /\ DOMAIN s = 1..Len(s)
  OBVIOUS
<1>2. /\ s[1] \in S /\ Tail(s) \in Seq(S) /\ Len(Tail(s)) = Len(s) - 1
      /\ \A i \in 1..Len(Tail(s)) : Tail(s)[i] = s[i + 1]
      /\ DOMAIN Tail(s) = 1..Len(s) - 1
  BY <1>1, HeadTailProperties, LenProperties
<1>3. ASSUME NEW i \in 1..Len(s) PROVE s[i] \in {s[1]} \cup ToSet(Tail(s))
  <2>1. CASE i = 1
    BY <2>1
  <2>2. CASE i # 1
    <3>1. i - 1 \in 1..Len(s) - 1 /\ Tail(s)[i - 1] = s[i]
      BY <1>1, <1>2, <2>2
    <3> QED BY <1>2, <3>1 DEF ToSet
  <2> QED BY <2>1, <2>2
<1> QED BY <1>1, <1>2, <1>3 DEF ToSet

LEMMA OneAppended ==
  ASSUME NEW S, NEW s \in Seq(S), NEW e \in S
  PROVE  /\ Append(s, e) \in Seq(S) /\ Len(Append(s, e)) = Len(s) + 1
         /\ DOMAIN Append(s, e) = 1..Len(s) + 1
         /\ \A i \in 1..Len(s) : Append(s, e)[i] = s[i]
         /\ Append(s, e)[Len(s) + 1] = e
         /\ ToSet(Append(s, e)) = ToSet(s) \cup {e}
<1> DEFINE t == Append(s, e)
<1>1. /\ t \in Seq(S) /\ Len(t) = Len(s) + 1 /\ \A i \in 1..Len(s) : t[i] = s[i]
      /\ t[Len(s) + 1] = e
  BY AppendProperties
<1> HIDE DEF t
<1>2. DOMAIN t = 1..Len(s) + 1 /\ DOMAIN s = 1..Len(s) /\ Len(s) \in Nat
  BY <1>1, LenProperties
<1>3. ToSet(t) \subseteq ToSet(s) \cup {e}
  BY <1>1, <1>2 DEF ToSet
<1>4. \A i \in 1..Len(s) : i \in 1..Len(s) + 1
  BY <1>2
<1>5. Len(s) + 1 \in 1..Len(s) + 1
  BY <1>2
<1>6. ToSet(s) \cup {e} \subseteq ToSet(t)
  BY <1>1, <1>2, <1>4, <1>5 DEF ToSet
<1> QED BY <1>1, <1>2, <1>3, <1>6 DEF t

\* One taken out of the middle.
LEMMA OneRemoved ==
  ASSUME NEW S, NEW s \in Seq(S), NEW i \in 1..Len(s)
  PROVE  RemoveAt(s, i) \in Seq(S) /\ Len(RemoveAt(s, i)) = Len(s) - 1
<1>1. i - 1 \in 0..Len(s) /\ i \in 0..Len(s) /\ Len(s) \in Nat /\ i \in Nat
  BY LenProperties
<1> DEFINE a == SubSeq(s, 1, i - 1)
           b == SubSeq(s, i + 1, Len(s))
           t == RemoveAt(s, i)
<1>2. a \in Seq(S) /\ Len(a) = i - 1
  BY <1>1, FrontTaken
<1>3. b \in Seq(S) /\ Len(b) = Len(s) - i
  BY <1>1, FrontTaken
<1>4. t = a \o b
  BY DEF RemoveAt
<1> HIDE DEF a, b, t
<1>5. t \in Seq(S) /\ Len(t) = Len(a) + Len(b)
  BY <1>2, <1>3, <1>4, ConcatProperties
<1> QED BY <1>1, <1>2, <1>3, <1>5 DEF t

LEMMA OneInserted ==
  ASSUME NEW S, NEW s \in Seq(S), NEW k \in 0..Len(s), NEW e \in S
  PROVE  /\ InsertAt(s, k + 1, e) \in Seq(S) /\ Len(InsertAt(s, k + 1, e)) = Len(s) + 1
         /\ DOMAIN InsertAt(s, k + 1, e) = 1..Len(s) + 1
         /\ \A i \in 1..Len(s) + 1 : InsertAt(s, k + 1, e)[i] =
              IF i <= k THEN s[i] ELSE IF i = k + 1 THEN e ELSE s[i - 1]
<1>1. k \in Nat /\ Len(s) \in Nat /\ k <= Len(s) /\ k + 1 - 1 = k
  BY LenProperties
<1> DEFINE t == InsertAt(s, k + 1, e)
           a == SubSeq(s, 1, k)
           b == SubSeq(s, k + 1, Len(s))
<1>2. /\ a \in Seq(S) /\ Len(a) = k /\ \A i \in 1..k : a[i] = s[i]
      /\ b \in Seq(S) /\ Len(b) = Len(s) - k /\ \A i \in 1..Len(s) - k : b[i] = s[i + k]
  BY <1>1, FrontTaken
<1> DEFINE c == a \o <<e>>
<1>3. t = c \o b
  <2>1. t = (SubSeq(s, 1, (k + 1) - 1) \o <<e>>) \o SubSeq(s, k + 1, Len(s))
    BY DEF InsertAt
  <2>2. (k + 1) - 1 = k
    BY <1>1
  <2> QED BY ONLY <2>1, <2>2 DEF a, b, c
<1> HIDE DEF a, b, c, t
<1>4. /\ c \in Seq(S) /\ Len(c) = k + 1
      /\ \A i \in 1..k + 1 : c[i] = IF i <= k THEN s[i] ELSE e
  <2>1. c = Append(a, e)
    BY <1>2, AppendIsConcat DEF c
  <2>2. /\ c \in Seq(S) /\ Len(c) = Len(a) + 1
        /\ \A i \in 1..Len(a) : c[i] = a[i]
        /\ c[Len(a) + 1] = e
    BY <1>2, <2>1, AppendProperties
  <2>3. ASSUME NEW i \in 1..k + 1 PROVE c[i] = IF i <= k THEN s[i] ELSE e
    <3>1. CASE i <= k
      BY <1>1, <1>2, <2>2, <3>1
    <3>2. CASE i = k + 1
      <4>1. ~(i <= k) /\ c[i] = e
        BY <1>1, <1>2, <2>2, <3>2
      <4> QED BY ONLY <4>1
    <3> QED BY <1>1, <3>1, <3>2
  <2> QED BY <1>1, <1>2, <2>2, <2>3
<1>6. /\ t \in Seq(S) /\ Len(t) = Len(c) + Len(b)
      /\ \A i \in 1..Len(c) + Len(b) : t[i] = IF i <= Len(c) THEN c[i] ELSE b[i - Len(c)]
  <2>1. b \in Seq(S) /\ c \in Seq(S)
    BY <1>2, <1>4
  <2>2. /\ c \o b \in Seq(S) /\ Len(c \o b) = Len(c) + Len(b)
        /\ \A i \in 1..Len(c) + Len(b) : (c \o b)[i] = IF i <= Len(c) THEN c[i] ELSE b[i - Len(c)]
    BY ONLY <2>1, ConcatProperties
  <2> QED BY ONLY <1>3, <2>2
<1>7. Len(t) = Len(s) + 1 /\ Len(c) + Len(b) = Len(s) + 1
  BY <1>1, <1>2, <1>4, <1>6
<1>8. ASSUME NEW i \in 1..Len(s) + 1
      PROVE  t[i] = IF i <= k THEN s[i] ELSE IF i = k + 1 THEN e ELSE s[i - 1]
  <2>1. CASE i <= k + 1
    <3>1. i \in 1..k + 1 /\ i \in 1..Len(c) + Len(b) /\ i <= Len(c)
      BY <1>1, <1>4, <1>7, <2>1
    <3>2. t[i] = IF i <= k THEN s[i] ELSE e
      BY ONLY <1>4, <1>6, <3>1
    <3>3. i <= k \/ i = k + 1
      BY <1>1, <2>1
    <3> QED BY ONLY <3>2, <3>3
  <2>2. CASE i > k + 1
    <3>1. i - (k + 1) \in 1..Len(s) - k /\ i - (k + 1) + k = i - 1
      BY <1>1, <2>2
    <3>2. t[i] = b[i - (k + 1)]
      BY <1>1, <1>4, <1>6, <1>7, <2>2
    <3> QED BY <1>1, <1>2, <2>2, <3>1, <3>2
  <2> QED BY <1>1, <2>1, <2>2
<1>9. DOMAIN t = 1..Len(s) + 1
  BY <1>6, <1>7, LenProperties
<1> QED BY <1>6, <1>7, <1>8, <1>9 DEF t

-----------------------------------------------------------------------------
(***************************************************************************)
(* The queue.                                                              *)
(***************************************************************************)
LEMMA PushFacts ==
  ASSUME NEW q \in Seq(Near), Len(q) <= MaxPending, IsInjective(q), NEW c \in Near,
         NEW p, p = Push(q, c)
  PROVE  /\ p \in Seq(Near) /\ Len(p) <= MaxPending /\ IsInjective(p)
         /\ ToSet(q) \subseteq ToSet(p)
<1>1. CASE p = q
  BY <1>1
<1>2. CASE p # q
  <2>1. p = Append(q, c) /\ ~(Len(q) >= MaxPending) /\ c \notin ToSet(q)
    BY <1>2 DEF Push
  <2>2. /\ p \in Seq(Near) /\ Len(p) = Len(q) + 1 /\ DOMAIN p = 1..Len(q) + 1
        /\ \A i \in 1..Len(q) : p[i] = q[i]
        /\ p[Len(q) + 1] = c /\ ToSet(p) = ToSet(q) \cup {c}
    BY ONLY <2>1, OneAppended
  <2>3. Len(q) \in Nat /\ DOMAIN q = 1..Len(q) /\ MaxPending \in Nat
    BY LenProperties, UpdatesAssumption
  <2>4. Len(p) <= MaxPending
    BY <2>1, <2>2, <2>3
  <2>5. \A i \in 1..Len(q) : q[i] # c
    BY <2>1, <2>3 DEF ToSet
  <2>6. ASSUME NEW i \in 1..Len(q) + 1, NEW j \in 1..Len(q) + 1, p[i] = p[j] PROVE i = j
    <3>1. (i \in 1..Len(q) \/ i = Len(q) + 1) /\ (j \in 1..Len(q) \/ j = Len(q) + 1)
      BY <2>3
    <3>2. \A a, b \in 1..Len(q) : q[a] = q[b] => a = b
      BY <2>3 DEF IsInjective
    <3> QED BY ONLY <2>2, <2>5, <2>6, <3>1, <3>2
  <2> QED BY <2>2, <2>4, <2>6 DEF IsInjective
<1> QED BY <1>1, <1>2

\* Nothing the queue had is lost, and of the cells around a change it has each
\* one or is known to have refused it.
LEMMA TouchFacts ==
  ASSUME QueueInv, NEW c \in Cells, Touch(c)
  PROVE  /\ QueueInv' /\ ToSet(waiting) \subseteq ToSet(waiting') /\ missed \subseteq missed'
         /\ {c - 1, c, c + 1} \subseteq ToSet(waiting') \cup missed'
<1> DEFINE p == Push(waiting, c)
           q == Push(p, c - 1)
<1>1. c \in Near /\ c - 1 \in Near /\ c + 1 \in Near
  BY UpdatesAssumption DEF Cells, Near
<1>2. /\ p \in Seq(Near) /\ Len(p) <= MaxPending /\ IsInjective(p)
      /\ ToSet(waiting) \subseteq ToSet(p)
  BY <1>1, PushFacts DEF QueueInv
<1>3. waiting' = Push(q, c + 1) /\ missed' = missed \cup ({c - 1, c, c + 1} \ ToSet(waiting'))
  BY DEF Touch
<1> HIDE DEF p
<1>4. /\ q \in Seq(Near) /\ Len(q) <= MaxPending /\ IsInjective(q) /\ ToSet(p) \subseteq ToSet(q)
  BY <1>1, <1>2, PushFacts
<1> HIDE DEF q
<1>5. /\ waiting' \in Seq(Near) /\ Len(waiting') <= MaxPending /\ IsInjective(waiting')
      /\ ToSet(q) \subseteq ToSet(waiting')
  BY <1>1, <1>3, <1>4, PushFacts
<1>6. missed' \subseteq Near
  BY <1>1, <1>3 DEF QueueInv
<1> QED BY <1>2, <1>3, <1>4, <1>5, <1>6 DEF QueueInv

-----------------------------------------------------------------------------
(***************************************************************************)
(* The schedule.                                                           *)
(***************************************************************************)
Before == {p \in Nat \X Nat : p[1] < p[2]}

LEMMA LeastNumber ==
  ASSUME NEW T, T \subseteq Nat, T # {}
  PROVE  \E n \in T : \A m \in T : n <= m
<1>1. IsWellFoundedOn(Before, Nat)
  BY NatLessThanWellFounded DEF Before, OpToRel
<1>2. PICK n \in T : \A m \in T : <<m, n>> \notin Before
  BY <1>1, WFMin
<1>3. ASSUME NEW m \in T PROVE n <= m
  <2>1. m \in Nat /\ n \in Nat /\ (m < n => <<m, n>> \in Before)
    BY DEF Before
  <2> QED BY <1>2, <2>1
<1> QED BY <1>3

\* What is due by a time is the front of the schedule.
LEMMA DueFirst ==
  ASSUME NEW s \in Seq(Due), InOrder(s), NEW t \in Int,
         NEW k, k = Cardinality({i \in DOMAIN s : s[i].in <= t})
  PROVE  k \in 0..Len(s) /\ \A i \in 1..Len(s) : s[i].in <= t <=> i <= k
<1> DEFINE n == Len(s)
           T == {i \in 1..n + 1 : i = n + 1 \/ ~(s[i].in <= t)}
<1>1. n \in Nat /\ DOMAIN s = 1..n /\ \A i \in 1..n : s[i].in \in Int
  <2>1. n \in Nat /\ DOMAIN s = 1..n /\ \A i \in 1..n : s[i] \in Due
    BY LenProperties
  <2>2. \A d \in Due : d.in \in Int
    BY DEF Due
  <2> QED BY ONLY <2>1, <2>2
<1>2. n + 1 \in T /\ T \subseteq Nat
  BY <1>1
<1>3. PICK m \in T : \A i \in T : m <= i
  BY <1>2, LeastNumber
<1>4. m \in 1..n + 1
  OBVIOUS
<1>5. ASSUME NEW i \in 1..n PROVE s[i].in <= t <=> i < m
  <2>1. CASE i < m
    BY <1>1, <1>3, <1>4, <2>1
  <2>2. CASE i >= m
    <3>1. m \in 1..n /\ ~(s[m].in <= t)
      BY <1>1, <1>4, <2>2
    <3>2. s[m].in <= s[i].in
      BY <1>1, <1>4, <2>2, <3>1 DEF InOrder
    <3> QED BY <1>1, <1>4, <2>2, <3>1, <3>2
  <2> QED BY <1>1, <1>4, <2>1, <2>2
<1>6. {i \in DOMAIN s : s[i].in <= t} = 1..m - 1
  BY <1>1, <1>4, <1>5
<1>7. m - 1 \in Nat /\ m - 1 \in 0..n
  BY <1>1, <1>4
<1>8. Cardinality(1..m - 1) = m - 1
  <2>1. 1 \in Int /\ m - 1 \in Int
    BY <1>7
  <2>2. Cardinality(1..m - 1) = IF 1 > m - 1 THEN 0 ELSE (m - 1) - 1 + 1
    BY ONLY <2>1, FS_Interval
  <2> QED BY <1>7, <2>2
<1>9. k = m - 1
  BY <1>6, <1>8
<1>10. ASSUME NEW i \in 1..n PROVE i < m <=> i <= k
  BY <1>1, <1>4, <1>9
<1>11. k \in 0..n
  BY <1>7, <1>9
<1> HIDE DEF T
<1> QED BY ONLY <1>5, <1>10, <1>11

\* A cell put on the schedule is on it, and it stays in order.
LEMMA PlanFacts ==
  ASSUME ScheduleInv, NEW c \in Near, NEW delay \in Int, Plan(c, delay)
  PROVE  ScheduleInv' /\ Scheduled' = Scheduled \cup {c}
<1> DEFINE n == Len(schedule)
           k == Cardinality({i \in DOMAIN schedule : schedule[i].in <= delay})
           e == [in |-> delay, cell |-> c]
<1>1. CASE c \in Scheduled
  BY <1>1 DEF Plan, ScheduleInv, Scheduled
<1>2. CASE c \notin Scheduled
  <2>1. /\ schedule \in Seq(Due) /\ InOrder(schedule) /\ n \in Nat /\ DOMAIN schedule = 1..n
        /\ e \in Due /\ \A i \in 1..n : schedule[i] \in Due
    BY LenProperties DEF ScheduleInv, Due
  <2>2. schedule' = InsertAt(schedule, k + 1, e)
    BY <1>2 DEF Plan
  <2>3. k \in 0..n /\ \A i \in 1..n : schedule[i].in <= delay <=> i <= k
    BY <2>1, DueFirst
  <2>4. e.in = delay /\ e.cell = c
    OBVIOUS
  <2> HIDE DEF k, e
  <2>5. /\ schedule' \in Seq(Due) /\ Len(schedule') = n + 1 /\ DOMAIN schedule' = 1..n + 1
        /\ \A i \in 1..n + 1 : schedule'[i] =
             IF i <= k THEN schedule[i] ELSE IF i = k + 1 THEN e ELSE schedule[i - 1]
    <3> DEFINE t == InsertAt(schedule, k + 1, e)
    <3>1. schedule \in Seq(Due) /\ k \in 0..Len(schedule) /\ e \in Due
      BY <2>1, <2>3
    <3>2. /\ t \in Seq(Due) /\ Len(t) = n + 1 /\ DOMAIN t = 1..n + 1
          /\ \A i \in 1..n + 1 : t[i] =
               IF i <= k THEN schedule[i] ELSE IF i = k + 1 THEN e ELSE schedule[i - 1]
      BY ONLY <3>1, OneInserted
    <3> HIDE DEF t, n
    <3> QED BY ONLY <2>2, <3>2 DEF t
  <2>6. \A i \in 1..n : schedule[i].cell # c
    BY <1>2, <2>1 DEF Scheduled
  <2> HIDE DEF n
  <2>7. ASSUME NEW i \in 1..n + 1, NEW j \in 1..n + 1, i < j
        PROVE  schedule'[i].in <= schedule'[j].in /\ schedule'[i].cell # schedule'[j].cell
    <3>0. \A a, b \in 1..n : a < b => schedule[a].in <= schedule[b].in
                                       /\ schedule[a].cell # schedule[b].cell
      BY <2>1 DEF InOrder
    <3>1. \A a \in 1..n : schedule[a].in \in Int
      BY <2>1 DEF Due
    <3>2. CASE j <= k
      <4>1. i \in 1..n /\ j \in 1..n /\ schedule'[i] = schedule[i] /\ schedule'[j] = schedule[j]
        BY <2>1, <2>3, <2>5, <2>7, <3>2
      <4> QED BY <2>7, <3>0, <4>1
    <3>3. CASE j = k + 1
      <4>1. i \in 1..n /\ i <= k /\ schedule'[i] = schedule[i] /\ schedule'[j] = e
        BY <2>1, <2>3, <2>5, <2>7, <3>3
      <4> QED BY <2>3, <2>4, <2>6, <4>1
    <3>4. CASE j > k + 1 /\ i = k + 1
      <4>1. j - 1 \in 1..n /\ ~(j - 1 <= k) /\ schedule'[i] = e /\ schedule'[j] = schedule[j - 1]
        BY <2>1, <2>3, <2>5, <2>7, <3>4
      <4> QED BY <2>3, <2>4, <2>6, <3>1, <4>1
    <3>5. CASE j > k + 1 /\ i <= k
      <4>1. /\ i \in 1..n /\ j - 1 \in 1..n /\ i < j - 1
            /\ schedule'[i] = schedule[i] /\ schedule'[j] = schedule[j - 1]
        BY <2>1, <2>3, <2>5, <2>7, <3>5
      <4> QED BY <3>0, <4>1
    <3>6. CASE j > k + 1 /\ i > k + 1
      <4>1. /\ i - 1 \in 1..n /\ j - 1 \in 1..n /\ i - 1 < j - 1
            /\ schedule'[i] = schedule[i - 1] /\ schedule'[j] = schedule[j - 1]
        BY <2>1, <2>3, <2>5, <2>7, <3>6
      <4> QED BY <3>0, <4>1
    <3> QED BY <2>1, <2>3, <3>2, <3>3, <3>4, <3>5, <3>6
  <2>8. Scheduled' = Scheduled \cup {c}
    <3>1. ASSUME NEW i \in 1..n + 1 PROVE schedule'[i].cell \in Scheduled \cup {c}
      <4>1. CASE i <= k
        BY <2>1, <2>3, <2>5, <4>1 DEF Scheduled
      <4>2. CASE i = k + 1
        BY <2>3, <2>4, <2>5, <4>2
      <4>3. CASE i > k + 1
        <5>1. i - 1 \in 1..n /\ schedule'[i] = schedule[i - 1]
          BY <2>1, <2>3, <2>5, <4>3
        <5> QED BY <2>1, <5>1 DEF Scheduled
      <4> QED BY <2>1, <2>3, <4>1, <4>2, <4>3
    <3>2. ASSUME NEW i \in 1..n PROVE \E j \in 1..n + 1 : schedule'[j] = schedule[i]
      <4>1. CASE i <= k
        BY <2>1, <2>3, <2>5, <4>1
      <4>2. CASE i > k
        <5>1. i + 1 \in 1..n + 1 /\ ~(i + 1 <= k) /\ i + 1 # k + 1 /\ (i + 1) - 1 = i
          BY <2>1, <2>3, <4>2
        <5>2. schedule'[i + 1] = schedule[i]
          BY ONLY <2>5, <5>1
        <5> QED BY <5>1, <5>2
      <4> QED BY <2>1, <2>3, <4>1, <4>2
    <3>3. k + 1 \in 1..n + 1 /\ schedule'[k + 1] = e
      BY <2>1, <2>3, <2>5
    <3>4. Scheduled' = {schedule'[i].cell : i \in 1..n + 1}
      BY <2>5 DEF Scheduled
    <3>5. Scheduled = {schedule[i].cell : i \in 1..n}
      BY <2>1 DEF Scheduled
    <3>6. Scheduled' \subseteq Scheduled \cup {c}
      BY ONLY <3>1, <3>4
    <3>7. Scheduled \cup {c} \subseteq Scheduled'
      BY ONLY <2>4, <3>2, <3>3, <3>4, <3>5
    <3> QED BY <3>6, <3>7
  <2> QED BY <2>5, <2>7, <2>8 DEF ScheduleInv, InOrder
<1> QED BY <1>1, <1>2

-----------------------------------------------------------------------------
(***************************************************************************)
(* The rules.                                                              *)
(***************************************************************************)
LEMMA StateFacts ==
  /\ Air \in State /\ ~Falls(Air)
  /\ \A s \in State : FromLog(s) \in 0..Reach
  /\ \A s \in State : IsLeaf(s) => ~Falls(s)
  /\ \A s \in State, d \in 1..Reach : IsLeaf(s) =>
       [s EXCEPT !.far = d] \in State /\ ~Falls([s EXCEPT !.far = d])
<1>1. Air \in State /\ ~Falls(Air)
  BY DEF Air, Plain, State, Falls
<1>2. ASSUME NEW s \in State PROVE FromLog(s) \in 0..Reach
  <2>1. Reach \in Nat /\ (s.kind = "leaf" => s.far \in 1..Reach)
    BY UpdatesAssumption DEF State
  <2>2. CASE s.kind = "leaf"
    BY <2>1, <2>2 DEF FromLog
  <2>3. CASE s.kind # "leaf"
    BY <2>1, <2>3 DEF FromLog
  <2> QED BY <2>2, <2>3
<1>3. \A s \in State : IsLeaf(s) => ~Falls(s)
  BY DEF IsLeaf, Falls
<1>4. ASSUME NEW s \in State, NEW d \in 1..Reach, IsLeaf(s)
      PROVE  [s EXCEPT !.far = d] \in State /\ ~Falls([s EXCEPT !.far = d])
  <2>1. s \in [kind : {"leaf"}, far : 1..Reach, kept : BOOLEAN]
    BY <1>4 DEF State, IsLeaf
  <2>2. /\ [s EXCEPT !.far = d] \in [kind : {"leaf"}, far : 1..Reach, kept : BOOLEAN]
        /\ [s EXCEPT !.far = d].kind = "leaf"
    BY <2>1
  <2> QED BY <2>2 DEF State, Falls
<1> QED BY <1>1, <1>2, <1>3, <1>4

LEMMA ReactionFacts ==
  ASSUME NEW c
  PROVE  /\ Reaction(c) \in {"break", "fall", "relabel", "decay", "stay"}
         /\ Reaction(c) = "break" => ~Falls(world[c])
         /\ Reaction(c) = "fall" => Falls(world[c])
         /\ Reaction(c) \in {"relabel", "decay"} => IsLeaf(world[c]) /\ ~Falls(world[c])
<1>1. ~Survives(c) => ~Falls(world[c])
  BY DEF Survives, SurvivesAlone, Falls
<1>2. IsLeaf(world[c]) => ~Falls(world[c])
  BY DEF IsLeaf, Falls
<1> QED BY <1>1, <1>2 DEF Reaction

\* A new label is one a leaf can have.
LEMMA LabelFacts ==
  ASSUME world \in [Cells -> State], NEW c \in Cells, Around(c) \subseteq Cells
  PROVE  LeafDistance(c) \in 1..Reach
<1> DEFINE a == FromLog(world[c - 1]) + 1
           b == FromLog(world[c + 1]) + 1
           T == {Reach} \cup {FromLog(world[n]) + 1 : n \in Around(c)}
<1>1. a \in 1..Reach + 1 /\ b \in 1..Reach + 1 /\ Reach \in Nat \ {0}
  <2>1. world[c - 1] \in State /\ world[c + 1] \in State
    BY DEF Around
  <2>2. FromLog(world[c - 1]) \in 0..Reach /\ FromLog(world[c + 1]) \in 0..Reach
    BY <2>1, StateFacts
  <2> QED BY <2>2, UpdatesAssumption
<1>2. T = {Reach, a, b}
  BY DEF Around
<1> HIDE DEF a, b
<1>3. \E x \in {Reach, a, b} : \A y \in {Reach, a, b} : x <= y
  BY ONLY <1>1
<1>4. LeafDistance(c) = CHOOSE x \in {Reach, a, b} : \A y \in {Reach, a, b} : x <= y
  BY ONLY <1>2 DEF LeafDistance, Min
<1> DEFINE d == LeafDistance(c)
<1>5. d \in {Reach, a, b} /\ \A y \in {Reach, a, b} : d <= y
  BY ONLY <1>3, <1>4
<1> HIDE DEF d
<1>6. d \in 1..Reach
  BY ONLY <1>1, <1>5
<1> QED BY <1>6 DEF d

\* A cell's state is the business of the cells around it and of no other.
LEMMA FarStable ==
  ASSUME world \in [Cells -> State], NEW d \in Cells, NEW s, world' = [world EXCEPT ![d] = s],
         NEW c \in Cells, c \notin {d - 1, d, d + 1}, Stable(c)
  PROVE  Stable(c)'
<1>1. d \in Int /\ c \in Int
  BY UpdatesAssumption DEF Cells
<1>2. world'[c] = world[c] /\ d \notin Around(c)
  BY <1>1 DEF Around
<1>3. CASE ~(CanLook(c) /\ Reacts(world[c]))
  BY <1>2, <1>3 DEF Stable, CanLook
<1>4. CASE CanLook(c) /\ Reacts(world[c])
  <2>1. Reaction(c) = "stay" /\ Around(c) \subseteq Cells
    BY <1>4 DEF Stable, CanLook
  <2>2. \A n \in Around(c) : world'[n] = world[n]
    BY <1>2, <2>1
  <2>3. {FromLog(world'[n]) + 1 : n \in Around(c)} = {FromLog(world[n]) + 1 : n \in Around(c)}
    BY <2>2
  <2>4. LeafDistance(c)' = LeafDistance(c)
    BY <2>3 DEF LeafDistance
  <2>5. Below(c)' = Below(c)
    BY <2>2 DEF Below, Around
  <2>6. Survives(c)' = Survives(c)
    BY <1>2, <2>5 DEF Survives
  <2>7. Reaction(c)' = Reaction(c)
    BY <1>2, <2>4, <2>5, <2>6 DEF Reaction
  <2> QED BY <2>1, <2>7 DEF Stable
<1> QED BY <1>3, <1>4

LEMMA SameStable ==
  ASSUME world' = world, NEW c
  PROVE  Stable(c)' = Stable(c)
BY DEF Stable, CanLook, Around, Reaction, Survives, Below, LeafDistance

\* Writing a cell gains what sand is put there and loses what sand was.
LEMMA SandChange ==
  ASSUME NEW w \in [Cells -> State], NEW c \in Cells, NEW s, NEW v, v = [w EXCEPT ![c] = s]
  PROVE  /\ SandIn(w) \in Nat /\ SandIn(v) \in Nat
         /\ SandIn(v) = (SandIn(w) - Sand(w[c])) + Sand(s)
<1> DEFINE A == {d \in Cells : Falls(w[d])}
           B == {d \in Cells : Falls(v[d])}
<1>1. IsFiniteSet(A) /\ IsFiniteSet(B)
  <2>1. 0 \in Int /\ Height - 1 \in Int
    BY UpdatesAssumption
  <2>2. IsFiniteSet(Cells)
    BY ONLY <2>1, FS_Interval DEF Cells
  <2> QED BY <2>2, FS_Subset
<1>2. \A d \in Cells : v[d] = IF d = c THEN s ELSE w[d]
  OBVIOUS
<1>3. A \ {c} = B \ {c}
  BY <1>2
<1>4. (c \in A <=> Falls(w[c])) /\ (c \in B <=> Falls(s))
  BY <1>2
<1>5. SandIn(w) = Cardinality(A) /\ SandIn(v) = Cardinality(B)
  BY DEF SandIn
<1> HIDE DEF A, B
<1>6. /\ Cardinality(A) \in Nat /\ Cardinality(B) \in Nat
      /\ Cardinality(A \ {c}) = IF c \in A THEN Cardinality(A) - 1 ELSE Cardinality(A)
      /\ Cardinality(B \ {c}) = IF c \in B THEN Cardinality(B) - 1 ELSE Cardinality(B)
  BY <1>1, FS_CardinalityType, FS_RemoveElement
<1>7. /\ Sand(w[c]) = IF c \in A THEN 1 ELSE 0
      /\ Sand(s) = IF c \in B THEN 1 ELSE 0
  BY <1>4 DEF Sand
<1>8. CASE c \in A
  BY ONLY <1>3, <1>5, <1>6, <1>7, <1>8
<1>9. CASE c \notin A
  BY ONLY <1>3, <1>5, <1>6, <1>7, <1>9
<1> QED BY <1>8, <1>9

-----------------------------------------------------------------------------
(***************************************************************************)
(* The ticker's place.                                                     *)
(***************************************************************************)
LEMMA AtFacts ==
  ASSUME TickInv, tick.batch # <<>>
  PROVE  /\ At = tick.batch[1] /\ At \in Near /\ Tail(tick.batch) \in Seq(Near)
         /\ ToSet(tick.batch) \subseteq {At} \cup ToSet(Tail(tick.batch)) /\ At \in ToSet(tick.batch)
         /\ tick.at \in {"due", "examine", "panicked"}
         /\ tick.doing # "look" => At \in Cells
<1>1. /\ tick.batch \in Seq(Near)
      /\ tick.at \in {"idle", "fall", "land", "due", "examine", "panicked"}
  BY DEF TickInv, TickState
<1>2. /\ Head(tick.batch) = tick.batch[1] /\ tick.batch[1] \in Near /\ Tail(tick.batch) \in Seq(Near)
      /\ 1 \in DOMAIN tick.batch
      /\ ToSet(tick.batch) \subseteq {tick.batch[1]} \cup ToSet(Tail(tick.batch))
  BY <1>1, FirstTaken
<1>3. tick.at \in {"due", "examine", "panicked"} /\ (tick.doing # "look" => tick.batch[1] \in Cells)
  BY <1>1 DEF TickInv
<1> QED BY <1>2, <1>3 DEF At, ToSet

\* The step to the next cell of the batch.
LEMMA NextCellFacts ==
  ASSUME TickInv, tick.batch # <<>>, NextCell
  PROVE  /\ TickInv' /\ tick'.at = tick.at /\ tick'.doing = "look"
         /\ ToSet(tick.batch) \subseteq {At} \cup ToSet(tick'.batch)
<1>1. /\ Tail(tick.batch) \in Seq(Near) /\ tick.at \in {"due", "examine", "panicked"}
      /\ ToSet(tick.batch) \subseteq {At} \cup ToSet(Tail(tick.batch))
  BY AtFacts
<1>2. tick \in TickState
  BY DEF TickInv
<1>3. tick' = [tick EXCEPT !.batch = Tail(tick.batch), !.doing = "look", !.saw = Air]
  BY DEF NextCell
<1>4. /\ tick' \in TickState /\ tick'.at = tick.at /\ tick'.doing = "look"
      /\ tick'.batch = Tail(tick.batch)
  BY ONLY <1>1, <1>2, <1>3, StateFacts DEF TickState
<1> QED BY <1>1, <1>4 DEF TickInv

\* The step from a look to what is done about it.
LEMMA DoingFacts ==
  ASSUME TickInv, tick.at \in {"due", "examine"}, tick.batch # <<>>, At \in Cells,
         NEW what \in {"topple", "launch", "clear", "relabel"}, NEW saw \in State, NEW next \in State,
         tick' = [tick EXCEPT !.doing = what, !.saw = saw, !.next = next],
         Falls(saw) <=> what \in {"launch", "clear"}, ~Falls(next) \/ what # "relabel"
  PROVE  TickInv' /\ tick'.batch = tick.batch /\ tick'.at = tick.at
<1>1. tick \in TickState /\ At = tick.batch[1]
  BY AtFacts DEF TickInv
<1>2. /\ tick' \in TickState /\ tick'.batch = tick.batch /\ tick'.at = tick.at
      /\ tick'.doing = what /\ tick'.saw = saw /\ tick'.next = next
  BY ONLY <1>1, what \in {"topple", "launch", "clear", "relabel"}, saw \in State, next \in State,
          tick' = [tick EXCEPT !.doing = what, !.saw = saw, !.next = next] DEF TickState
<1> QED BY <1>1, <1>2 DEF TickInv

\* A look: what it saw in the cell, where the cell is after it, and that what
\* was left alone may be left alone.
LEMMA LookFacts ==
  ASSUME UpdatesInv, Look
  PROVE  /\ TickInv' /\ ScheduleInv' /\ tick'.doing # "clear"
         /\ Scheduled \subseteq Scheduled'
         /\ ToSet(tick.batch) \subseteq {At} \cup ToSet(tick'.batch)
         /\ Stable(At) \/ At \in ToSet(tick'.batch) \cup Scheduled'
<1>1. /\ tick.at \in {"due", "examine"} /\ tick.batch # <<>> /\ tick.doing = "look" /\ CanLook(At)
      /\ TickInv /\ ScheduleInv /\ world \in [Cells -> State] /\ tick \in TickState
  BY DEF Look, UpdatesInv, TickInv, WorldInv
<1>2. At \in Cells /\ (Reacts(world[At]) => Around(At) \subseteq Cells) /\ world[At] \in State
  BY <1>1 DEF CanLook
<1>3. At \in Near /\ At \in ToSet(tick.batch)
  BY <1>1, AtFacts
<1> DEFINE reaction == IF Reacts(world[At]) THEN Reaction(At) ELSE "stay"
<1>4. /\ reaction = "break" => ~Falls(world[At])
      /\ reaction = "fall" => Falls(world[At])
      /\ reaction \in {"relabel", "decay"} =>
           IsLeaf(world[At]) /\ ~Falls(world[At]) /\ Reacts(world[At])
  BY ReactionFacts
<1>5. \/ reaction = "stay" /\ NextCell /\ UNCHANGED schedule
      \/ /\ reaction = "break" \/ (reaction = "decay" /\ tick.at = "due")
         /\ Does("topple") /\ UNCHANGED schedule
      \/ reaction = "fall" /\ Does("launch") /\ UNCHANGED schedule
      \/ /\ reaction = "relabel" /\ UNCHANGED schedule
         /\ tick' = [tick EXCEPT !.doing = "relabel", !.saw = world[At],
                                 !.next = [world[At] EXCEPT !.far = LeafDistance(At)]]
      \/ /\ reaction \in {"fall", "decay"} /\ NextCell
         /\ \E delay \in Int : Plan(At, delay)
  <2>1. FallDelay \in Int /\ 1..DecayHorizon \subseteq Int
    BY UpdatesAssumption
  <2> HIDE DEF reaction
  <2>2. \/ reaction = "stay" /\ NextCell /\ UNCHANGED schedule
        \/ /\ reaction = "break" \/ (reaction = "decay" /\ tick.at = "due")
           /\ Does("topple") /\ UNCHANGED schedule
        \/ reaction = "fall" /\ tick.at = "due" /\ Does("launch") /\ UNCHANGED schedule
        \/ /\ reaction = "relabel"
           /\ tick' = [tick EXCEPT !.doing = "relabel", !.saw = world[At],
                                   !.next = [world[At] EXCEPT !.far = LeafDistance(At)]]
           /\ UNCHANGED schedule
        \/ reaction = "fall" /\ tick.at = "examine" /\ Plan(At, FallDelay) /\ NextCell
        \/ /\ reaction = "decay" /\ tick.at = "examine"
           /\ \E delay \in 1..DecayHorizon : Plan(At, delay)
           /\ NextCell
    BY DEF Look, reaction
  <2> QED BY ONLY <2>1, <2>2
<1>6. tick.saw \in State /\ tick.next \in State
  BY <1>1 DEF TickState
<1>7. ASSUME NEW what \in {"topple", "launch"}, Does(what), UNCHANGED schedule,
             Falls(world[At]) <=> what = "launch"
      PROVE  /\ TickInv' /\ ScheduleInv' /\ tick'.doing # "clear" /\ Scheduled' = Scheduled
             /\ tick'.batch = tick.batch
  <2>1. tick' = [tick EXCEPT !.doing = what, !.saw = world[At], !.next = tick.next]
    BY ONLY <1>1, <1>7 DEF Does, TickState
  <2>2. TickInv' /\ tick'.batch = tick.batch
    BY <1>1, <1>2, <1>6, <1>7, <2>1, DoingFacts
  <2>3. tick'.doing = what
    BY ONLY <1>1, <2>1 DEF TickState
  <2> QED BY <1>1, <1>7, <2>2, <2>3 DEF ScheduleInv, Scheduled
<1> HIDE DEF reaction
<1>8. CASE reaction = "stay" /\ NextCell /\ UNCHANGED schedule
  <2>1. TickInv' /\ tick'.doing = "look" /\ ToSet(tick.batch) \subseteq {At} \cup ToSet(tick'.batch)
    BY <1>1, <1>8, NextCellFacts
  <2>2. Stable(At)
    BY <1>8 DEF reaction, Stable
  <2> QED BY <1>1, <1>8, <2>1, <2>2 DEF ScheduleInv, Scheduled
<1>9. CASE /\ reaction = "break" \/ (reaction = "decay" /\ tick.at = "due")
           /\ Does("topple") /\ UNCHANGED schedule
  BY <1>3, <1>4, <1>7, <1>9
<1>10. CASE reaction = "fall" /\ Does("launch") /\ UNCHANGED schedule
  BY <1>3, <1>4, <1>7, <1>10
<1>11. CASE /\ reaction = "relabel" /\ UNCHANGED schedule
            /\ tick' = [tick EXCEPT !.doing = "relabel", !.saw = world[At],
                                    !.next = [world[At] EXCEPT !.far = LeafDistance(At)]]
  <2> DEFINE next == [world[At] EXCEPT !.far = LeafDistance(At)]
  <2>1. LeafDistance(At) \in 1..Reach /\ IsLeaf(world[At]) /\ ~Falls(world[At])
    BY <1>1, <1>2, <1>4, <1>11, LabelFacts
  <2>2. next \in State /\ ~Falls(next)
    BY <1>2, <2>1, StateFacts
  <2> HIDE DEF next
  <2>3. tick' = [tick EXCEPT !.doing = "relabel", !.saw = world[At], !.next = next]
    BY <1>11 DEF next
  <2>4. TickInv' /\ tick'.batch = tick.batch
    BY <1>1, <1>2, <2>1, <2>2, <2>3, DoingFacts
  <2>5. tick'.doing = "relabel"
    BY ONLY <1>1, <2>3 DEF TickState
  <2> QED BY <1>1, <1>3, <1>11, <2>4, <2>5 DEF ScheduleInv, Scheduled
<1>12. CASE /\ reaction \in {"fall", "decay"} /\ NextCell
            /\ \E delay \in Int : Plan(At, delay)
  <2>1. TickInv' /\ tick'.doing = "look" /\ ToSet(tick.batch) \subseteq {At} \cup ToSet(tick'.batch)
    BY <1>1, <1>12, NextCellFacts
  <2>2. ScheduleInv' /\ Scheduled' = Scheduled \cup {At}
    BY <1>1, <1>3, <1>12, PlanFacts
  <2> QED BY <2>1, <2>2
<1> QED BY ONLY <1>5, <1>8, <1>9, <1>10, <1>11, <1>12

-----------------------------------------------------------------------------
(***************************************************************************)
(* The queue and the schedule, step by step.                               *)
(***************************************************************************)
\* What the ticker is doing is to a cell of the world.
LEMMA DoingCell ==
  ASSUME UpdatesInv, tick.doing # "look"
  PROVE  At \in Cells /\ tick.batch # <<>> /\ tick.at \in {"due", "examine"}
<1>1. TickInv /\ tick.batch # <<>> /\ tick.at \in {"due", "examine"}
  BY DEF UpdatesInv, TickInv
<1> QED BY <1>1, AtFacts

\* A landing is in the world, and a call is for a cell of it.
LEMMA LandingCell ==
  ASSUME UpdatesInv, landed # <<>>
  PROVE  /\ Head(landed) \in Landing /\ Falls(Head(landed).state) /\ Head(landed).cell \in Cells
         /\ Head(landed).state \in State
         /\ Tail(landed) \in Seq({l \in Landing : Falls(l.state)})
         /\ Len(Tail(landed)) = Len(landed) - 1 /\ Len(landed) \in Nat
<1>1. landed \in Seq({l \in Landing : Falls(l.state)})
  BY DEF UpdatesInv, AirInv
<1>2. /\ Head(landed) \in {l \in Landing : Falls(l.state)}
      /\ Tail(landed) \in Seq({l \in Landing : Falls(l.state)})
      /\ Len(Tail(landed)) = Len(landed) - 1
  BY <1>1, HeadTailProperties
<1>3. Len(landed) \in Nat
  BY <1>1, LenProperties
<1> QED BY <1>2, <1>3 DEF Landing

LEMMA CallCell ==
  ASSUME UpdatesInv, player.at \in {"write", "touch"}
  PROVE  player \in Calling /\ player.cell \in Cells
<1>1. player \in {Idle} \cup Calling
  BY DEF UpdatesInv, WorldInv
<1>2. player # Idle
  BY DEF Idle
<1> QED BY <1>1, <1>2 DEF Calling

\* How many the ticker takes off the queue.
LEMMA TakenCount ==
  ASSUME QueueInv
  PROVE  Min({Len(waiting), PerTick}) \in 0..Len(waiting)
<1> DEFINE n == Min({Len(waiting), PerTick})
<1>1. PerTick \in Nat /\ Len(waiting) \in Nat
  BY UpdatesAssumption, LenProperties DEF QueueInv
<1>2. \E x \in {Len(waiting), PerTick} : \A y \in {Len(waiting), PerTick} : x <= y
  BY ONLY <1>1
<1>3. n \in {Len(waiting), PerTick} /\ \A y \in {Len(waiting), PerTick} : n <= y
  BY ONLY <1>2 DEF Min
<1> QED BY ONLY <1>1, <1>3

LEMMA QueueStep == ASSUME UpdatesInv, [UpdatesNext]_updateVars PROVE QueueInv'
<1>0. QueueInv /\ ScheduleInv /\ waiting \in Seq(Near) /\ IsInjective(waiting) /\ missed \subseteq Near
      /\ Len(waiting) <= MaxPending /\ Len(waiting) \in Nat /\ MaxPending \in Nat
  BY LenProperties, UpdatesAssumption DEF UpdatesInv, QueueInv
<1>1. ASSUME UNCHANGED <<waiting, missed>> PROVE QueueInv'
  BY <1>0, <1>1 DEF QueueInv
<1>2. CASE Land
  <2>1. Head(landed).cell \in Cells
    BY <1>2, LandingCell DEF Land
  <2>2. Touch(Head(landed).cell) \/ UNCHANGED <<waiting, missed>>
    BY <1>2 DEF Land
  <2> QED BY <1>0, <1>1, <2>1, <2>2, TouchFacts
<1>3. CASE TakeUpdates
  <2> DEFINE n == Min({Len(waiting), PerTick})
             rest == SubSeq(waiting, n + 1, Len(waiting))
  <2>1. n \in 0..Len(waiting)
    BY <1>0, TakenCount
  <2>2. waiting' = rest /\ missed' = missed
    BY <1>3 DEF TakeUpdates
  <2> HIDE DEF n
  <2>3. /\ rest \in Seq(Near) /\ Len(rest) = Len(waiting) - n
        /\ \A i \in 1..Len(waiting) - n : rest[i] = waiting[i + n]
    BY <1>0, <2>1, FrontTaken
  <2> HIDE DEF rest
  <2>4. DOMAIN rest = 1..Len(waiting) - n /\ DOMAIN waiting = 1..Len(waiting)
    BY <1>0, <2>3, LenProperties
  <2>5. IsInjective(rest)
    <3>1. ASSUME NEW i \in 1..Len(waiting) - n, NEW j \in 1..Len(waiting) - n, rest[i] = rest[j]
          PROVE  i = j
      <4>1. i + n \in 1..Len(waiting) /\ j + n \in 1..Len(waiting)
        BY <1>0, <2>1
      <4>2. waiting[i + n] = waiting[j + n]
        BY <2>3, <3>1
      <4>3. i + n = j + n
        BY <1>0, <2>4, <4>1, <4>2 DEF IsInjective
      <4> QED BY <2>1, <4>3
    <3> QED BY <2>4, <3>1 DEF IsInjective
  <2>6. Len(rest) <= MaxPending
    BY <1>0, <2>1, <2>3
  <2> QED BY <1>0, <2>2, <2>3, <2>5, <2>6 DEF QueueInv
<1>4. CASE Look
  BY <1>0, <1>4 DEF Look, QueueInv
<1>5. CASE Topple \/ Relabel \/ Clear
  <2>1. Touch(At) /\ tick.doing # "look"
    BY <1>5 DEF Topple, Relabel, Clear
  <2> QED BY <1>0, <2>1, DoingCell, TouchFacts
<1>6. CASE PlayerQueues
  <2>1. Touch(player.cell) /\ player.at = "touch"
    BY <1>6 DEF PlayerQueues
  <2> QED BY <1>0, <2>1, CallCell, TouchFacts
<1>7. CASE Restart
  <2>1. waiting' = <<>> /\ missed' = missed \cup ToSet(waiting) \cup Scheduled
    BY <1>7 DEF Restart
  <2>2. ToSet(waiting) \subseteq Near
    BY <1>0, LenProperties DEF ToSet
  <2>3. \A i \in DOMAIN schedule : schedule[i] \in Due
    BY <1>0, LenProperties DEF ScheduleInv
  <2>4. Scheduled \subseteq Near
    BY <2>3 DEF Scheduled, Due
  <2>5. <<>> \in Seq(Near) /\ Len(<<>>) = 0 /\ IsInjective(<<>>)
    BY EmptySeq DEF IsInjective
  <2> QED BY <1>0, <2>1, <2>2, <2>4, <2>5 DEF QueueInv
<1>8. TickBegins \/ FallOne \/ FallsDone \/ TakeDue \/ TickEnds \/ LookOutside \/ Launch
        \/ PlayerBegins \/ PlayerWrites \/ UNCHANGED updateVars
      => UNCHANGED <<waiting, missed>>
  BY DEF TickBegins, FallOne, FallsDone, TakeDue, TickEnds, LookOutside, Launch, PlayerBegins, Dig,
         Place, Calls, PlayerWrites, updateVars
<1> QED BY <1>1, <1>2, <1>3, <1>4, <1>5, <1>6, <1>7, <1>8 DEF UpdatesNext, TickStep, PlayerGoesOn

\* Taking what is due leaves the rest in order.
LEMMA TakeDueFacts ==
  ASSUME ScheduleInv, NEW due, due = Cardinality({i \in DOMAIN schedule : schedule[i].in <= 0}),
         schedule' = SubSeq(schedule, due + 1, Len(schedule)),
         NEW taken, taken = [i \in 1..due |-> schedule[i].cell]
  PROVE  /\ ScheduleInv' /\ taken \in Seq(Near) /\ Scheduled = ToSet(taken) \cup Scheduled'
<1>1. schedule \in Seq(Due) /\ InOrder(schedule)
  BY DEF ScheduleInv
<1>2. due \in 0..Len(schedule)
  <2>1. 0 \in Int
    OBVIOUS
  <2> QED BY <1>1, <2>1, DueFirst
<1>3. Len(schedule) \in Nat /\ DOMAIN schedule = 1..Len(schedule)
      /\ \A i \in 1..Len(schedule) : schedule[i] \in Due
  BY <1>1, LenProperties
<1>4. /\ schedule' \in Seq(Due) /\ Len(schedule') = Len(schedule) - due
      /\ \A i \in 1..Len(schedule) - due : schedule'[i] = schedule[i + due]
  BY <1>1, <1>2, FrontTaken
<1>5. DOMAIN schedule' = 1..Len(schedule) - due
  BY <1>4, LenProperties
<1>6. InOrder(schedule)'
  <2>1. ASSUME NEW i \in 1..Len(schedule) - due, NEW j \in 1..Len(schedule) - due, i < j
        PROVE  schedule'[i].in <= schedule'[j].in /\ schedule'[i].cell # schedule'[j].cell
    <3>1. i + due \in 1..Len(schedule) /\ j + due \in 1..Len(schedule) /\ i + due < j + due
      BY <1>2, <1>3, <2>1
    <3>2. schedule'[i] = schedule[i + due] /\ schedule'[j] = schedule[j + due]
      BY <1>4
    <3> QED BY <1>1, <1>3, <3>1, <3>2 DEF InOrder
  <2> QED BY ONLY <1>5, <2>1 DEF InOrder
<1>7. \A i \in 1..due : i \in 1..Len(schedule) /\ schedule[i].cell \in Near
  BY <1>2, <1>3 DEF Due
<1>8. taken \in Seq(Near) /\ DOMAIN taken = 1..due /\ \A i \in 1..due : taken[i] = schedule[i].cell
  <2>1. due \in Nat
    BY ONLY <1>2, <1>3
  <2>2. taken = [i \in 1..due |-> schedule[i].cell]
    OBVIOUS
  <2>3. taken \in [1..due -> Near]
    BY ONLY <1>7, <2>2
  <2> QED BY ONLY <2>1, <2>2, <2>3
<1>9. Scheduled \subseteq ToSet(taken) \cup Scheduled'
  <2>1. ASSUME NEW i \in 1..Len(schedule)
        PROVE  schedule[i].cell \in ToSet(taken) \cup Scheduled'
    <3>1. CASE i <= due
      <4>1. i \in 1..due
        BY ONLY <1>2, <1>3, <2>1, <3>1
      <4> QED BY ONLY <1>8, <4>1 DEF ToSet
    <3>2. CASE i > due
      <4>1. i - due \in 1..Len(schedule) - due /\ (i - due) + due = i
        BY ONLY <1>2, <1>3, <2>1, <3>2
      <4>2. schedule'[i - due] = schedule[i]
        BY ONLY <1>4, <4>1
      <4> QED BY ONLY <1>5, <4>1, <4>2 DEF Scheduled
    <3>3. i <= due \/ i > due
      BY ONLY <1>2, <1>3, <2>1
    <3> QED BY ONLY <3>1, <3>2, <3>3
  <2> QED BY ONLY <1>3, <2>1 DEF Scheduled
<1>10. ToSet(taken) \cup Scheduled' \subseteq Scheduled
  <2>1. ToSet(taken) \subseteq Scheduled
    BY <1>3, <1>7, <1>8 DEF ToSet, Scheduled
  <2>2. \A i \in 1..Len(schedule) - due : i + due \in 1..Len(schedule)
    BY ONLY <1>2, <1>3
  <2>3. Scheduled' \subseteq Scheduled
    BY ONLY <1>3, <1>4, <1>5, <2>2 DEF Scheduled
  <2> QED BY <2>1, <2>3
<1> QED BY <1>4, <1>6, <1>8, <1>9, <1>10 DEF ScheduleInv

LEMMA ScheduleStep == ASSUME UpdatesInv, [UpdatesNext]_updateVars PROVE ScheduleInv'
<1>0. ScheduleInv /\ TickInv /\ schedule \in Seq(Due) /\ InOrder(schedule)
  BY DEF UpdatesInv, ScheduleInv
<1>1. ASSUME UNCHANGED schedule PROVE ScheduleInv'
  BY <1>0, <1>1 DEF ScheduleInv
<1>2. CASE TickBegins
  <2>1. Len(schedule) \in Nat /\ DOMAIN schedule = 1..Len(schedule)
        /\ \A i \in 1..Len(schedule) : schedule[i] \in Due
    BY <1>0, LenProperties
  <2>2. schedule' = [i \in 1..Len(schedule) |-> [schedule[i] EXCEPT !.in = schedule[i].in - 1]]
    BY <1>2, <2>1 DEF TickBegins
  <2>3. \A d \in Due : /\ [d EXCEPT !.in = d.in - 1] \in Due /\ [d EXCEPT !.in = d.in - 1].in = d.in - 1
                       /\ [d EXCEPT !.in = d.in - 1].cell = d.cell /\ d.in \in Int
    BY DEF Due
  <2>4. \A i \in 1..Len(schedule) : /\ schedule'[i] \in Due /\ schedule'[i].in = schedule[i].in - 1
                                    /\ schedule'[i].cell = schedule[i].cell /\ schedule[i].in \in Int
    BY <2>1, <2>2, <2>3
  <2>5. schedule' \in Seq(Due) /\ DOMAIN schedule' = 1..Len(schedule)
    <3>1. schedule' = [i \in 1..Len(schedule) |-> schedule'[i]]
      BY <2>2
    <3> QED BY ONLY <2>1, <2>4, <3>1
  <2>6. InOrder(schedule)'
    BY ONLY <1>0, <2>1, <2>4, <2>5 DEF InOrder
  <2> QED BY <2>5, <2>6 DEF ScheduleInv
<1>3. CASE TakeDue
  BY <1>0, <1>3, TakeDueFacts DEF TakeDue
<1>4. CASE Look
  BY <1>4, LookFacts
<1>5. CASE Launch
  <2>1. At \in Cells /\ FallDelay \in Int
    BY <1>5, DoingCell, UpdatesAssumption DEF Launch
  <2>2. At \in Near
    BY <2>1, UpdatesAssumption DEF Cells, Near
  <2>3. Plan(At, FallDelay) \/ UNCHANGED schedule
    BY <1>5 DEF Launch
  <2> QED BY <1>0, <1>1, <2>1, <2>2, <2>3, PlanFacts
<1>6. CASE Restart
  <2>1. schedule' = <<>>
    BY <1>6 DEF Restart
  <2> QED BY <2>1, EmptySeq DEF ScheduleInv, InOrder
<1>7. FallOne \/ FallsDone \/ Land \/ TakeUpdates \/ TickEnds \/ LookOutside \/ Topple \/ Relabel
        \/ Clear \/ PlayerBegins \/ PlayerWrites \/ PlayerQueues \/ UNCHANGED updateVars
      => UNCHANGED schedule
  BY DEF FallOne, FallsDone, Land, TakeUpdates, TickEnds, LookOutside, Topple, Relabel, Clear,
         PlayerBegins, Dig, Place, Calls, PlayerWrites, PlayerQueues, updateVars
<1> QED BY <1>1, <1>2, <1>3, <1>4, <1>5, <1>6, <1>7 DEF UpdatesNext, TickStep, PlayerGoesOn

-----------------------------------------------------------------------------
(***************************************************************************)
(* What is in the air.                                                     *)
(***************************************************************************)
LEMMA WholeCells ==
  \A a \in Int : /\ a \div 1000000 \in Int /\ 1000000 * (a \div 1000000) <= a
                 /\ (a * 98) \div 100 \in Int /\ (a <= 0 => (a * 98) \div 100 <= 0)
OBVIOUS

LEMMA HigherOf == \A a \in Int : Max({a, 0}) = IF a >= 0 THEN a ELSE 0
<1> SUFFICES ASSUME NEW a \in Int PROVE Max({a, 0}) = IF a >= 0 THEN a ELSE 0
  OBVIOUS
<1>1. \E x \in {a, 0} : \A y \in {a, 0} : x >= y
  OBVIOUS
<1>2. Max({a, 0}) \in {a, 0} /\ \A y \in {a, 0} : Max({a, 0}) >= y
  BY <1>1 DEF Max
<1> QED BY <1>2

\* A block in the air moves down, and comes to rest, or is given up, inside the
\* world.
LEMMA FallOneFacts ==
  ASSUME UpdatesInv, FallOne
  PROVE  /\ AirInv' /\ tick.index \in DOMAIN air
         /\ \/ Len(air') = Len(air) /\ Len(landed') = Len(landed)
               /\ tick' = [tick EXCEPT !.index = tick.index + 1]
            \/ Len(air') = Len(air) - 1 /\ Len(landed') = Len(landed) + 1 /\ tick' = tick
<1> DEFINE i == tick.index
           e == air[i]
           age == e.age + 1
           vy == e.vy - Gravity
           cell == (e.y + vy) \div Unit
           expired == age >= Lifetime
           stopped == cell < 0 \/ (cell >= 0 /\ ~Free(world[cell]))
           slower == (vy * 98) \div 100
           moved == [state |-> e.state, y |-> e.y + vy, vy |-> slower, age |-> age]
           S == {l \in Landing : Falls(l.state)}
<1>1. /\ air \in Seq(Airborne) /\ Len(air) <= MaxFalling /\ landed \in Seq(S)
      /\ Len(air) \in Nat /\ DOMAIN air = 1..Len(air)
      /\ tick.index \in 1..MaxFalling + 1 /\ i <= Len(air)
      /\ Lifetime \in Nat /\ Height \in Nat \ {0} /\ MaxFalling \in Nat
  BY LenProperties, UpdatesAssumption DEF UpdatesInv, AirInv, TickInv, TickState, FallOne
<1>2. i \in 1..Len(air) /\ e \in Airborne
  BY <1>1, LenProperties
<1>3. /\ e.state \in State /\ Falls(e.state) /\ e.y \in Int /\ e.vy \in Int /\ e.age \in 0..Lifetime
      /\ e.y <= (Height - 1) * 1000000 /\ e.vy <= 0 /\ e \in Entity
  BY <1>2 DEF Airborne, Entity, Unit
<1>4. vy \in Int /\ vy < 0 /\ age \in Nat
  BY <1>3 DEF Gravity
<1>5. cell \in Int /\ cell <= Height - 2 /\ e.y + vy \in Int /\ e.y + vy <= (Height - 1) * 1000000
  <2> DEFINE y == e.y + vy
  <2>1. y \in Int /\ y < (Height - 1) * 1000000
    <3> HIDE DEF e, vy
    <3> QED BY ONLY <1>1, <1>3, <1>4 DEF y
  <2>2. cell = y \div 1000000
    BY DEF Unit
  <2> HIDE DEF cell, y
  <2>3. cell \in Int /\ 1000000 * cell <= y
    BY ONLY <2>1, <2>2, WholeCells
  <2>4. cell <= Height - 2
    BY ONLY <1>1, <2>1, <2>3
  <2>5. y \in Int /\ y <= (Height - 1) * 1000000
    BY ONLY <1>1, <2>1
  <2> HIDE DEF e, vy
  <2> QED BY ONLY <2>3, <2>4, <2>5 DEF y
<1>6. slower \in Int /\ slower <= 0
  BY <1>4, WholeCells
<1>7. \/ /\ ~stopped /\ ~expired
         /\ air' = [air EXCEPT ![i] = moved]
         /\ tick' = [tick EXCEPT !.index = tick.index + 1]
         /\ UNCHANGED landed
      \/ /\ stopped \/ expired
         /\ air' = RemoveAt(air, i)
         /\ landed' = Append(landed,
              IF expired
              THEN [state |-> e.state, as |-> "item", cell |-> IF stopped THEN Max({cell + 1, 0}) ELSE cell]
              ELSE Rests(e.state, Max({cell + 1, 0})))
         /\ tick' = tick
  BY DEF FallOne
<1>8. Max({cell + 1, 0}) \in Cells
  <2> HIDE DEF cell
  <2>1. Max({cell + 1, 0}) = IF cell + 1 >= 0 THEN cell + 1 ELSE 0
    BY <1>5, HigherOf
  <2> QED BY <1>1, <1>5, <2>1 DEF Cells
<1>9. ~stopped => cell \in Cells
  <2> HIDE DEF cell
  <2>1. ~stopped => cell >= 0
    BY <1>5
  <2> QED BY <1>1, <1>5, <2>1 DEF Cells
<1> HIDE DEF cell, expired, stopped
<1>10. ASSUME ~expired PROVE moved \in Airborne
  <2>1. age \in 0..Lifetime
    BY <1>1, <1>4, <1>10 DEF expired
  <2>2. e.y + vy \in Int /\ e.y + vy <= (Height - 1) * 1000000
    BY <1>5
  <2> HIDE DEF age, slower, vy, e
  <2>3. /\ moved \in Entity /\ moved.y = e.y + vy /\ moved.vy = slower
        /\ moved.state = e.state
    BY ONLY <1>3, <1>6, <2>1, <2>2 DEF Entity
  <2> HIDE DEF moved
  <2> QED BY ONLY <1>3, <1>6, <2>2, <2>3 DEF Airborne, Unit
<1>11. CASE /\ ~stopped /\ ~expired /\ air' = [air EXCEPT ![i] = moved]
            /\ tick' = [tick EXCEPT !.index = tick.index + 1] /\ UNCHANGED landed
  <2>1. moved \in Airborne
    BY <1>10, <1>11
  <2> HIDE DEF moved, e
  <2>2. air' \in Seq(Airborne) /\ Len(air') = Len(air)
    BY ONLY <1>1, <1>2, <1>11, <2>1, ExceptSeq
  <2> HIDE DEF S
  <2> QED BY ONLY <1>1, <1>2, <1>11, <2>2 DEF AirInv, S
<1>12. CASE /\ stopped \/ expired
            /\ air' = RemoveAt(air, i)
            /\ landed' = Append(landed,
                 IF expired
                 THEN [state |-> e.state, as |-> "item",
                       cell |-> IF stopped THEN Max({cell + 1, 0}) ELSE cell]
                 ELSE Rests(e.state, Max({cell + 1, 0})))
            /\ tick' = tick
  <2> DEFINE top == Max({cell + 1, 0})
             l == IF expired
                  THEN [state |-> e.state, as |-> "item", cell |-> IF stopped THEN top ELSE cell]
                  ELSE Rests(e.state, top)
  <2>1. l \in S
    <3> HIDE DEF e
    <3>1. top \in Cells /\ (~stopped => cell \in Cells) /\ e.state \in State /\ Falls(e.state)
      BY <1>3, <1>8, <1>9
    <3> HIDE DEF top
    <3>2. CASE expired
      BY ONLY <3>1, <3>2 DEF Landing
    <3>3. CASE ~expired
      BY ONLY <3>1, <3>3 DEF Landing, Rests
    <3> QED BY <3>2, <3>3
  <2>2. landed' = Append(landed, l)
    BY <1>12
  <2> HIDE DEF l, S
  <2>3. landed' \in Seq(S) /\ Len(landed') = Len(landed) + 1
    BY ONLY <1>1, <2>1, <2>2, AppendProperties
  <2>4. air' \in Seq(Airborne) /\ Len(air') = Len(air) - 1
    BY ONLY <1>1, <1>2, <1>12, OneRemoved
  <2>5. Len(air') <= MaxFalling
    BY ONLY <1>1, <2>4
  <2> QED BY ONLY <1>1, <1>2, <1>12, <2>3, <2>4, <2>5 DEF AirInv, S
<1> QED BY ONLY <1>7, <1>11, <1>12

LEMMA AirStep == ASSUME UpdatesInv, [UpdatesNext]_updateVars PROVE AirInv'
<1>0. AirInv /\ TickInv
  BY DEF UpdatesInv
<1>1. CASE FallOne
  BY <1>1, FallOneFacts
<1>2. CASE Land
  <2>1. air' = air /\ landed' = Tail(landed) /\ landed # <<>>
    BY <1>2 DEF Land
  <2> QED BY <1>0, <2>1, LandingCell DEF AirInv
<1>3. CASE Launch
  <2>1. UNCHANGED landed /\ (UNCHANGED air \/ (Len(air) < MaxFalling /\ air' = Append(air, Spawned(tick.saw, At))))
    BY <1>3 DEF Launch
  <2>2. At \in Cells /\ tick.saw \in State /\ Falls(tick.saw)
    BY <1>0, <1>3, DoingCell DEF Launch, TickInv, TickState
  <2>3. Spawned(tick.saw, At) \in Airborne
    <3>1. Height \in Nat /\ Lifetime \in Nat /\ At \in 0..Height - 1
      BY <2>2, UpdatesAssumption DEF Cells
    <3>2. At * 1000000 \in Int /\ At * 1000000 <= (Height - 1) * 1000000
      BY ONLY <3>1
    <3> QED BY ONLY <2>2, <3>1, <3>2 DEF Spawned, Airborne, Entity, Unit
  <2>4. Len(air) \in Nat /\ MaxFalling \in Nat /\ air \in Seq(Airborne)
    BY <1>0, LenProperties, UpdatesAssumption DEF AirInv
  <2>5. CASE air' = Append(air, Spawned(tick.saw, At)) /\ Len(air) < MaxFalling
    <3>1. air' \in Seq(Airborne) /\ Len(air') = Len(air) + 1
      BY ONLY <2>3, <2>4, <2>5, AppendProperties
    <3> QED BY <1>0, <2>1, <2>4, <2>5, <3>1 DEF AirInv
  <2> QED BY <1>0, <2>1, <2>5 DEF AirInv
<1>4. CASE Restart
  <2>1. air' = <<>> /\ landed' = landed
    BY <1>4 DEF Restart
  <2>2. <<>> \in Seq(Airborne) /\ Len(<<>>) = 0 /\ MaxFalling \in Nat
    BY EmptySeq, UpdatesAssumption
  <2> QED BY <1>0, <2>1, <2>2 DEF AirInv
<1>5. TickBegins \/ FallsDone \/ TakeDue \/ TakeUpdates \/ TickEnds \/ Look \/ LookOutside
        \/ Topple \/ Relabel \/ Clear \/ PlayerBegins \/ PlayerWrites \/ PlayerQueues
        \/ UNCHANGED updateVars
      => UNCHANGED <<air, landed>>
  BY DEF TickBegins, FallsDone, TakeDue, TakeUpdates, TickEnds, Look, LookOutside, Topple, Relabel,
         Clear, PlayerBegins, Dig, Place, Calls, PlayerWrites, PlayerQueues, updateVars
<1>6. ASSUME UNCHANGED <<air, landed>> PROVE AirInv'
  BY <1>0, <1>6 DEF AirInv
<1> QED BY <1>1, <1>2, <1>3, <1>4, <1>5, <1>6 DEF UpdatesNext, TickStep, PlayerGoesOn

-----------------------------------------------------------------------------
(***************************************************************************)
(* The ticker and the sessions, step by step.                              *)
(***************************************************************************)
LEMMA TickChange ==
  ASSUME TickInv, tick.doing = "look",
         NEW at \in {"idle", "fall", "land", "due", "examine", "panicked"},
         NEW batch \in Seq(Near), NEW index \in 1..MaxFalling + 1,
         at \in {"idle", "fall", "land"} => batch = <<>>,
         tick' = [tick EXCEPT !.at = at, !.batch = batch, !.index = index]
  PROVE  TickInv' /\ tick'.doing = "look" /\ tick'.batch = batch
<1>1. tick \in TickState
  BY DEF TickInv
<1>2. /\ tick' \in TickState /\ tick'.at = at /\ tick'.batch = batch /\ tick'.doing = "look"
  BY ONLY <1>1, tick.doing = "look", batch \in Seq(Near), index \in 1..MaxFalling + 1,
          at \in {"idle", "fall", "land", "due", "examine", "panicked"},
          tick' = [tick EXCEPT !.at = at, !.batch = batch, !.index = index] DEF TickState
<1> QED BY <1>2 DEF TickInv

LEMMA TickInvStep == ASSUME UpdatesInv, [UpdatesNext]_updateVars PROVE TickInv'
<1>0. /\ TickInv /\ tick \in TickState /\ tick.batch \in Seq(Near) /\ tick.index \in 1..MaxFalling + 1
      /\ tick.at \in {"idle", "fall", "land", "due", "examine", "panicked"}
      /\ tick.saw \in State /\ tick.next \in State
      /\ tick.doing \in {"look", "topple", "launch", "clear", "relabel"}
      /\ 1 \in 1..MaxFalling + 1 /\ <<>> \in Seq(Near)
  BY EmptySeq, UpdatesAssumption DEF UpdatesInv, TickInv, TickState
<1>1. /\ tick.at \in {"idle", "fall", "land"} => tick.batch = <<>>
      /\ tick.at \in {"idle", "fall", "land"} \/ tick.batch = <<>> => tick.doing = "look"
  BY <1>0 DEF TickInv
<1>2. CASE TickBegins
  <2>1. tick.at = "idle" /\ tick' = [tick EXCEPT !.at = "fall", !.index = 1]
    BY <1>2 DEF TickBegins
  <2>2. tick' = [tick EXCEPT !.at = "fall", !.batch = tick.batch, !.index = 1]
    BY ONLY <1>0, <2>1 DEF TickState
  <2> QED BY <1>0, <1>1, <2>1, <2>2, TickChange
<1>3. CASE FallOne
  <2>1. tick.at = "fall" /\ tick.index <= Len(air)
    BY <1>3 DEF FallOne
  <2>2. Len(air) <= MaxFalling /\ Len(air) \in Nat /\ MaxFalling \in Nat
    BY LenProperties, UpdatesAssumption DEF UpdatesInv, AirInv
  <2>3. tick' = tick \/ tick' = [tick EXCEPT !.index = @ + 1]
    BY <1>3, FallOneFacts
  <2>4. CASE tick' = tick
    BY <1>0, <2>4 DEF TickInv
  <2>5. CASE tick' = [tick EXCEPT !.index = @ + 1]
    <3>1. tick.index + 1 \in 1..MaxFalling + 1
      BY ONLY <1>0, <2>1, <2>2
    <3>2. tick' = [tick EXCEPT !.at = tick.at, !.batch = tick.batch, !.index = tick.index + 1]
      BY ONLY <1>0, <2>5 DEF TickState
    <3> QED BY <1>0, <1>1, <2>1, <3>1, <3>2, TickChange
  <2> QED BY <2>3, <2>4, <2>5
<1>4. CASE FallsDone
  <2>1. tick.at = "fall" /\ tick' = [tick EXCEPT !.at = "land"]
    BY <1>4 DEF FallsDone
  <2>2. tick' = [tick EXCEPT !.at = "land", !.batch = tick.batch, !.index = tick.index]
    BY ONLY <1>0, <2>1 DEF TickState
  <2> QED BY <1>0, <1>1, <2>1, <2>2, TickChange
<1>5. CASE TakeDue
  <2> DEFINE due == Cardinality({i \in DOMAIN schedule : schedule[i].in <= 0})
             taken == [i \in 1..due |-> schedule[i].cell]
  <2>1. /\ tick.at = "land" /\ schedule' = SubSeq(schedule, due + 1, Len(schedule))
        /\ tick' = [tick EXCEPT !.at = "due", !.batch = taken]
    BY <1>5 DEF TakeDue
  <2>2. taken \in Seq(Near)
    BY <2>1, TakeDueFacts DEF UpdatesInv
  <2> HIDE DEF taken, due
  <2>3. tick' = [tick EXCEPT !.at = "due", !.batch = taken, !.index = tick.index]
    BY ONLY <1>0, <2>1 DEF TickState
  <2> QED BY <1>0, <1>1, <2>1, <2>2, <2>3, TickChange
<1>6. CASE TakeUpdates
  <2> DEFINE n == Min({Len(waiting), PerTick})
             taken == SubSeq(waiting, 1, n)
  <2>1. /\ tick.batch = <<>> /\ tick' = [tick EXCEPT !.at = "examine", !.batch = taken]
    BY <1>6 DEF TakeUpdates
  <2>2. taken \in Seq(Near)
    BY TakenCount, FrontTaken DEF UpdatesInv, QueueInv
  <2> HIDE DEF taken, n
  <2>3. tick' = [tick EXCEPT !.at = "examine", !.batch = taken, !.index = tick.index]
    BY ONLY <1>0, <2>1 DEF TickState
  <2> QED BY <1>0, <1>1, <2>1, <2>2, <2>3, TickChange
<1>7. CASE TickEnds
  <2>1. tick' = Looking
    BY <1>7 DEF TickEnds
  <2>2. Looking \in TickState /\ Looking.at = "idle" /\ Looking.batch = <<>> /\ Looking.doing = "look"
    BY <1>0, StateFacts DEF Looking, TickState
  <2> QED BY <2>1, <2>2 DEF TickInv
<1>8. CASE Look
  BY <1>8, LookFacts
<1>9. CASE LookOutside
  <2>1. tick.doing = "look" /\ tick' = [tick EXCEPT !.at = "panicked"]
    BY <1>9 DEF LookOutside
  <2>2. tick' = [tick EXCEPT !.at = "panicked", !.batch = tick.batch, !.index = tick.index]
    BY ONLY <1>0, <2>1 DEF TickState
  <2> QED BY <1>0, <2>1, <2>2, TickChange
<1>10. CASE Topple \/ Relabel \/ Clear
  <2>1. NextCell /\ tick.doing # "look"
    BY <1>10 DEF Topple, Relabel, Clear
  <2> QED BY <1>0, <2>1, DoingCell, NextCellFacts
<1>11. CASE Launch
  <2>1. tick.doing = "launch" /\ (NextCell \/ tick' = [tick EXCEPT !.doing = "clear"])
    BY <1>11 DEF Launch
  <2>2. tick.batch # <<>> /\ At \in Cells /\ tick.at \in {"due", "examine"} /\ Falls(tick.saw)
    BY <2>1, DoingCell, <1>0 DEF TickInv
  <2>3. CASE NextCell
    BY <1>0, <2>2, <2>3, NextCellFacts
  <2>4. CASE tick' = [tick EXCEPT !.doing = "clear"]
    <3>1. tick' = [tick EXCEPT !.doing = "clear", !.saw = tick.saw, !.next = tick.next]
      BY ONLY <1>0, <2>4 DEF TickState
    <3> QED BY <1>0, <2>2, <3>1, DoingFacts
  <2> QED BY <2>1, <2>3, <2>4
<1>12. Land \/ PlayerBegins \/ PlayerWrites \/ PlayerQueues \/ Restart \/ UNCHANGED updateVars
       => UNCHANGED tick
  BY DEF Land, PlayerBegins, Dig, Place, Calls, PlayerWrites, PlayerQueues, Restart, updateVars
<1>13. ASSUME UNCHANGED tick PROVE TickInv'
  BY <1>0, <1>13 DEF TickInv
<1> QED BY <1>2, <1>3, <1>4, <1>5, <1>6, <1>7, <1>8, <1>9, <1>10, <1>11, <1>12, <1>13
        DEF UpdatesNext, TickStep, PlayerGoesOn

\* What a write does to the world and to the book.
LEMMA WriteTyped ==
  ASSUME WorldInv, NEW c \in Cells, NEW saw, NEW state \in State, Writes(c, saw, state)
  PROVE  /\ world' \in [Cells -> State]
         /\ book' \in [made : Nat, items : Nat, surprised : BOOLEAN]
         /\ book'.made = book.made /\ book'.items = book.items
         /\ ~book'.surprised => ~book.surprised /\ world[c] = saw
<1>1. world \in [Cells -> State] /\ book \in [made : Nat, items : Nat, surprised : BOOLEAN]
  BY DEF WorldInv
<1>2. world' = [world EXCEPT ![c] = state]
  BY DEF Writes
<1>3. world' \in [Cells -> State]
  BY <1>1, <1>2
<1> DEFINE found == book.surprised \/ world[c] # saw
<1>4. found \in BOOLEAN /\ book' = [book EXCEPT !.surprised = found]
  BY <1>1 DEF Writes
<1> HIDE DEF found
<1>5. /\ book' \in [made : Nat, items : Nat, surprised : BOOLEAN]
      /\ book'.made = book.made /\ book'.items = book.items /\ book'.surprised = found
  BY ONLY <1>1, <1>4
<1> QED BY <1>3, <1>5 DEF found

LEMMA WorldInvStep == ASSUME UpdatesInv, [UpdatesNext]_updateVars PROVE WorldInv'
<1>0. /\ WorldInv /\ world \in [Cells -> State] /\ player \in {Idle} \cup Calling
      /\ book \in [made : Nat, items : Nat, surprised : BOOLEAN]
      /\ verbs \in 0..MaxVerbs /\ stops \in 0..MaxStops /\ MaxVerbs \in Nat /\ MaxStops \in Nat
      /\ TickInv /\ tick \in TickState /\ tick.saw \in State /\ tick.next \in State
  BY UpdatesAssumption DEF UpdatesInv, WorldInv, TickInv, TickState
<1>1. ASSUME UNCHANGED <<player, verbs, stops>>, world' \in [Cells -> State],
             book' \in [made : Nat, items : Nat, surprised : BOOLEAN]
      PROVE  WorldInv'
  BY <1>0, <1>1 DEF WorldInv
<1>2. CASE Land
  <2>1. landed # <<>> /\ UNCHANGED <<player, verbs, stops>>
    BY <1>2 DEF Land
  <2>2. Head(landed).cell \in Cells /\ Head(landed).state \in State
    BY <2>1, LandingCell
  <2>3. CASE Writes(Head(landed).cell, Air, Head(landed).state)
    BY <1>0, <1>1, <2>1, <2>2, <2>3, WriteTyped
  <2>4. CASE book' = [book EXCEPT !.items = @ + Sand(Head(landed).state)] /\ UNCHANGED world
    <3>1. book.items + Sand(Head(landed).state) \in Nat
      BY <1>0 DEF Sand
    <3>2. book' \in [made : Nat, items : Nat, surprised : BOOLEAN]
      BY ONLY <1>0, <2>4, <3>1
    <3> QED BY <1>0, <1>1, <2>1, <2>4, <3>2
  <2> QED BY <1>2, <2>3, <2>4 DEF Land
<1>3. CASE Topple \/ Relabel \/ Clear
  <2>1. /\ tick.doing # "look" /\ UNCHANGED <<player, verbs, stops>>
        /\ Writes(At, tick.saw, Air) \/ Writes(At, tick.saw, tick.next)
    BY <1>3 DEF Topple, Relabel, Clear
  <2>2. At \in Cells /\ Air \in State
    BY <2>1, DoingCell, StateFacts
  <2> QED BY <1>0, <1>1, <2>1, <2>2, WriteTyped
<1>4. ASSUME NEW verb \in {"dig", "place"}, NEW c \in Cells, NEW state \in State,
             Calls(verb, c, state), verb = "place" => Free(world[c])
      PROVE  WorldInv'
  <2>1. /\ verbs < MaxVerbs /\ verbs' = verbs + 1 /\ UNCHANGED <<world, stops, book>>
        /\ player' = [at |-> "write", verb |-> verb, cell |-> c, saw |-> world[c], state |-> state]
    BY <1>4 DEF Calls
  <2>2. world[c] \in State /\ (Free(world[c]) => ~Falls(world[c]))
    BY <1>0 DEF Free, Falls
  <2>3. player' \in Calling /\ player'.verb = verb /\ player'.saw = world[c]
    BY <2>1, <2>2 DEF Calling
  <2>4. verbs' \in 0..MaxVerbs
    BY <1>0, <2>1
  <2> QED BY <1>0, <1>4, <2>1, <2>2, <2>3, <2>4 DEF WorldInv
<1>5. CASE PlayerBegins
  <2>1. ASSUME NEW c \in Cells, Dig(c) PROVE WorldInv'
    <3>1. Calls("dig", c, Air)
      BY <2>1 DEF Dig
    <3> QED BY <1>4, <3>1, StateFacts
  <2>2. ASSUME NEW c \in Cells, NEW state \in Held, Place(c, state) PROVE WorldInv'
    <3>1. Calls("place", c, state) /\ Free(world[c]) /\ state \in State
      BY <2>2, UpdatesAssumption DEF Place
    <3> QED BY <1>4, <3>1
  <2> QED BY <1>5, <2>1, <2>2 DEF PlayerBegins
<1>6. CASE PlayerWrites
  <2>1. player.at = "write" /\ player \in Calling /\ player.cell \in Cells /\ player.state \in State
    BY <1>6, CallCell DEF PlayerWrites, Calling
  <2>2. world' \in [Cells -> State]
    BY <1>0, <1>6, <2>1 DEF PlayerWrites
  <2>3. player' \in Calling /\ player'.at = "touch"
    <3>1. player' = [player EXCEPT !.at = "touch"]
      BY <1>6 DEF PlayerWrites
    <3> QED BY ONLY <2>1, <3>1 DEF Calling
  <2>4. book' \in [made : Nat, items : Nat, surprised : BOOLEAN]
    <3> DEFINE made == book.made + Sand(player.state)
               items == book.items + (IF player.verb = "dig" THEN Sand(player.saw) ELSE 0)
               found == book.surprised \/ world[player.cell] # player.saw
    <3>1. made \in Nat /\ items \in Nat /\ found \in BOOLEAN
      BY <1>0 DEF Sand
    <3>2. book' = [made |-> made, items |-> items, surprised |-> found]
      BY <1>6 DEF PlayerWrites
    <3> HIDE DEF made, items, found
    <3> QED BY <3>1, <3>2
  <2>5. UNCHANGED <<verbs, stops>>
    BY <1>6 DEF PlayerWrites
  <2> QED BY <1>0, <2>2, <2>3, <2>4, <2>5 DEF WorldInv
<1>7. CASE PlayerQueues
  <2>1. player' = Idle /\ UNCHANGED <<world, verbs, stops, book>>
    BY <1>7 DEF PlayerQueues
  <2> QED BY <1>0, <2>1 DEF WorldInv, Idle
<1>8. CASE Restart
  <2>1. /\ UNCHANGED <<world, player, verbs>> /\ stops' = stops + 1 /\ stops < MaxStops
        /\ book' = [book EXCEPT !.surprised = @ \/ air # <<>>]
    BY <1>8 DEF Restart
  <2>2. book' \in [made : Nat, items : Nat, surprised : BOOLEAN]
    <3> DEFINE found == book.surprised \/ air # <<>>
    <3>1. found \in BOOLEAN /\ book' = [book EXCEPT !.surprised = found]
      BY <1>0, <2>1
    <3> HIDE DEF found
    <3> QED BY ONLY <1>0, <3>1
  <2>3. stops' \in 0..MaxStops
    BY <1>0, <2>1
  <2> QED BY <1>0, <2>1, <2>2, <2>3 DEF WorldInv
<1>9. TickBegins \/ FallOne \/ FallsDone \/ TakeDue \/ TakeUpdates \/ TickEnds \/ Look
        \/ LookOutside \/ Launch \/ UNCHANGED updateVars
      => UNCHANGED <<world, player, verbs, stops, book>>
  BY DEF TickBegins, FallOne, FallsDone, TakeDue, TakeUpdates, TickEnds, Look, LookOutside, Launch,
         updateVars
<1>10. ASSUME UNCHANGED <<world, player, verbs, stops, book>> PROVE WorldInv'
  BY <1>0, <1>10 DEF WorldInv
<1> QED BY <1>2, <1>3, <1>5, <1>6, <1>7, <1>8, <1>9, <1>10 DEF UpdatesNext, TickStep, PlayerGoesOn

-----------------------------------------------------------------------------
(***************************************************************************)
(* Nothing hangs.                                                          *)
(***************************************************************************)
\* Where a cell is that the ticker will look at.
Watched == ToSet(waiting) \cup Scheduled \cup ToSet(tick.batch) \cup missed

\* The world stays as it is: a cell is passed on, or was found to be stable.
LEMMA PassedOn ==
  ASSUME NothingHangs, world' = world, player' = player \/ player.at # "touch",
         \A c \in Cells : c \in Watched => c \in Watched' \/ Stable(c)
  PROVE  NothingHangs'
<1> SUFFICES ASSUME NEW c \in Cells
             PROVE  \/ Stable(c)'
                    \/ c \in Watched'
                    \/ player'.at = "touch" /\ c \in {player'.cell} \cup Around(player'.cell)
  BY DEF NothingHangs, Watched, Around
<1>1. \/ Stable(c)
      \/ c \in Watched
      \/ player.at = "touch" /\ c \in {player.cell} \cup Around(player.cell)
  BY DEF NothingHangs, Watched
<1>2. Stable(c)' = Stable(c)
  BY SameStable
<1>3. c \in Watched => c \in Watched' \/ Stable(c)
  OBVIOUS
<1> QED BY ONLY <1>1, <1>2, <1>3, player' = player \/ player.at # "touch"

\* The ticker writes a cell and notes it.
LEMMA WrittenAndNoted ==
  ASSUME UpdatesInv, NEW d \in Cells, NEW s, world' = [world EXCEPT ![d] = s], Touch(d),
         player' = player, Scheduled' = Scheduled, ToSet(tick.batch) \subseteq {d} \cup ToSet(tick'.batch)
  PROVE  NothingHangs'
<1> SUFFICES ASSUME NEW c \in Cells
             PROVE  \/ Stable(c)'
                    \/ c \in Watched'
                    \/ player'.at = "touch" /\ c \in {player'.cell} \cup Around(player'.cell)
  BY DEF NothingHangs, Watched, Around
<1>1. /\ ToSet(waiting) \subseteq ToSet(waiting') /\ missed \subseteq missed'
      /\ {d - 1, d, d + 1} \subseteq ToSet(waiting') \cup missed'
  BY TouchFacts DEF UpdatesInv
<1>2. world \in [Cells -> State]
  BY DEF UpdatesInv, WorldInv
<1>3. \/ Stable(c)
      \/ c \in Watched
      \/ player.at = "touch" /\ c \in {player.cell} \cup Around(player.cell)
  BY DEF UpdatesInv, NothingHangs, Watched
<1>4. Watched' = ToSet(waiting') \cup Scheduled' \cup ToSet(tick'.batch) \cup missed'
  BY DEF Watched, ToSet
<1>5. CASE c \in {d - 1, d, d + 1}
  BY ONLY <1>1, <1>4, <1>5
<1>6. CASE c \notin {d - 1, d, d + 1} /\ Stable(c)
  BY <1>2, <1>6, FarStable
<1>7. CASE c \notin {d - 1, d, d + 1} /\ c \in Watched
  <2>1. c \in ToSet(waiting) \cup Scheduled \cup ToSet(tick.batch) \cup missed
    BY <1>7 DEF Watched
  <2> QED BY ONLY <1>1, <1>4, <1>7, <2>1, Scheduled' = Scheduled,
                  ToSet(tick.batch) \subseteq {d} \cup ToSet(tick'.batch)
<1> QED BY <1>3, <1>5, <1>6, <1>7

LEMMA HangStep == ASSUME UpdatesInv, [UpdatesNext]_updateVars PROVE NothingHangs'
<1>0. /\ NothingHangs /\ TickInv /\ ScheduleInv /\ QueueInv /\ world \in [Cells -> State]
      /\ tick \in TickState /\ waiting \in Seq(Near)
  BY DEF UpdatesInv, TickInv, QueueInv, WorldInv
<1>1. Watched' = ToSet(waiting') \cup Scheduled' \cup ToSet(tick'.batch) \cup missed'
  BY DEF Watched, ToSet
<1>2. ASSUME UNCHANGED <<world, waiting, schedule, missed>>, ToSet(tick.batch) \subseteq ToSet(tick'.batch),
             player' = player \/ player.at # "touch"
      PROVE  NothingHangs'
  <2>1. Scheduled' = Scheduled
    BY <1>2 DEF Scheduled
  <2>2. Watched \subseteq Watched'
    BY <1>1, <1>2, <2>1 DEF Watched
  <2> QED BY <1>0, <1>2, <2>2, PassedOn
<1>3. CASE TickBegins
  <2>1. /\ UNCHANGED <<world, waiting, missed, player>> /\ tick'.batch = tick.batch
        /\ schedule' = [i \in DOMAIN schedule |-> [schedule[i] EXCEPT !.in = @ - 1]]
    BY <1>0, <1>3 DEF TickBegins, TickState
  <2>2. \A i \in DOMAIN schedule : schedule[i] \in Due
    BY <1>0, LenProperties DEF ScheduleInv
  <2>3. \A x \in Due : [x EXCEPT !.in = x.in - 1].cell = x.cell
    BY DEF Due
  <2>4. Scheduled' = Scheduled
    BY <2>1, <2>2, <2>3 DEF Scheduled
  <2>5. Watched \subseteq Watched'
    BY <1>1, <2>1, <2>4 DEF Watched
  <2> QED BY <1>0, <2>1, <2>5, PassedOn
<1>4. CASE FallOne
  <2>1. UNCHANGED <<world, waiting, schedule, missed, player>>
    BY <1>4 DEF FallOne
  <2>2. tick' = tick \/ tick' = [tick EXCEPT !.index = tick.index + 1]
    BY <1>4, FallOneFacts
  <2>3. tick'.batch = tick.batch
    BY ONLY <1>0, <2>2 DEF TickState
  <2> QED BY <1>2, <2>1, <2>3
<1>5. CASE FallsDone \/ LookOutside
  <2>1. UNCHANGED <<world, waiting, schedule, missed, player>>
    BY <1>5 DEF FallsDone, LookOutside
  <2>2. tick'.batch = tick.batch
    BY <1>0, <1>5 DEF FallsDone, LookOutside, TickState
  <2> QED BY <1>2, <2>1, <2>2
<1>6. CASE Land
  <2>1. UNCHANGED <<schedule, tick, player>> /\ landed # <<>>
    BY <1>6 DEF Land
  <2>2. Scheduled' = Scheduled /\ Head(landed).cell \in Cells
    BY <2>1, LandingCell DEF Scheduled
  <2>3. CASE Writes(Head(landed).cell, Air, Head(landed).state) /\ Touch(Head(landed).cell)
    BY <2>1, <2>2, <2>3, WrittenAndNoted DEF Writes
  <2>4. CASE UNCHANGED <<world, waiting, missed>>
    BY <1>2, <2>1, <2>4
  <2> QED BY <1>6, <2>3, <2>4 DEF Land
<1>7. CASE TakeDue
  <2> DEFINE due == Cardinality({i \in DOMAIN schedule : schedule[i].in <= 0})
             taken == [i \in 1..due |-> schedule[i].cell]
  <2>1. /\ tick.at = "land" /\ schedule' = SubSeq(schedule, due + 1, Len(schedule))
        /\ tick' = [tick EXCEPT !.at = "due", !.batch = taken]
        /\ UNCHANGED <<world, waiting, missed, player>>
    BY <1>7 DEF TakeDue
  <2>2. Scheduled = ToSet(taken) \cup Scheduled'
    BY <1>0, <2>1, TakeDueFacts
  <2>3. tick.batch = <<>>
    BY <1>0, <2>1 DEF TickInv
  <2> HIDE DEF taken, due
  <2>4. tick'.batch = taken
    BY ONLY <1>0, <2>1 DEF TickState
  <2>5. ToSet(tick.batch) = {}
    BY <2>3 DEF ToSet
  <2>6. Watched \subseteq Watched'
    BY <1>1, <2>1, <2>2, <2>4, <2>5 DEF Watched
  <2> QED BY <1>0, <2>1, <2>6, PassedOn
<1>8. CASE TakeUpdates
  <2> DEFINE n == Min({Len(waiting), PerTick})
             taken == SubSeq(waiting, 1, n)
             rest == SubSeq(waiting, n + 1, Len(waiting))
  <2>1. /\ tick.batch = <<>> /\ tick' = [tick EXCEPT !.at = "examine", !.batch = taken]
        /\ waiting' = rest /\ UNCHANGED <<world, schedule, missed, player>>
    BY <1>8 DEF TakeUpdates
  <2>2. n \in 0..Len(waiting)
    BY <1>0, TakenCount
  <2>3. ToSet(waiting) = ToSet(taken) \cup ToSet(rest)
    BY <1>0, <2>2, NoneLost
  <2> HIDE DEF taken, rest, n
  <2>4. tick'.batch = taken
    BY ONLY <1>0, <2>1 DEF TickState
  <2>5. ToSet(tick.batch) = {} /\ Scheduled' = Scheduled
    BY <2>1 DEF ToSet, Scheduled
  <2>6. Watched \subseteq Watched'
    BY <1>1, <2>1, <2>3, <2>4, <2>5 DEF Watched
  <2> QED BY <1>0, <2>1, <2>6, PassedOn
<1>9. CASE TickEnds
  <2>1. tick.batch = <<>> /\ UNCHANGED <<world, waiting, schedule, missed, player>>
    BY <1>9 DEF TickEnds
  <2>2. ToSet(tick.batch) = {}
    BY <2>1 DEF ToSet
  <2> QED BY <1>2, <2>1, <2>2
<1>10. CASE Look
  <2>1. missed' = missed \ {At} /\ UNCHANGED <<world, waiting, player>>
    BY <1>10 DEF Look
  <2>2. /\ Scheduled \subseteq Scheduled' /\ ToSet(tick.batch) \subseteq {At} \cup ToSet(tick'.batch)
        /\ Stable(At) \/ At \in ToSet(tick'.batch) \cup Scheduled'
    BY <1>10, LookFacts
  <2>3. ASSUME NEW c \in Cells, c \in Watched PROVE c \in Watched' \/ Stable(c)
    <3>1. c \in ToSet(waiting) \cup Scheduled \cup ToSet(tick.batch) \cup missed
      BY <2>3 DEF Watched
    <3>2. CASE c = At
      BY <1>1, <2>2, <3>2
    <3>3. CASE c # At
      BY ONLY <1>1, <2>1, <2>2, <3>1, <3>3
    <3> QED BY <3>2, <3>3
  <2> QED BY <1>0, <2>1, <2>3, PassedOn
<1>11. CASE Topple \/ Relabel \/ Clear
  <2>1. /\ tick.doing # "look" /\ NextCell /\ Touch(At) /\ UNCHANGED <<schedule, player>>
        /\ \E saw, s : Writes(At, saw, s)
    BY <1>11 DEF Topple, Relabel, Clear
  <2>2. At \in Cells /\ tick.batch # <<>>
    BY <2>1, DoingCell
  <2>3. ToSet(tick.batch) \subseteq {At} \cup ToSet(tick'.batch)
    BY <1>0, <2>1, <2>2, NextCellFacts
  <2>4. Scheduled' = Scheduled
    BY <2>1 DEF Scheduled
  <2>5. \E s : world' = [world EXCEPT ![At] = s]
    BY <2>1 DEF Writes
  <2> QED BY <2>1, <2>2, <2>3, <2>4, <2>5, WrittenAndNoted
<1>12. CASE Launch
  <2>1. /\ tick.doing = "launch" /\ UNCHANGED <<world, waiting, missed, player>>
        /\ \/ Plan(At, FallDelay) /\ NextCell
           \/ tick' = [tick EXCEPT !.doing = "clear"] /\ UNCHANGED schedule
    BY <1>12 DEF Launch
  <2>2. At \in Near /\ tick.batch # <<>> /\ FallDelay \in Int
    BY <1>0, <2>1, DoingCell, AtFacts, UpdatesAssumption
  <2>3. CASE Plan(At, FallDelay) /\ NextCell
    <3>1. Scheduled' = Scheduled \cup {At} /\ ToSet(tick.batch) \subseteq {At} \cup ToSet(tick'.batch)
      BY <1>0, <2>2, <2>3, PlanFacts, NextCellFacts
    <3>2. Watched \subseteq Watched'
      BY ONLY <1>1, <2>1, <3>1 DEF Watched
    <3> QED BY <1>0, <2>1, <3>2, PassedOn
  <2>4. CASE tick' = [tick EXCEPT !.doing = "clear"] /\ UNCHANGED schedule
    <3>1. tick'.batch = tick.batch
      BY ONLY <1>0, <2>4 DEF TickState
    <3> QED BY <1>2, <2>1, <2>4, <3>1
  <2> QED BY <2>1, <2>3, <2>4
<1>13. CASE PlayerBegins
  <2>1. player = Idle /\ UNCHANGED <<world, waiting, schedule, tick, missed>>
    BY <1>13 DEF PlayerBegins, Dig, Place, Calls
  <2> QED BY <1>2, <2>1 DEF Idle
<1>14. CASE PlayerWrites
  <2>1. /\ player.at = "write" /\ world' = [world EXCEPT ![player.cell] = player.state]
        /\ player' = [player EXCEPT !.at = "touch"] /\ UNCHANGED <<waiting, schedule, tick, missed>>
    BY <1>14 DEF PlayerWrites
  <2>2. player \in Calling /\ player.cell \in Cells
    BY <2>1, CallCell
  <2>3. player'.at = "touch" /\ player'.cell = player.cell
    BY ONLY <2>1, <2>2 DEF Calling
  <2> DEFINE d == player.cell
  <2>4. Watched' = Watched
    BY <1>1, <2>1 DEF Watched, Scheduled
  <2> SUFFICES ASSUME NEW c \in Cells
               PROVE  \/ Stable(c)'
                      \/ c \in Watched'
                      \/ player'.at = "touch" /\ c \in {player'.cell} \cup Around(player'.cell)
    BY DEF NothingHangs, Watched, Around
  <2>5. Stable(c) \/ c \in Watched
    BY <1>0, <2>1 DEF NothingHangs, Watched
  <2>6. CASE c \in {d - 1, d, d + 1}
    BY <2>3, <2>6 DEF Around
  <2>7. CASE c \notin {d - 1, d, d + 1} /\ Stable(c)
    BY <1>0, <2>1, <2>2, <2>7, FarStable
  <2> QED BY <2>4, <2>5, <2>6, <2>7
<1>15. CASE PlayerQueues
  <2>1. /\ player.at = "touch" /\ Touch(player.cell) /\ UNCHANGED <<world, schedule, tick>>
    BY <1>15 DEF PlayerQueues
  <2>2. player.cell \in Cells
    BY <2>1, CallCell
  <2> DEFINE d == player.cell
  <2>3. /\ ToSet(waiting) \subseteq ToSet(waiting') /\ missed \subseteq missed'
        /\ {d - 1, d, d + 1} \subseteq ToSet(waiting') \cup missed'
    BY <1>0, <2>1, <2>2, TouchFacts
  <2>4. Scheduled' = Scheduled
    BY <2>1 DEF Scheduled
  <2> SUFFICES ASSUME NEW c \in Cells
               PROVE  \/ Stable(c)'
                      \/ c \in Watched'
                      \/ player'.at = "touch" /\ c \in {player'.cell} \cup Around(player'.cell)
    BY DEF NothingHangs, Watched, Around
  <2>5. Stable(c) \/ c \in Watched \/ c \in {d - 1, d, d + 1}
    BY <1>0 DEF NothingHangs, Watched, Around
  <2>6. Stable(c)' = Stable(c)
    BY <2>1, SameStable
  <2>7. Watched \subseteq Watched'
    BY ONLY <1>1, <2>1, <2>3, <2>4 DEF Watched
  <2>8. {d - 1, d, d + 1} \subseteq Watched'
    BY ONLY <1>1, <2>3
  <2> QED BY ONLY <2>5, <2>6, <2>7, <2>8
<1>16. CASE Restart
  <2>1. /\ tick.at = "idle" /\ UNCHANGED <<world, tick, player>>
        /\ missed' = missed \cup ToSet(waiting) \cup Scheduled
    BY <1>16 DEF Restart
  <2>2. Watched \subseteq Watched'
    BY ONLY <1>1, <2>1 DEF Watched
  <2> QED BY <1>0, <2>1, <2>2, PassedOn
<1>17. CASE UNCHANGED updateVars
  BY <1>2, <1>17 DEF updateVars
<1> QED BY <1>3, <1>4, <1>5, <1>6, <1>7, <1>8, <1>9, <1>10, <1>11, <1>12, <1>13, <1>14, <1>15,
           <1>16, <1>17 DEF UpdatesNext, TickStep, PlayerGoesOn

-----------------------------------------------------------------------------
(***************************************************************************)
(* No sand is lost or doubled.                                             *)
(***************************************************************************)
\* Sand that is in the air and still in its cell.
Twice == IF tick.doing = "clear" THEN 1 ELSE 0

LEMMA SandStep == ASSUME UpdatesInv, [UpdatesNext]_updateVars PROVE EverySandIsSomewhere'
<1>0. /\ TickInv /\ WorldInv /\ world \in [Cells -> State] /\ tick \in TickState
      /\ tick.doing \in {"look", "topple", "launch", "clear", "relabel"}
  BY DEF UpdatesInv, TickInv, TickState, WorldInv
<1>1. /\ Len(air) \in Nat /\ Len(landed) \in Nat /\ book.made \in Nat /\ book.items \in Nat
      /\ SandIn(world) \in Nat /\ Twice \in {0, 1}
  <2>1. Len(air) \in Nat /\ Len(landed) \in Nat
    BY LenProperties DEF UpdatesInv, AirInv
  <2>2. SandIn(world) \in Nat
    <3>1. 0 \in Cells
      BY UpdatesAssumption DEF Cells
    <3> QED BY <1>0, <3>1, SandChange
  <2> QED BY <1>0, <2>1, <2>2 DEF WorldInv, Twice
<1>2. ~book.surprised =>
        book.made = SandIn(world) + Len(air) + Len(landed) + book.items - Twice
  BY DEF UpdatesInv, EverySandIsSomewhere, Twice
<1>3. SUFFICES ASSUME ~book'.surprised
               PROVE  book'.made = SandIn(world') + Len(air') + Len(landed') + book'.items - Twice'
  BY DEF EverySandIsSomewhere, Twice, SandIn
<1>4. Twice' = IF tick'.doing = "clear" THEN 1 ELSE 0
  BY DEF Twice
<1>5. ASSUME UNCHANGED <<world, air, landed, book>>, tick.doing # "clear", tick'.doing # "clear"
      PROVE  book'.made = SandIn(world') + Len(air') + Len(landed') + book'.items - Twice'
  BY <1>2, <1>3, <1>4, <1>5 DEF Twice
<1>6. ASSUME UNCHANGED <<world, air, landed, book>>, tick'.doing = tick.doing
      PROVE  book'.made = SandIn(world') + Len(air') + Len(landed') + book'.items - Twice'
  BY <1>2, <1>3, <1>4, <1>6 DEF Twice
<1>7. ASSUME NEW c \in Cells, NEW saw, NEW state \in State, Writes(c, saw, state)
      PROVE  /\ book.made = SandIn(world) + Len(air) + Len(landed) + book.items - Twice
             /\ book'.made = book.made /\ book'.items = book.items
             /\ SandIn(world') \in Nat /\ SandIn(world') = (SandIn(world) - Sand(saw)) + Sand(state)
  <2>1. ~book.surprised /\ world[c] = saw /\ book'.made = book.made /\ book'.items = book.items
    BY <1>0, <1>3, <1>7, WriteTyped
  <2>2. world' = [world EXCEPT ![c] = state]
    BY <1>7 DEF Writes
  <2>3. SandIn(world') \in Nat /\ SandIn(world') = (SandIn(world) - Sand(world[c])) + Sand(state)
    BY <1>0, <2>2, SandChange
  <2> QED BY <1>2, <2>1, <2>3
<1>8. CASE FallOne
  <2>1. \/ Len(air') = Len(air) /\ Len(landed') = Len(landed)
           /\ tick' = [tick EXCEPT !.index = tick.index + 1]
        \/ Len(air') = Len(air) - 1 /\ Len(landed') = Len(landed) + 1 /\ tick' = tick
    BY <1>8, FallOneFacts
  <2>2. tick'.doing = tick.doing
    BY ONLY <1>0, <2>1 DEF TickState
  <2>3. UNCHANGED <<world, book>>
    BY <1>8 DEF FallOne
  <2>4. Twice' = Twice
    BY <1>4, <2>2 DEF Twice
  <2>5. \/ Len(air') = Len(air) /\ Len(landed') = Len(landed)
        \/ Len(air') = Len(air) - 1 /\ Len(landed') = Len(landed) + 1
    BY <2>1
  <2> DEFINE above == Len(air)
             above2 == Len(air')
             coming == Len(landed)
             coming2 == Len(landed')
  <2>6. \/ above2 = above /\ coming2 = coming
        \/ above2 = above - 1 /\ coming2 = coming + 1
    BY <2>5
  <2>7. book.made = SandIn(world) + Len(air) + Len(landed) + book.items - Twice
    BY <1>2, <1>3, <2>3
  <2>8. book'.made = book.made /\ book'.items = book.items /\ SandIn(world') = SandIn(world)
    BY <2>3
  <2>9. /\ above \in Nat /\ coming \in Nat
        /\ book.made = SandIn(world) + above + coming + book.items - Twice
    BY <1>1, <2>7
  <2> HIDE DEF above, above2, coming, coming2
  <2>10. book.made = SandIn(world) + above2 + coming2 + book.items - Twice
    BY ONLY <1>1, <2>6, <2>9
  <2> QED BY <2>4, <2>8, <2>10 DEF above2, coming2
<1>9. CASE Land
  <2>1. /\ UNCHANGED <<air, tick>> /\ landed # <<>> /\ landed' = Tail(landed)
    BY <1>9 DEF Land
  <2> DEFINE c == Head(landed).cell
             state == Head(landed).state
  <2>2. c \in Cells /\ Falls(state) /\ state \in State /\ Len(landed') = Len(landed) - 1
    BY <2>1, LandingCell
  <2>3. Twice' = Twice /\ Sand(state) = 1 /\ Sand(Air) = 0
    BY <1>4, <2>1, <2>2, StateFacts DEF Twice, Sand
  <2>4. CASE Writes(c, Air, state)
    BY <1>1, <1>7, <2>1, <2>2, <2>3, <2>4
  <2>5. CASE book' = [book EXCEPT !.items = @ + Sand(state)] /\ UNCHANGED world
    <3>1. book \in [made : Nat, items : Nat, surprised : BOOLEAN]
      BY <1>0 DEF WorldInv
    <3>2. book'.made = book.made /\ book'.items = book.items + 1 /\ book'.surprised = book.surprised
      BY ONLY <2>3, <2>5, <3>1
    <3> QED BY <1>1, <1>2, <1>3, <2>1, <2>2, <2>3, <2>5, <3>2
  <2> QED BY <1>9, <2>4, <2>5 DEF Land
<1>10. CASE Topple \/ Relabel \/ Clear
  <2>1. /\ UNCHANGED <<air, landed>> /\ NextCell
        /\ \/ tick.doing = "topple" /\ Writes(At, tick.saw, Air)
           \/ tick.doing = "relabel" /\ Writes(At, tick.saw, tick.next)
           \/ tick.doing = "clear" /\ Writes(At, tick.saw, Air)
    BY <1>10 DEF Topple, Relabel, Clear
  <2>2. At \in Cells /\ tick.batch # <<>>
    BY <2>1, DoingCell
  <2>3. tick'.doing = "look"
    BY <1>0, <2>1, <2>2, NextCellFacts
  <2>4. Twice' = 0 /\ Twice = IF tick.doing = "clear" THEN 1 ELSE 0
    BY <1>4, <2>3 DEF Twice
  <2>5. Air \in State /\ tick.next \in State /\ Sand(Air) = 0
    BY <1>0, StateFacts DEF TickState, Sand
  <2>6. CASE tick.doing = "topple" /\ Writes(At, tick.saw, Air)
    <3>1. Sand(tick.saw) = 0
      BY <1>0, <2>6 DEF TickInv, Sand
    <3> QED BY <1>1, <1>7, <2>1, <2>2, <2>4, <2>5, <2>6, <3>1
  <2>7. CASE tick.doing = "relabel" /\ Writes(At, tick.saw, tick.next)
    <3>1. Sand(tick.saw) = 0 /\ Sand(tick.next) = 0
      BY <1>0, <2>7 DEF TickInv, Sand
    <3> QED BY <1>1, <1>7, <2>1, <2>2, <2>4, <2>5, <2>7, <3>1
  <2>8. CASE tick.doing = "clear" /\ Writes(At, tick.saw, Air)
    <3>1. Sand(tick.saw) = 1
      BY <1>0, <2>8 DEF TickInv, Sand
    <3> QED BY <1>1, <1>7, <2>1, <2>2, <2>4, <2>5, <2>8, <3>1
  <2> QED BY <2>1, <2>6, <2>7, <2>8
<1>11. CASE Launch
  <2>1. /\ tick.doing = "launch" /\ UNCHANGED <<world, landed, book>>
        /\ \/ NextCell /\ UNCHANGED air
           \/ air' = Append(air, Spawned(tick.saw, At)) /\ tick' = [tick EXCEPT !.doing = "clear"]
    BY <1>11 DEF Launch
  <2>2. CASE NextCell /\ UNCHANGED air
    <3>1. tick'.doing = "look"
      BY <1>0, <2>1, <2>2, DoingCell, NextCellFacts
    <3> QED BY <1>5, <2>1, <2>2, <3>1
  <2>3. CASE air' = Append(air, Spawned(tick.saw, At)) /\ tick' = [tick EXCEPT !.doing = "clear"]
    <3>1. tick'.doing = "clear"
      BY ONLY <1>0, <2>3 DEF TickState
    <3>2. Len(air') = Len(air) + 1
      <4>1. air \in Seq(Airborne)
        BY DEF UpdatesInv, AirInv
      <4>2. DOMAIN air' = 1..Len(air) + 1
        BY ONLY <1>1, <2>3, <4>1
      <4>3. air' \in Seq(Airborne \cup {Spawned(tick.saw, At)})
        BY ONLY <2>3, <4>1
      <4> QED BY ONLY <1>1, <4>2, <4>3, LenProperties
    <3>3. Twice = 0 /\ Twice' = 1
      BY <1>4, <2>1, <3>1 DEF Twice
    <3> QED BY <1>1, <1>2, <1>3, <2>1, <3>2, <3>3
  <2> QED BY <2>1, <2>2, <2>3
<1>12. CASE PlayerWrites
  <2> DEFINE c == player.cell
             saw == player.saw
             state == player.state
             item == IF player.verb = "dig" THEN Sand(saw) ELSE 0
  <2>1. /\ player.at = "write" /\ world' = [world EXCEPT ![c] = state]
        /\ book' = [ made  |-> book.made + Sand(state), items |-> book.items + item,
                     surprised |-> book.surprised \/ world[c] # saw ]
        /\ UNCHANGED <<air, landed, tick>>
    BY <1>12 DEF PlayerWrites
  <2>2. player \in Calling /\ c \in Cells
    BY <2>1, CallCell
  <2>3. ~book.surprised /\ world[c] = saw
    BY <1>3, <2>1
  <2>4. book'.made = book.made + Sand(state) /\ book'.items = book.items + item
    BY <2>1
  <2>5. item = Sand(saw)
    <3>1. player.verb \in {"dig", "place"}
      BY <2>2 DEF Calling
    <3>2. player.verb = "place" => ~Falls(saw)
      BY <1>0, <2>1 DEF WorldInv
    <3> QED BY <3>1, <3>2 DEF Sand
  <2>6. SandIn(world') \in Nat /\ SandIn(world') = (SandIn(world) - Sand(saw)) + Sand(state)
    BY <1>0, <2>1, <2>2, <2>3, SandChange
  <2>7. Sand(saw) \in {0, 1} /\ Sand(state) \in {0, 1} /\ Twice' = Twice
    BY <1>4, <2>1 DEF Sand, Twice
  <2>8. book.made = SandIn(world) + Len(air) + Len(landed) + book.items - Twice
    BY <1>2, <2>3
  <2> DEFINE above == Len(air)
             coming == Len(landed)
  <2>9. /\ above \in Nat /\ coming \in Nat /\ Len(air') = above /\ Len(landed') = coming
        /\ book.made = SandIn(world) + above + coming + book.items - Twice
        /\ SandIn(world) \in Nat /\ book.items \in Nat /\ Twice \in Int
    BY <1>1, <2>1, <2>8
  <2> DEFINE lost == Sand(saw)
             won == Sand(state)
  <2>10. /\ book'.made = book.made + won /\ book'.items = book.items + lost
         /\ SandIn(world') = (SandIn(world) - lost) + won /\ Twice' = Twice
         /\ lost \in {0, 1} /\ won \in {0, 1}
    BY <2>4, <2>5, <2>6, <2>7
  <2> HIDE DEF saw, state, item, above, coming, lost, won
  <2>11. book.made + won
           = ((SandIn(world) - lost) + won) + above + coming + (book.items + lost) - Twice
    BY ONLY <2>9, <2>10
  <2> QED BY <2>9, <2>10, <2>11
<1>13. CASE Restart
  <2>1. /\ book' = [book EXCEPT !.surprised = @ \/ air # <<>>] /\ air' = <<>>
        /\ UNCHANGED <<world, landed, tick>>
    BY <1>13 DEF Restart
  <2> DEFINE found == book.surprised \/ air # <<>>
  <2>2. book \in [made : Nat, items : Nat, surprised : BOOLEAN] /\ found \in BOOLEAN
        /\ book' = [book EXCEPT !.surprised = found]
    BY <1>0, <2>1 DEF WorldInv
  <2> HIDE DEF found
  <2>3. book'.made = book.made /\ book'.items = book.items /\ book'.surprised = found
    BY ONLY <2>2
  <2>4. ~book.surprised /\ air = <<>>
    BY <1>3, <2>3 DEF found
  <2>5. Twice' = Twice
    BY <1>4, <2>1 DEF Twice
  <2> QED BY <1>2, <2>1, <2>3, <2>4, <2>5
<1>14. CASE Look
  <2>1. tick.doing = "look" /\ UNCHANGED <<world, air, landed, book>>
    BY <1>14 DEF Look
  <2>2. tick'.doing # "clear"
    BY <1>14, LookFacts
  <2> QED BY <1>5, <2>1, <2>2
<1>15. CASE TickEnds
  <2>1. tick.batch = <<>> /\ tick' = Looking /\ UNCHANGED <<world, air, landed, book>>
    BY <1>15 DEF TickEnds
  <2>2. tick.doing = "look" /\ tick'.doing = "look"
    BY <1>0, <2>1 DEF TickInv, Looking
  <2> QED BY <1>5, <2>1, <2>2
<1>16. CASE TickBegins \/ FallsDone \/ TakeDue \/ TakeUpdates \/ LookOutside \/ PlayerBegins
            \/ PlayerQueues \/ UNCHANGED updateVars
  <2>1. UNCHANGED <<world, air, landed, book>>
    BY <1>16 DEF TickBegins, FallsDone, TakeDue, TakeUpdates, LookOutside, PlayerBegins, Dig, Place,
         Calls, PlayerQueues, updateVars
  <2>2. tick'.doing = tick.doing
    BY <1>0, <1>16 DEF TickBegins, FallsDone, TakeDue, TakeUpdates, LookOutside, PlayerBegins, Dig,
         Place, Calls, PlayerQueues, updateVars, TickState
  <2> QED BY <1>6, <2>1, <2>2
<1> QED BY <1>8, <1>9, <1>10, <1>11, <1>12, <1>13, <1>14, <1>15, <1>16
        DEF UpdatesNext, TickStep, PlayerGoesOn

-----------------------------------------------------------------------------
(***************************************************************************)
(* The theorems.                                                           *)
(***************************************************************************)
LEMMA UpdatesInvInit == UpdatesInit => UpdatesInv
<1> SUFFICES ASSUME UpdatesInit PROVE UpdatesInv
  OBVIOUS
<1>1. /\ world \in [Cells -> State] /\ waiting = <<>> /\ schedule = <<>> /\ air = <<>>
      /\ landed = <<>> /\ tick = Looking /\ player = Idle /\ verbs = 0 /\ stops = 0
      /\ missed = {c \in Cells : ~Stable(c)}
      /\ book = [made |-> SandIn(world), items |-> 0, surprised |-> FALSE]
  BY UpdatesAssumption DEF UpdatesInit
<1>2. /\ MaxPending \in Nat /\ MaxFalling \in Nat /\ MaxVerbs \in Nat /\ MaxStops \in Nat
      /\ Height \in Nat \ {0} /\ 0 \in Cells
  BY UpdatesAssumption DEF Cells
<1>3. \A S : <<>> \in Seq(S) /\ Len(<<>>) = 0 /\ DOMAIN <<>> = {}
  BY EmptySeq
<1>4. QueueInv
  <2>1. missed \subseteq Near
    BY <1>1, <1>2 DEF Cells, Near
  <2>2. IsInjective(waiting)
    BY <1>1, <1>3 DEF IsInjective
  <2> QED BY <1>1, <1>2, <1>3, <2>1, <2>2 DEF QueueInv
<1>5. ScheduleInv
  BY <1>1, <1>3 DEF ScheduleInv, InOrder
<1>6. AirInv
  BY <1>1, <1>2, <1>3 DEF AirInv
<1>7. TickInv
  <2>1. 1 \in 1..MaxFalling + 1
    BY <1>2
  <2>2. Looking \in TickState /\ Looking.batch = <<>> /\ Looking.doing = "look"
    BY <1>3, <2>1, StateFacts DEF Looking, TickState
  <2> QED BY <1>1, <2>2 DEF TickInv
<1>8. SandIn(world) \in Nat
  BY <1>1, <1>2, SandChange
<1>9. WorldInv
  BY <1>1, <1>2, <1>8 DEF WorldInv, Idle
<1>10. NothingHangs
  BY <1>1 DEF NothingHangs
<1>11. EverySandIsSomewhere
  <2>1. tick.doing = "look" /\ Len(air) = 0 /\ Len(landed) = 0 /\ book.made = SandIn(world)
        /\ book.items = 0
    BY <1>1, <1>3 DEF Looking
  <2> QED BY ONLY <1>8, <2>1 DEF EverySandIsSomewhere
<1> QED BY <1>4, <1>5, <1>6, <1>7, <1>9, <1>10, <1>11 DEF UpdatesInv

LEMMA UpdatesInvHolds == UpdatesSpec => []UpdatesInv
<1>1. UpdatesInit => UpdatesInv
  BY UpdatesInvInit
<1>2. UpdatesInv /\ [UpdatesNext]_updateVars => UpdatesInv'
  BY QueueStep, ScheduleStep, AirStep, TickInvStep, WorldInvStep, HangStep, SandStep DEF UpdatesInv
<1> QED BY <1>1, <1>2, PTL DEF UpdatesSpec

\* What the queue, the schedule, the list of falling blocks, the tick and a call
\* hold is of its type at all times: the queue has no cell twice and no more
\* than MAX_PENDING, the schedule is in the order of its ticks and has no cell
\* twice, and no more than falling::MAX_ENTITIES are in the air.
THEOREM UpdatesTyped == UpdatesSpec => []UpdatesTypeOK
<1>1. UpdatesInv => UpdatesTypeOK
  <2> SUFFICES ASSUME UpdatesInv PROVE UpdatesTypeOK
    OBVIOUS
  <2>1. /\ waiting \in Seq(-1..Height) /\ Len(waiting) <= MaxPending /\ IsInjective(waiting)
        /\ missed \subseteq -1..Height
    BY DEF UpdatesInv, QueueInv, Near
  <2>2. /\ schedule \in Seq([in : Int, cell : -1..Height])
        /\ \A i, j \in DOMAIN schedule :
             i < j => schedule[i].in <= schedule[j].in /\ schedule[i].cell # schedule[j].cell
    BY DEF UpdatesInv, ScheduleInv, InOrder, Due, Near
  <2>3. air \in Seq(Entity) /\ Len(air) <= MaxFalling /\ landed \in Seq(Landing)
    <3>1. /\ air \in Seq(Airborne) /\ Len(air) <= MaxFalling
          /\ landed \in Seq({l \in Landing : Falls(l.state)})
      BY DEF UpdatesInv, AirInv
    <3>2. Airborne \subseteq Entity /\ {l \in Landing : Falls(l.state)} \subseteq Landing
      BY DEF Airborne
    <3> QED BY ONLY <3>1, <3>2
  <2>4. tick \in [ at : {"idle", "fall", "land", "due", "examine", "panicked"},
                    batch : Seq(-1..Height), index : 1..MaxFalling + 1,
                    doing : {"look", "topple", "launch", "clear", "relabel"},
                    saw : State, next : State ]
    BY DEF UpdatesInv, TickInv, TickState, Near
  <2>5. /\ world \in [Cells -> State]
        /\ player \in {Idle} \cup [ at : {"write", "touch"}, verb : {"dig", "place"},
                                    cell : Cells, saw : State, state : State ]
        /\ verbs \in 0..MaxVerbs /\ stops \in 0..MaxStops
        /\ book \in [made : Nat, items : Nat, surprised : BOOLEAN]
    BY DEF UpdatesInv, WorldInv, Calling
  <2> QED BY <2>1, <2>2, <2>3, <2>4, <2>5 DEF UpdatesTypeOK
<1> QED BY <1>1, UpdatesInvHolds, PTL

\* A torch with nothing under it, sand with nothing under it, a leaf with a wrong
\* distance or none to a log: the ticker is going to look at it, whatever players
\* did, whoever was first at the map and at the queue, unless a full queue or a
\* stop let go of it or it was generated so (updates.rs, falling.rs).
THEOREM UpdatesHangNothing == UpdatesSpec => []NothingHangs
<1>1. UpdatesInv => NothingHangs
  BY DEF UpdatesInv
<1> QED BY <1>1, UpdatesInvHolds, PTL

\* Launching, falling, landing, breaking and digging neither lose sand nor make
\* any, while no write meets another block than the look before it and no stop
\* meets sand in the air (falling.rs; updates.rs, launch and land).
THEOREM UpdatesKeepSand == UpdatesSpec => []EverySandIsSomewhere
<1>1. UpdatesInv => EverySandIsSomewhere
  BY DEF UpdatesInv
<1> QED BY <1>1, UpdatesInvHolds, PTL

=============================================================================
