--------------------------- MODULE SessionProofs ---------------------------
(***************************************************************************)
(* Two things that a session keeps for its player: the record of what the  *)
(* client was sent (StreamView), and what the player carries (Pockets).    *)
(* They share no state, and each part below stands for itself.             *)
(*                                                                         *)
(* The record, for every place a player may stand, every view distance,    *)
(* every request and every size of batch: a pass adds the same columns to  *)
(* the record and to the client, and what it takes from the one for being  *)
(* out of range it takes from the other; what it adds is in range, so      *)
(* nothing is added and taken by the same pass.  What is left on the       *)
(* record is in range, so that its count says which columns it holds,      *)
(* but after a view shrinks and before a pass has run.                     *)
(*                                                                         *)
(* The pockets, for every set of kinds, size of stack, recipe, cut and run *)
(* of slots: between two clicks every bench shows what its cells make.     *)
(* Within one, Showing(X, C) says how far it has come: the benches of X    *)
(* show anything, those of C anything too if what they show will be        *)
(* refreshed; Writes(i, j, D) says that j differs from i in slots of D     *)
(* only, and tells of all of them.                                         *)
(***************************************************************************)
EXTENDS StreamView, Pockets, SequenceTheorems, FiniteSetTheorems,
        WellFoundedInduction, TLAPS

LEMMA SquareTyped ==
  ASSUME NEW p \in Places, NEW r \in 1..Ceiling
  PROVE  Square(p, r) \subseteq Columns
BY ViewAssumption DEF Square, Columns

\* What a pass credits is in the square and was not on the record; what it
\* forgets was on the record and is out of the square; and the record changes
\* by just these (view.rs, move_to_limited).
LEMMA MoveToFacts ==
  ASSUME NEW v \in Views, NEW p \in Places, NEW cut,
         NEW change, change = MoveTo(v, p, cut)
  PROVE  /\ change.send \subseteq Square(p, v.radius) \ v.loaded
         /\ change.forget = v.loaded \ Square(p, v.radius)
         /\ change.view.loaded = (v.loaded \cup change.send) \ change.forget
         /\ change.view.centre = p /\ change.view.radius = v.radius
         /\ change.view \in Views
<1> DEFINE sent == {c \in Missing(v, p) : TurnFrom(c, p) <= cut}
           kept == v.loaded \cap Square(p, v.radius)
<1>1. sent \subseteq Square(p, v.radius) \ v.loaded
  BY DEF Missing
<1>2. /\ change.send = sent
      /\ change.forget = v.loaded \ Square(p, v.radius)
      /\ change.view = [v EXCEPT !.centre = p, !.loaded = kept \cup sent]
  BY DEF MoveTo, Next
<1>3. kept \cup sent \subseteq Columns
  BY <1>1, SquareTyped DEF Views
<1> HIDE DEF sent, kept
<1>4. /\ change.view.loaded = kept \cup sent
      /\ change.view.centre = p /\ change.view.radius = v.radius
      /\ change.view \in Views
  BY <1>2, <1>3 DEF Views
<1>5. kept \cup sent = (v.loaded \cup sent) \ (v.loaded \ Square(p, v.radius))
  BY <1>1 DEF kept
<1> QED BY <1>1, <1>2, <1>4, <1>5

\* A pass from the view v: what it leaves of the record and of the client
\* (session.rs, stream_inner).
LEMMA PassFacts ==
  ASSUME NEW v \in Views, NEW p \in Places, NEW limit, StreamPass(v, p, limit),
         client \subseteq Columns
  PROVE  /\ view' \in Views /\ client' \subseteq Columns
         /\ v.loaded \subseteq client => view'.loaded \subseteq client'
         /\ v.loaded = client => view'.loaded = client'
         /\ \A c \in client : c \in Square(view'.centre, view'.radius) => c \in client'
         /\ narrowed' \in BOOLEAN
<1>1. CASE Complete(v, p)
  BY <1>1 DEF StreamPass
<1>2. CASE ~Complete(v, p)
  <2>1. PICK cut : /\ view' = MoveTo(v, p, cut).view
                   /\ client' = (client \cup MoveTo(v, p, cut).send)
                                  \ MoveTo(v, p, cut).forget
    BY <1>2 DEF StreamPass
  <2>2. PICK change : change = MoveTo(v, p, cut)
    OBVIOUS
  <2>3. /\ change.send \subseteq Square(p, v.radius) \ v.loaded
        /\ change.forget = v.loaded \ Square(p, v.radius)
        /\ change.view.loaded = (v.loaded \cup change.send) \ change.forget
        /\ change.view.centre = p /\ change.view.radius = v.radius
        /\ change.view \in Views
    BY <2>2, MoveToFacts
  <2>4. view' = change.view /\ client' = (client \cup change.send) \ change.forget
    BY <2>1, <2>2
  <2>5. change.send \subseteq Columns
    BY <2>3, SquareTyped DEF Views
  <2> QED BY <1>2, <2>3, <2>4, <2>5 DEF StreamPass
<1> QED BY <1>1, <1>2

-----------------------------------------------------------------------------
(* The steps. *)

\* A step of a session that keeps up is a pass from the record as it is, or from
\* the same record with another radius (session.rs, play_loop).
LEMMA NextIsPass ==
  ASSUME ViewTypeOK, ViewNext
  PROVE  \E v \in Views, p \in Places, limit \in Nat :
           StreamPass(v, p, limit) /\ v.loaded = view.loaded /\ player' \in Places
<1>0. view \in Views /\ player \in Places /\ First \in Nat /\ Batch \in Nat
  BY ViewAssumption DEF ViewTypeOK
<1>1. CASE JoinPass
  BY <1>0, <1>1 DEF JoinPass
<1>2. CASE StreamTick
  BY <1>0, <1>2 DEF StreamTick
<1>3. ASSUME NEW p \in Places, Moved(p)
      PROVE  StreamPass(view, p, Batch) /\ player' \in Places
  BY <1>3 DEF Moved
<1>4. ASSUME NEW asked \in Asked, SetRadius(asked)
      PROVE  \E v \in Views :
               StreamPass(v, player, Batch) /\ v.loaded = view.loaded /\ player' \in Places
  <2>1. Reach(asked) \in 1..Ceiling
    BY <1>4, ViewAssumption DEF Reach, SetRadius
  <2>2. PICK v : v = [view EXCEPT !.radius = Reach(asked)]
    OBVIOUS
  <2>3. v \in Views /\ v.loaded = view.loaded
    BY <1>0, <2>1, <2>2 DEF Views
  <2>4. StreamPass(v, player, Batch) /\ player' \in Places
    BY <1>0, <1>4, <2>2 DEF SetRadius
  <2> QED BY <2>3, <2>4
<1> QED BY <1>0, <1>1, <1>2, <1>3, <1>4 DEF ViewNext

\* After a lag the pass is from an empty record (session.rs, RecvError::Lagged).
LEMMA LaggedIsPass ==
  ASSUME ViewTypeOK, Lagged
  PROVE  \E v \in Views, p \in Places, limit \in Nat :
           StreamPass(v, p, limit) /\ v.loaded = {} /\ player' \in Places
<1>0. view \in Views /\ player \in Places /\ Batch \in Nat
  BY ViewAssumption DEF ViewTypeOK
<1>1. PICK v : v = [view EXCEPT !.loaded = {}, !.centre = None]
  OBVIOUS
<1>2. v \in Views /\ v.loaded = {}
  BY <1>0, <1>1 DEF Views
<1>3. StreamPass(v, view.centre, Batch) /\ view.centre \in Places /\ player' \in Places
  BY <1>0, <1>1 DEF Lagged, Views
<1> QED BY <1>0, <1>2, <1>3

\* Either way it is a pass from a record that credits nothing new.
LEMMA StepIsPass ==
  ASSUME ViewTypeOK, ViewNext \/ Lagged
  PROVE  \E v \in Views, p \in Places, limit \in Nat :
           StreamPass(v, p, limit) /\ v.loaded \subseteq view.loaded /\ player' \in Places
<1>1. CASE ViewNext
  BY <1>1, NextIsPass
<1>2. CASE Lagged
  BY <1>2, LaggedIsPass
<1> QED BY <1>1, <1>2

\* The record, the player and the client have their types after any history of
\* moves, requests and lags; a radius is never above what the operator allows
\* (view.rs, with_radius and set_radius).
THEOREM ViewIsTyped == LagSpec => []ViewTypeOK
<1>1. Init => ViewTypeOK
  <2> SUFFICES ASSUME Init PROVE ViewTypeOK
    OBVIOUS
  <2>1. \A asked \in {a \in Asked : a > 0} : Reach(asked) \in 1..Ceiling
    BY ViewAssumption DEF Reach
  <2>2. Ceiling \in 1..Ceiling
    BY ViewAssumption
  <2>3. PICK r \in 1..Ceiling : view = [loaded |-> {}, centre |-> None, radius |-> r]
    BY <2>1, <2>2 DEF Init
  <2>4. view \in Views
    BY <2>3 DEF Views
  <2> QED BY <2>4 DEF Init, ViewTypeOK
<1>2. ViewTypeOK /\ [ViewNext \/ Lagged]_viewVars => ViewTypeOK'
  <2> SUFFICES ASSUME ViewTypeOK, [ViewNext \/ Lagged]_viewVars PROVE ViewTypeOK'
    OBVIOUS
  <2>1. CASE ViewNext \/ Lagged
    <3>1. PICK v \in Views, p \in Places, limit \in Nat :
            StreamPass(v, p, limit) /\ player' \in Places
      BY <2>1, StepIsPass
    <3>2. view' \in Views /\ client' \subseteq Columns /\ narrowed' \in BOOLEAN
      BY <3>1, PassFacts DEF ViewTypeOK
    <3> QED BY <3>1, <3>2 DEF ViewTypeOK
  <2>2. CASE UNCHANGED viewVars
    BY <2>2 DEF viewVars, ViewTypeOK
  <2> QED BY <2>1, <2>2
<1> QED BY <1>1, <1>2, PTL DEF LagSpec

\* A column is never credited to a client that was not sent it, lag or no lag
\* (view.rs, move_to_limited).
THEOREM CreditedIsAlwaysSent == LagSpec => []CreditedWasSent
<1>1. Init => CreditedWasSent
  BY DEF Init, CreditedWasSent
<1>2. ViewTypeOK /\ CreditedWasSent /\ [ViewNext \/ Lagged]_viewVars => CreditedWasSent'
  <2> SUFFICES ASSUME ViewTypeOK, CreditedWasSent, [ViewNext \/ Lagged]_viewVars
               PROVE  CreditedWasSent'
    OBVIOUS
  <2>1. CASE ViewNext \/ Lagged
    <3>1. PICK v \in Views, p \in Places, limit \in Nat :
            StreamPass(v, p, limit) /\ v.loaded \subseteq view.loaded
      BY <2>1, StepIsPass
    <3>2. v.loaded \subseteq client
      BY <3>1 DEF CreditedWasSent
    <3> QED BY <3>1, <3>2, PassFacts DEF CreditedWasSent, ViewTypeOK
  <2>2. CASE UNCHANGED viewVars
    BY <2>2 DEF viewVars, CreditedWasSent
  <2> QED BY <2>1, <2>2
<1> QED BY <1>1, <1>2, ViewIsTyped, PTL DEF LagSpec

\* A session that never lags is a session that may.
LEMMA KeepingUp == ViewSpec => LagSpec
<1>1. [ViewNext]_viewVars => [ViewNext \/ Lagged]_viewVars
  OBVIOUS
<1> QED BY <1>1, PTL DEF ViewSpec, LagSpec

\* The record of a session that keeps up is exactly what its client holds:
\* "the record cannot drift" (session.rs).
THEOREM RecordCannotDrift == ViewSpec => []RecordIsClient
<1>1. Init => RecordIsClient
  BY DEF Init, RecordIsClient
<1>2. ViewTypeOK /\ RecordIsClient /\ [ViewNext]_viewVars => RecordIsClient'
  <2> SUFFICES ASSUME ViewTypeOK, RecordIsClient, [ViewNext]_viewVars
               PROVE  RecordIsClient'
    OBVIOUS
  <2>1. CASE ViewNext
    <3>1. PICK v \in Views, p \in Places, limit \in Nat :
            StreamPass(v, p, limit) /\ v.loaded = view.loaded
      BY <2>1, NextIsPass
    <3>2. v.loaded = client
      BY <3>1 DEF RecordIsClient
    <3> QED BY <3>1, <3>2, PassFacts DEF RecordIsClient, ViewTypeOK
  <2>2. CASE UNCHANGED viewVars
    BY <2>2 DEF viewVars, RecordIsClient
  <2> QED BY <2>1, <2>2
<1> QED BY <1>1, <1>2, ViewIsTyped, KeepingUp, PTL DEF ViewSpec

\* No step takes a column that is in range before and after it from the client
\* (view.rs, move_to_limited), not even after a lag: the empty record of then
\* has nothing to forget.
THEOREM InRangeColumnsAreKept == LagSpec => InRangeIsKept
<1> DEFINE Keeps ==
      view.centre # None =>
        client \cap Square(view.centre, view.radius)
               \cap Square(view'.centre, view'.radius) \subseteq client'
<1>1. ViewTypeOK /\ [ViewNext \/ Lagged]_viewVars => [Keeps]_viewVars
  <2> SUFFICES ASSUME ViewTypeOK, ViewNext \/ Lagged PROVE Keeps
    OBVIOUS
  <2>1. PICK v \in Views, p \in Places, limit \in Nat : StreamPass(v, p, limit)
    BY StepIsPass
  <2> QED BY <2>1, PassFacts DEF ViewTypeOK
<1> HIDE DEF Keeps
<1>2. LagSpec => [][Keeps]_viewVars
  BY <1>1, ViewIsTyped, PTL DEF LagSpec
<1> QED BY <1>2 DEF InRangeIsKept, Keeps

-----------------------------------------------------------------------------
(***************************************************************************)
(* When `complete` may be believed.  It counts; the count says which       *)
(* columns only while what is on the record is in range.  Moving keeps it  *)
(* so, a lag and a wider view too.  A view that shrinks does not, until a  *)
(* pass has run.                                                           *)
(***************************************************************************)

\* What is credited is in range of where the last pass was, if the view was not
\* narrowed since.
LoadedInRange ==
  /\ view.centre = None => view.loaded = {}
  /\ view.centre # None /\ ~narrowed
       => view.loaded \subseteq Square(view.centre, view.radius)

\* The square has as many columns as `complete` counts on (view.rs, complete).
LEMMA SquareSize ==
  ASSUME NEW p \in Places, NEW r \in 1..Ceiling
  PROVE  /\ IsFiniteSet(Square(p, r))
         /\ Cardinality(Square(p, r)) = (2 * r + 1) * (2 * r + 1)
<1> DEFINE side == -r..r
           at   == [o \in side \X side |-> <<p[1] + o[1], p[2] + o[2]>>]
<1>0. r \in Int /\ -r \in Int /\ p[1] \in Int /\ p[2] \in Int /\ ~(-r > r)
  BY ViewAssumption
<1>1. IsFiniteSet(side) /\ Cardinality(side) = 2 * r + 1
  <2>1. IsFiniteSet(-r..r) /\ Cardinality(-r..r) = IF -r > r THEN 0 ELSE r - (-r) + 1
    BY <1>0, FS_Interval
  <2> QED BY <1>0, <2>1
<1>2. /\ IsFiniteSet(side \X side)
      /\ Cardinality(side \X side) = (2 * r + 1) * (2 * r + 1)
  <2>1. /\ IsFiniteSet(side \X side)
        /\ Cardinality(side \X side) = Cardinality(side) * Cardinality(side)
    BY <1>1, FS_Product
  <2> QED BY <1>1, <2>1
<1>3. at \in Bijection(side \X side, Square(p, r))
  <2>1. \A o \in side \X side : at[o] \in Square(p, r)
    BY DEF Square
  <2>2. \A o, u \in side \X side : at[o] = at[u] => o = u
    BY <1>0
  <2>3. \A c \in Square(p, r) : \E o \in side \X side : at[o] = c
    <3> SUFFICES ASSUME NEW c \in Square(p, r)
                 PROVE  \E o \in side \X side : at[o] = c
      OBVIOUS
    <3>1. PICK dx \in side, dz \in side : c = <<p[1] + dx, p[2] + dz>>
      BY DEF Square
    <3>2. <<dx, dz>> \in side \X side /\ at[<<dx, dz>>] = c
      BY <3>1
    <3> QED BY <3>2
  <2>4. at \in [side \X side -> Square(p, r)]
    BY <2>1
  <2> HIDE DEF at, side
  <2>5. DOMAIN at = side \X side
    BY <2>4
  <2> QED BY <2>2, <2>3, <2>4, <2>5 DEF Bijection, Injection, Surjection, IsInjective
<1>4. ExistsBijection(side \X side, Square(p, r))
  BY <1>3 DEF ExistsBijection
<1> HIDE DEF side, at
<1> QED BY <1>2, <1>4, FS_Bijection

\* A wider square about the same place holds the narrower one.
LEMMA SquareGrows ==
  ASSUME NEW p \in Places, NEW r \in 1..Ceiling, NEW s \in 1..Ceiling, r <= s
  PROVE  Square(p, r) \subseteq Square(p, s)
BY ViewAssumption DEF Square

\* A pass that ran leaves on the record only what is in range; one that was
\* skipped leaves what it found (view.rs, move_to_limited; session.rs,
\* stream_inner).
LEMMA PassInRange ==
  ASSUME NEW v \in Views, NEW p \in Places, NEW limit, StreamPass(v, p, limit),
         v.centre # None /\ ~narrowed /\ ~(v.radius < view.radius)
           => v.loaded \subseteq Square(v.centre, v.radius)
  PROVE  /\ view'.centre = p
         /\ ~narrowed' => view'.loaded \subseteq Square(p, view'.radius)
<1>1. CASE Complete(v, p)
  <2>1. p # None
    BY ViewAssumption
  <2> QED BY <1>1, <2>1 DEF StreamPass, Complete
<1>2. CASE ~Complete(v, p)
  <2>1. PICK cut : view' = MoveTo(v, p, cut).view
    BY <1>2 DEF StreamPass
  <2>2. PICK change : change = MoveTo(v, p, cut)
    OBVIOUS
  <2>3. /\ change.send \subseteq Square(p, v.radius) \ v.loaded
        /\ change.forget = v.loaded \ Square(p, v.radius)
        /\ change.view.loaded = (v.loaded \cup change.send) \ change.forget
        /\ change.view.centre = p /\ change.view.radius = v.radius
    BY <2>2, MoveToFacts
  <2> QED BY <2>1, <2>2, <2>3
<1> QED BY <1>1, <1>2

\* Every step calls the pass with such a view.
LEMMA StepInRange ==
  ASSUME ViewTypeOK, LoadedInRange, ViewNext \/ Lagged
  PROVE  LoadedInRange'
<1>0. /\ view \in Views /\ player \in Places /\ First \in Nat /\ Batch \in Nat
      /\ None \notin Places
  BY ViewAssumption DEF ViewTypeOK
<1>1. SUFFICES \E v \in Views, p \in Places, limit \in Nat :
        /\ StreamPass(v, p, limit)
        /\ v.centre # None /\ ~narrowed /\ ~(v.radius < view.radius)
             => v.loaded \subseteq Square(v.centre, v.radius)
  <2>1. PICK v \in Views, p \in Places, limit \in Nat :
          /\ StreamPass(v, p, limit)
          /\ v.centre # None /\ ~narrowed /\ ~(v.radius < view.radius)
               => v.loaded \subseteq Square(v.centre, v.radius)
    BY <1>1
  <2>2. /\ view'.centre = p
        /\ ~narrowed' => view'.loaded \subseteq Square(p, view'.radius)
    BY <2>1, PassInRange
  <2> QED BY <1>0, <2>2 DEF LoadedInRange
<1>2. view.centre # None /\ ~narrowed
        => view.loaded \subseteq Square(view.centre, view.radius)
  BY DEF LoadedInRange
<1>3. CASE JoinPass
  BY <1>0, <1>2, <1>3 DEF JoinPass
<1>4. CASE StreamTick
  BY <1>0, <1>2, <1>4 DEF StreamTick
<1>5. CASE \E p \in Places : Moved(p)
  BY <1>0, <1>2, <1>5 DEF Moved
<1>6. ASSUME NEW asked \in Asked, SetRadius(asked)
      PROVE  \E v \in Views :
               /\ StreamPass(v, player, Batch)
               /\ v.centre # None /\ ~narrowed /\ ~(v.radius < view.radius)
                    => v.loaded \subseteq Square(v.centre, v.radius)
  <2>1. Reach(asked) \in 1..Ceiling
    BY <1>6, ViewAssumption DEF Reach, SetRadius
  <2>2. PICK v : v = [view EXCEPT !.radius = Reach(asked)]
    OBVIOUS
  <2>3. /\ v \in Views /\ v.loaded = view.loaded /\ v.centre = view.centre
        /\ v.radius = Reach(asked)
    BY <1>0, <2>1, <2>2 DEF Views
  <2>4. StreamPass(v, player, Batch) /\ view.centre # None
    BY <1>6, <2>2 DEF SetRadius
  <2>5. view.radius \in 1..Ceiling /\ view.centre \in Places
    BY <1>0, <2>4 DEF Views
  <2>6. ASSUME ~(v.radius < view.radius)
        PROVE  Square(view.centre, view.radius) \subseteq Square(view.centre, v.radius)
    <3>1. view.radius <= v.radius
      BY <2>1, <2>3, <2>5, <2>6, ViewAssumption
    <3> QED BY <2>1, <2>3, <2>5, <3>1, SquareGrows
  <2> QED BY <1>2, <2>3, <2>4, <2>6
<1>7. CASE Lagged
  <2>1. PICK v : v = [view EXCEPT !.loaded = {}, !.centre = None]
    OBVIOUS
  <2>2. v \in Views /\ v.loaded = {}
    BY <1>0, <2>1 DEF Views
  <2>3. StreamPass(v, view.centre, Batch) /\ view.centre \in Places
    BY <1>0, <1>7, <2>1 DEF Lagged, Views
  <2> QED BY <1>0, <2>2, <2>3
<1> QED BY <1>0, <1>3, <1>4, <1>5, <1>6, <1>7 DEF ViewNext

\* A view that says it is complete is: the pass that is skipped had nothing to
\* do, through any moves, lags and requests, but for a pass that is skipped right
\* after the view was narrowed (view.rs, complete; session.rs, stream_inner).
THEOREM CompleteUnlessSkipped == LagSpec => []CompleteUnlessNarrowed
<1>1. Init => LoadedInRange
  BY DEF Init, LoadedInRange
<1>2. ViewTypeOK /\ LoadedInRange /\ [ViewNext \/ Lagged]_viewVars => LoadedInRange'
  <2> SUFFICES ASSUME ViewTypeOK, LoadedInRange, [ViewNext \/ Lagged]_viewVars
               PROVE  LoadedInRange'
    OBVIOUS
  <2>1. CASE UNCHANGED viewVars
    BY <2>1 DEF viewVars, LoadedInRange
  <2>2. CASE ViewNext \/ Lagged
    BY <2>2, StepInRange
  <2> QED BY <2>1, <2>2
<1>3. ViewTypeOK /\ LoadedInRange => CompleteUnlessNarrowed
  <2> SUFFICES ASSUME ViewTypeOK, LoadedInRange, ~narrowed, Complete(view, player)
               PROVE  view.loaded = Square(player, view.radius)
    BY DEF CompleteUnlessNarrowed, CompleteIsWhole
  <2>1. player \in Places /\ view.radius \in 1..Ceiling /\ player # None
    BY ViewAssumption DEF ViewTypeOK, Views
  <2>2. view.centre = player
        /\ Cardinality(view.loaded) = (2 * view.radius + 1) * (2 * view.radius + 1)
    BY DEF Complete
  <2>3. view.loaded \subseteq Square(player, view.radius)
    BY <2>1, <2>2 DEF LoadedInRange
  <2>4. /\ IsFiniteSet(Square(player, view.radius))
        /\ Cardinality(Square(player, view.radius)) = Cardinality(view.loaded)
    BY <2>1, <2>2, SquareSize
  <2> QED BY <2>3, <2>4, FS_Subset
<1> QED BY <1>1, <1>2, <1>3, ViewIsTyped, PTL DEF LagSpec
-----------------------------------------------------------------------------
(***************************************************************************)
(* Loops over a run of slots.  A turn takes what was so before it to what  *)
(* is so after it: P[i] is where i turns may have led.                     *)
(***************************************************************************)
Earlier == {p \in Nat \X Nat : p[1] < p[2]}

\* A set of numbers that is not empty has a least one.
LEMMA LeastNumber ==
  ASSUME NEW T, T \subseteq Nat, T # {}
  PROVE  \E n \in T : \A m \in T : n <= m
<1>1. IsWellFoundedOn(Earlier, Nat)
  BY NatLessThanWellFounded DEF Earlier, OpToRel
<1>2. PICK n \in T : \A m \in T : <<m, n>> \notin Earlier
  BY <1>1, WFMin
<1>3. ASSUME NEW m \in T PROVE n <= m
  <2>1. m \in Nat /\ n \in Nat /\ (m < n => <<m, n>> \in Earlier)
    BY DEF Earlier
  <2> QED BY <1>2, <2>1
<1> QED BY <1>3

Follows(f, n, base, step) ==
  f = [i \in 0..n |-> IF i = 0 THEN base ELSE step[<<f[i - 1], i>>]]

Stays(f, n, P) == \A i \in 0..n : f[i] \in P[i]
Advances(f, n, P) == \A i \in 1..n : f[i - 1] \in P[i - 1] => f[i] \in P[i]

\* What holds before a loop and is kept by its turns holds throughout.
LEMMA LoopStays ==
  ASSUME NEW n \in Nat, NEW P, NEW f, f[0] \in P[0], Advances(f, n, P)
  PROVE  Stays(f, n, P)
<1> DEFINE T == {i \in Nat : i \in 0..n /\ f[i] \notin P[i]}
<1>0. T \subseteq Nat /\ \A i \in Nat : i \in T <=> (i \in 0..n /\ f[i] \notin P[i])
  OBVIOUS
<1>1. ASSUME T # {} PROVE FALSE
  <2>1. PICK m \in T : \A k \in T : m <= k
    <3> HIDE DEF T
    <3> QED BY <1>0, <1>1, LeastNumber
  <2>2. m \in Nat /\ m # 0 /\ m \in 0..n /\ f[m] \notin P[m]
    BY <2>1
  <2>3. m \in 1..n /\ m - 1 \in 0..n /\ m - 1 \in Nat /\ m - 1 \notin T
    <3> HIDE DEF T
    <3> QED BY <2>1, <2>2
  <2>4. f[m - 1] \in P[m - 1]
    <3> HIDE DEF T
    <3> QED BY <1>0, <2>3
  <2> QED BY <2>2, <2>3, <2>4 DEF Advances
<1>2. \A i \in 0..n : i \in Nat
  OBVIOUS
<1> HIDE DEF T
<1> QED BY <1>0, <1>1, <1>2 DEF Stays

\* A loop whose turns are a function runs to its end.
LEMMA LoopRuns ==
  ASSUME NEW n \in Nat, NEW base, NEW step
  PROVE  \E f : Follows(f, n, base, step)
<1> DEFINE T == {m \in Nat : \A f : ~Follows(f, m, base, step)}
<1>0. T \subseteq Nat /\ \A m \in Nat : m \in T \/ \E f : Follows(f, m, base, step)
  OBVIOUS
<1>1. ASSUME T # {} PROVE FALSE
  <2>1. PICK m \in T : \A k \in T : m <= k
    <3> HIDE DEF T
    <3> QED BY <1>0, <1>1, LeastNumber
  <2>2. m # 0
    <3>1. Follows([t \in 0..0 |-> base], 0, base, step)
      BY DEF Follows
    <3> QED BY <3>1
  <2>3. m \in Nat /\ m - 1 \in Nat /\ m - 1 \notin T
    <3> HIDE DEF T
    <3> QED BY <1>0, <2>1, <2>2
  <2>4. PICK g : Follows(g, m - 1, base, step)
    BY <2>3
  <2> DEFINE h == [t \in 0..m |-> IF t < m THEN g[t] ELSE step[<<g[m - 1], m>>]]
  <2>5. \A t \in 0..m : h[t] = IF t = 0 THEN base ELSE step[<<h[t - 1], t>>]
    <3> SUFFICES ASSUME NEW t \in 0..m
                 PROVE  h[t] = IF t = 0 THEN base ELSE step[<<h[t - 1], t>>]
      OBVIOUS
    <3>1. CASE t < m
      <4>1. t \in 0..m - 1 /\ h[t] = g[t] /\ (t # 0 => t - 1 \in 0..m /\ t - 1 < m)
        BY <3>1, <2>2
      <4>2. t # 0 => h[t - 1] = g[t - 1]
        BY <4>1
      <4>3. g[t] = IF t = 0 THEN base ELSE step[<<g[t - 1], t>>]
        BY <4>1, <2>4 DEF Follows
      <4> QED BY <4>1, <4>2, <4>3
    <3>2. CASE t = m
      <4>1. h[t] = step[<<g[m - 1], m>>] /\ h[m - 1] = g[m - 1] /\ t # 0
        BY <3>2, <2>2
      <4> QED BY <3>2, <4>1
    <3> QED BY <3>1, <3>2
  <2>6. Follows(h, m, base, step)
    BY <2>5 DEF Follows
  <2> QED BY <2>1, <2>6
<1>2. n \notin T
  BY <1>1
<1> HIDE DEF T
<1> QED BY <1>0, <1>2

\* A loop of turns that lead from each P[i - 1] to P[i] exists and ends in the last.
LEMMA LoopLeads ==
  ASSUME NEW n \in Nat, NEW P, NEW base \in P[0], NEW step,
         \A i \in 1..n : \A a \in P[i - 1] : step[<<a, i>>] \in P[i]
  PROVE  \E f : Follows(f, n, base, step) /\ Stays(f, n, P)
<1>1. PICK f : Follows(f, n, base, step)
  BY LoopRuns
<1>2. f[0] = base /\ \A i \in 1..n : f[i] = step[<<f[i - 1], i>>]
  BY <1>1 DEF Follows
<1>3. Advances(f, n, P)
  BY <1>2 DEF Advances
<1> QED BY <1>1, <1>2, <1>3, LoopStays

\* The turns of the loops.
FillOne(laid, k) == IF k = NoKind THEN laid ELSE Append(laid, k)
AgainOne(i, w) == IF i.changed \cap Range(Cells[w]) = {} THEN i ELSE RefreshOutput(i, w)
SpendOne(i, s, w) == IF w \in {"player", "table"} THEN SpendCrafted(i, s) ELSE SpendPlain(i, s)
TryOne(a, run, stack) == IF a.left = stack THEN MoveInto(a.inv, stack, run) ELSE a
TurnOne(i, w, slot) == IF slot = Output[w] THEN QuickMoveResultOnce(i, w) ELSE QuickMoveOnce(i, w, slot)
ReturnOne(i, s) == IF i.slots[s] = Empty THEN i ELSE Give(Put(i, s, Empty), i.slots[s])
GatherOne(i, s, kind) ==
  LET moved == Lower(i.slots[s].count, StackSize[kind] - i.cursor.count)
  IN IF ~Writable(s) \/ i.slots[s].kind # kind \/ moved = 0 THEN i
     ELSE Hold(Put(i, s, Less(i.slots[s], moved)), More(i.cursor, moved))
PartOne(i, s, kind) == IF i.slots[s].count < StackSize[kind] THEN GatherOne(i, s, kind) ELSE i
LayOne(a, s, held, over, kind, share) ==
  LET want == Lower(share, Room(a.inv, s, held.kind))
      take == IF kind = 2 THEN want ELSE Lower(want, a.left)
  IN IF s \notin over \/ take <= 0 THEN a
     ELSE [ inv  |-> Put(a.inv, s, [held EXCEPT !.count = a.inv.slots[s].count + take]),
            left |-> IF kind = 2 THEN a.left ELSE a.left - take ]

\* Onto stacks of its kind.
GrowTurns(f, base, run) ==
  f = [i \in 0..Len(run) |-> IF i = 0 THEN base ELSE Grow(f[i - 1], run[i])]
GrowEnd(base, run) == (CHOOSE f : GrowTurns(f, base, run))[Len(run)]
GrowLeads(run, P) ==
  \A i \in 1..Len(run) : \A a \in P[i - 1] : Grow(a, run[i]) \in P[i]

LEMMA GrowLoop ==
  ASSUME NEW P, NEW base \in P[0], NEW run, Len(run) \in Nat, GrowLeads(run, P)
  PROVE  GrowEnd(base, run) \in P[Len(run)]
<1> DEFINE n == Len(run)
           U == UNION {P[i] : i \in 0..n}
           step == [u \in U \X (1..n) |-> Grow(u[1], run[u[2]])]
<1>1. \A i \in 1..n : i - 1 \in 0..n
  OBVIOUS
<1>2. \A i \in 1..n : \A a \in P[i - 1] : step[<<a, i>>] = Grow(a, run[i])
  BY <1>1
<1>3. \A i \in 1..n : \A a \in P[i - 1] : step[<<a, i>>] \in P[i]
  BY <1>2 DEF GrowLeads
<1> HIDE DEF step
<1>4. PICK f : Follows(f, n, base, step) /\ Stays(f, n, P)
  BY <1>3, LoopLeads
<1>5. \A i \in 0..n : f[i] = IF i = 0 THEN base ELSE Grow(f[i - 1], run[i])
  <2>1. \A i \in 1..n : f[i] = step[<<f[i - 1], i>>] /\ f[i - 1] \in P[i - 1]
    BY <1>1, <1>4 DEF Follows, Stays
  <2>2. \A i \in 1..n : f[i] = Grow(f[i - 1], run[i])
    BY <1>2, <2>1
  <2>3. f[0] = base /\ \A i \in 0..n : i = 0 \/ i \in 1..n
    BY <1>4 DEF Follows
  <2> QED BY <2>2, <2>3
<1>6. GrowTurns(f, base, run)
  <2>1. f = [i \in 0..n |-> f[i]]
    BY <1>4 DEF Follows
  <2> QED BY <1>5, <2>1 DEF GrowTurns
<1> DEFINE g == CHOOSE h : GrowTurns(h, base, run)
<1>7. GrowTurns(g, base, run)
  BY <1>6
<1> HIDE DEF g
<1>8. g[0] = base /\ \A i \in 1..n : g[i] = Grow(g[i - 1], run[i])
  BY <1>7 DEF GrowTurns
<1>9. Advances(g, n, P)
  BY <1>8 DEF Advances, GrowLeads
<1>10. Stays(g, n, P)
  BY <1>8, <1>9, LoopStays
<1> QED BY <1>10 DEF Stays, g, GrowEnd

\* The kinds that are laid.
FillTurns(f, base, run) ==
  f = [i \in 0..Len(run) |-> IF i = 0 THEN base ELSE FillOne(f[i - 1], run[i])]
FillEnd(base, run) == (CHOOSE f : FillTurns(f, base, run))[Len(run)]
FillLeads(run, P) ==
  \A i \in 1..Len(run) : \A a \in P[i - 1] : FillOne(a, run[i]) \in P[i]

LEMMA FillLoop ==
  ASSUME NEW P, NEW base \in P[0], NEW run, Len(run) \in Nat, FillLeads(run, P)
  PROVE  FillEnd(base, run) \in P[Len(run)]
<1> DEFINE n == Len(run)
           U == UNION {P[i] : i \in 0..n}
           step == [u \in U \X (1..n) |-> FillOne(u[1], run[u[2]])]
<1>1. \A i \in 1..n : i - 1 \in 0..n
  OBVIOUS
<1>2. \A i \in 1..n : \A a \in P[i - 1] : step[<<a, i>>] = FillOne(a, run[i])
  BY <1>1
<1>3. \A i \in 1..n : \A a \in P[i - 1] : step[<<a, i>>] \in P[i]
  BY <1>2 DEF FillLeads
<1> HIDE DEF step
<1>4. PICK f : Follows(f, n, base, step) /\ Stays(f, n, P)
  BY <1>3, LoopLeads
<1>5. \A i \in 0..n : f[i] = IF i = 0 THEN base ELSE FillOne(f[i - 1], run[i])
  <2>1. \A i \in 1..n : f[i] = step[<<f[i - 1], i>>] /\ f[i - 1] \in P[i - 1]
    BY <1>1, <1>4 DEF Follows, Stays
  <2>2. \A i \in 1..n : f[i] = FillOne(f[i - 1], run[i])
    BY <1>2, <2>1
  <2>3. f[0] = base /\ \A i \in 0..n : i = 0 \/ i \in 1..n
    BY <1>4 DEF Follows
  <2> QED BY <2>2, <2>3
<1>6. FillTurns(f, base, run)
  <2>1. f = [i \in 0..n |-> f[i]]
    BY <1>4 DEF Follows
  <2> QED BY <1>5, <2>1 DEF FillTurns
<1> DEFINE g == CHOOSE h : FillTurns(h, base, run)
<1>7. FillTurns(g, base, run)
  BY <1>6
<1> HIDE DEF g
<1>8. g[0] = base /\ \A i \in 1..n : g[i] = FillOne(g[i - 1], run[i])
  BY <1>7 DEF FillTurns
<1>9. Advances(g, n, P)
  BY <1>8 DEF Advances, FillLeads
<1>10. Stays(g, n, P)
  BY <1>8, <1>9, LoopStays
<1> QED BY <1>10 DEF Stays, g, FillEnd

\* The benches, refreshed.
AgainTurns(f, base, run) ==
  f = [i \in 0..Len(run) |-> IF i = 0 THEN base ELSE AgainOne(f[i - 1], run[i])]
AgainEnd(base, run) == (CHOOSE f : AgainTurns(f, base, run))[Len(run)]
AgainLeads(run, P) ==
  \A i \in 1..Len(run) : \A a \in P[i - 1] : AgainOne(a, run[i]) \in P[i]

LEMMA AgainLoop ==
  ASSUME NEW P, NEW base \in P[0], NEW run, Len(run) \in Nat, AgainLeads(run, P)
  PROVE  AgainEnd(base, run) \in P[Len(run)]
<1> DEFINE n == Len(run)
           U == UNION {P[i] : i \in 0..n}
           step == [u \in U \X (1..n) |-> AgainOne(u[1], run[u[2]])]
<1>1. \A i \in 1..n : i - 1 \in 0..n
  OBVIOUS
<1>2. \A i \in 1..n : \A a \in P[i - 1] : step[<<a, i>>] = AgainOne(a, run[i])
  BY <1>1
<1>3. \A i \in 1..n : \A a \in P[i - 1] : step[<<a, i>>] \in P[i]
  BY <1>2 DEF AgainLeads
<1> HIDE DEF step
<1>4. PICK f : Follows(f, n, base, step) /\ Stays(f, n, P)
  BY <1>3, LoopLeads
<1>5. \A i \in 0..n : f[i] = IF i = 0 THEN base ELSE AgainOne(f[i - 1], run[i])
  <2>1. \A i \in 1..n : f[i] = step[<<f[i - 1], i>>] /\ f[i - 1] \in P[i - 1]
    BY <1>1, <1>4 DEF Follows, Stays
  <2>2. \A i \in 1..n : f[i] = AgainOne(f[i - 1], run[i])
    BY <1>2, <2>1
  <2>3. f[0] = base /\ \A i \in 0..n : i = 0 \/ i \in 1..n
    BY <1>4 DEF Follows
  <2> QED BY <2>2, <2>3
<1>6. AgainTurns(f, base, run)
  <2>1. f = [i \in 0..n |-> f[i]]
    BY <1>4 DEF Follows
  <2> QED BY <1>5, <2>1 DEF AgainTurns
<1> DEFINE g == CHOOSE h : AgainTurns(h, base, run)
<1>7. AgainTurns(g, base, run)
  BY <1>6
<1> HIDE DEF g
<1>8. g[0] = base /\ \A i \in 1..n : g[i] = AgainOne(g[i - 1], run[i])
  BY <1>7 DEF AgainTurns
<1>9. Advances(g, n, P)
  BY <1>8 DEF Advances, AgainLeads
<1>10. Stays(g, n, P)
  BY <1>8, <1>9, LoopStays
<1> QED BY <1>10 DEF Stays, g, AgainEnd

\* The cells, spent.
SpendTurns(f, base, run, w) ==
  f = [i \in 0..Len(run) |-> IF i = 0 THEN base ELSE SpendOne(f[i - 1], run[i], w)]
SpendEnd(base, run, w) == (CHOOSE f : SpendTurns(f, base, run, w))[Len(run)]
SpendLeads(run, P, w) ==
  \A i \in 1..Len(run) : \A a \in P[i - 1] : SpendOne(a, run[i], w) \in P[i]

LEMMA SpendLoop ==
  ASSUME NEW P, NEW base \in P[0], NEW run, Len(run) \in Nat, NEW w, SpendLeads(run, P, w)
  PROVE  SpendEnd(base, run, w) \in P[Len(run)]
<1> DEFINE n == Len(run)
           U == UNION {P[i] : i \in 0..n}
           step == [u \in U \X (1..n) |-> SpendOne(u[1], run[u[2]], w)]
<1>1. \A i \in 1..n : i - 1 \in 0..n
  OBVIOUS
<1>2. \A i \in 1..n : \A a \in P[i - 1] : step[<<a, i>>] = SpendOne(a, run[i], w)
  BY <1>1
<1>3. \A i \in 1..n : \A a \in P[i - 1] : step[<<a, i>>] \in P[i]
  BY <1>2 DEF SpendLeads
<1> HIDE DEF step
<1>4. PICK f : Follows(f, n, base, step) /\ Stays(f, n, P)
  BY <1>3, LoopLeads
<1>5. \A i \in 0..n : f[i] = IF i = 0 THEN base ELSE SpendOne(f[i - 1], run[i], w)
  <2>1. \A i \in 1..n : f[i] = step[<<f[i - 1], i>>] /\ f[i - 1] \in P[i - 1]
    BY <1>1, <1>4 DEF Follows, Stays
  <2>2. \A i \in 1..n : f[i] = SpendOne(f[i - 1], run[i], w)
    BY <1>2, <2>1
  <2>3. f[0] = base /\ \A i \in 0..n : i = 0 \/ i \in 1..n
    BY <1>4 DEF Follows
  <2> QED BY <2>2, <2>3
<1>6. SpendTurns(f, base, run, w)
  <2>1. f = [i \in 0..n |-> f[i]]
    BY <1>4 DEF Follows
  <2> QED BY <1>5, <2>1 DEF SpendTurns
<1> DEFINE g == CHOOSE h : SpendTurns(h, base, run, w)
<1>7. SpendTurns(g, base, run, w)
  BY <1>6
<1> HIDE DEF g
<1>8. g[0] = base /\ \A i \in 1..n : g[i] = SpendOne(g[i - 1], run[i], w)
  BY <1>7 DEF SpendTurns
<1>9. Advances(g, n, P)
  BY <1>8 DEF Advances, SpendLeads
<1>10. Stays(g, n, P)
  BY <1>8, <1>9, LoopStays
<1> QED BY <1>10 DEF Stays, g, SpendEnd

\* The destinations, tried.
TryTurns(f, base, run, stack) ==
  f = [i \in 0..Len(run) |-> IF i = 0 THEN base ELSE TryOne(f[i - 1], run[i], stack)]
TryEnd(base, run, stack) == (CHOOSE f : TryTurns(f, base, run, stack))[Len(run)]
TryLeads(run, P, stack) ==
  \A i \in 1..Len(run) : \A a \in P[i - 1] : TryOne(a, run[i], stack) \in P[i]

LEMMA TryLoop ==
  ASSUME NEW P, NEW base \in P[0], NEW run, Len(run) \in Nat, NEW stack, TryLeads(run, P, stack)
  PROVE  TryEnd(base, run, stack) \in P[Len(run)]
<1> DEFINE n == Len(run)
           U == UNION {P[i] : i \in 0..n}
           step == [u \in U \X (1..n) |-> TryOne(u[1], run[u[2]], stack)]
<1>1. \A i \in 1..n : i - 1 \in 0..n
  OBVIOUS
<1>2. \A i \in 1..n : \A a \in P[i - 1] : step[<<a, i>>] = TryOne(a, run[i], stack)
  BY <1>1
<1>3. \A i \in 1..n : \A a \in P[i - 1] : step[<<a, i>>] \in P[i]
  BY <1>2 DEF TryLeads
<1> HIDE DEF step
<1>4. PICK f : Follows(f, n, base, step) /\ Stays(f, n, P)
  BY <1>3, LoopLeads
<1>5. \A i \in 0..n : f[i] = IF i = 0 THEN base ELSE TryOne(f[i - 1], run[i], stack)
  <2>1. \A i \in 1..n : f[i] = step[<<f[i - 1], i>>] /\ f[i - 1] \in P[i - 1]
    BY <1>1, <1>4 DEF Follows, Stays
  <2>2. \A i \in 1..n : f[i] = TryOne(f[i - 1], run[i], stack)
    BY <1>2, <2>1
  <2>3. f[0] = base /\ \A i \in 0..n : i = 0 \/ i \in 1..n
    BY <1>4 DEF Follows
  <2> QED BY <2>2, <2>3
<1>6. TryTurns(f, base, run, stack)
  <2>1. f = [i \in 0..n |-> f[i]]
    BY <1>4 DEF Follows
  <2> QED BY <1>5, <2>1 DEF TryTurns
<1> DEFINE g == CHOOSE h : TryTurns(h, base, run, stack)
<1>7. TryTurns(g, base, run, stack)
  BY <1>6
<1> HIDE DEF g
<1>8. g[0] = base /\ \A i \in 1..n : g[i] = TryOne(g[i - 1], run[i], stack)
  BY <1>7 DEF TryTurns
<1>9. Advances(g, n, P)
  BY <1>8 DEF Advances, TryLeads
<1>10. Stays(g, n, P)
  BY <1>8, <1>9, LoopStays
<1> QED BY <1>10 DEF Stays, g, TryEnd

\* A shifted click, again and again.
TurnTurns(f, base, run, w, slot) ==
  f = [i \in 0..Len(run) |-> IF i = 0 THEN base ELSE TurnOne(f[i - 1], w, slot)]
TurnEnd(base, run, w, slot) == (CHOOSE f : TurnTurns(f, base, run, w, slot))[Len(run)]
TurnLeads(run, P, w, slot) ==
  \A i \in 1..Len(run) : \A a \in P[i - 1] : TurnOne(a, w, slot) \in P[i]

LEMMA TurnLoop ==
  ASSUME NEW P, NEW base \in P[0], NEW run, Len(run) \in Nat, NEW w, NEW slot, TurnLeads(run, P, w, slot)
  PROVE  TurnEnd(base, run, w, slot) \in P[Len(run)]
<1> DEFINE n == Len(run)
           U == UNION {P[i] : i \in 0..n}
           step == [u \in U \X (1..n) |-> TurnOne(u[1], w, slot)]
<1>1. \A i \in 1..n : i - 1 \in 0..n
  OBVIOUS
<1>2. \A i \in 1..n : \A a \in P[i - 1] : step[<<a, i>>] = TurnOne(a, w, slot)
  BY <1>1
<1>3. \A i \in 1..n : \A a \in P[i - 1] : step[<<a, i>>] \in P[i]
  BY <1>2 DEF TurnLeads
<1> HIDE DEF step
<1>4. PICK f : Follows(f, n, base, step) /\ Stays(f, n, P)
  BY <1>3, LoopLeads
<1>5. \A i \in 0..n : f[i] = IF i = 0 THEN base ELSE TurnOne(f[i - 1], w, slot)
  <2>1. \A i \in 1..n : f[i] = step[<<f[i - 1], i>>] /\ f[i - 1] \in P[i - 1]
    BY <1>1, <1>4 DEF Follows, Stays
  <2>2. \A i \in 1..n : f[i] = TurnOne(f[i - 1], w, slot)
    BY <1>2, <2>1
  <2>3. f[0] = base /\ \A i \in 0..n : i = 0 \/ i \in 1..n
    BY <1>4 DEF Follows
  <2> QED BY <2>2, <2>3
<1>6. TurnTurns(f, base, run, w, slot)
  <2>1. f = [i \in 0..n |-> f[i]]
    BY <1>4 DEF Follows
  <2> QED BY <1>5, <2>1 DEF TurnTurns
<1> DEFINE g == CHOOSE h : TurnTurns(h, base, run, w, slot)
<1>7. TurnTurns(g, base, run, w, slot)
  BY <1>6
<1> HIDE DEF g
<1>8. g[0] = base /\ \A i \in 1..n : g[i] = TurnOne(g[i - 1], w, slot)
  BY <1>7 DEF TurnTurns
<1>9. Advances(g, n, P)
  BY <1>8 DEF Advances, TurnLeads
<1>10. Stays(g, n, P)
  BY <1>8, <1>9, LoopStays
<1> QED BY <1>10 DEF Stays, g, TurnEnd

\* A drag, laid out.
LayTurns(f, base, run, held, over, kind, share) ==
  f = [i \in 0..Len(run) |-> IF i = 0 THEN base ELSE LayOne(f[i - 1], run[i], held, over, kind, share)]
LayEnd(base, run, held, over, kind, share) == (CHOOSE f : LayTurns(f, base, run, held, over, kind, share))[Len(run)]
LayLeads(run, P, held, over, kind, share) ==
  \A i \in 1..Len(run) : \A a \in P[i - 1] : LayOne(a, run[i], held, over, kind, share) \in P[i]

LEMMA LayLoop ==
  ASSUME NEW P, NEW base \in P[0], NEW run, Len(run) \in Nat, NEW held, NEW over, NEW kind, NEW share, LayLeads(run, P, held, over, kind, share)
  PROVE  LayEnd(base, run, held, over, kind, share) \in P[Len(run)]
<1> DEFINE n == Len(run)
           U == UNION {P[i] : i \in 0..n}
           step == [u \in U \X (1..n) |-> LayOne(u[1], run[u[2]], held, over, kind, share)]
<1>1. \A i \in 1..n : i - 1 \in 0..n
  OBVIOUS
<1>2. \A i \in 1..n : \A a \in P[i - 1] : step[<<a, i>>] = LayOne(a, run[i], held, over, kind, share)
  BY <1>1
<1>3. \A i \in 1..n : \A a \in P[i - 1] : step[<<a, i>>] \in P[i]
  BY <1>2 DEF LayLeads
<1> HIDE DEF step
<1>4. PICK f : Follows(f, n, base, step) /\ Stays(f, n, P)
  BY <1>3, LoopLeads
<1>5. \A i \in 0..n : f[i] = IF i = 0 THEN base ELSE LayOne(f[i - 1], run[i], held, over, kind, share)
  <2>1. \A i \in 1..n : f[i] = step[<<f[i - 1], i>>] /\ f[i - 1] \in P[i - 1]
    BY <1>1, <1>4 DEF Follows, Stays
  <2>2. \A i \in 1..n : f[i] = LayOne(f[i - 1], run[i], held, over, kind, share)
    BY <1>2, <2>1
  <2>3. f[0] = base /\ \A i \in 0..n : i = 0 \/ i \in 1..n
    BY <1>4 DEF Follows
  <2> QED BY <2>2, <2>3
<1>6. LayTurns(f, base, run, held, over, kind, share)
  <2>1. f = [i \in 0..n |-> f[i]]
    BY <1>4 DEF Follows
  <2> QED BY <1>5, <2>1 DEF LayTurns
<1> DEFINE g == CHOOSE h : LayTurns(h, base, run, held, over, kind, share)
<1>7. LayTurns(g, base, run, held, over, kind, share)
  BY <1>6
<1> HIDE DEF g
<1>8. g[0] = base /\ \A i \in 1..n : g[i] = LayOne(g[i - 1], run[i], held, over, kind, share)
  BY <1>7 DEF LayTurns
<1>9. Advances(g, n, P)
  BY <1>8 DEF Advances, LayLeads
<1>10. Stays(g, n, P)
  BY <1>8, <1>9, LoopStays
<1> QED BY <1>10 DEF Stays, g, LayEnd

\* A double click: everything.
GatherTurns(f, base, run, kind) ==
  f = [i \in 0..Len(run) |-> IF i = 0 THEN base ELSE GatherOne(f[i - 1], run[i], kind)]
GatherEnd(base, run, kind) == (CHOOSE f : GatherTurns(f, base, run, kind))[Len(run)]
GatherLeads(run, P, kind) ==
  \A i \in 1..Len(run) : \A a \in P[i - 1] : GatherOne(a, run[i], kind) \in P[i]

LEMMA GatherLoop ==
  ASSUME NEW P, NEW base \in P[0], NEW run, Len(run) \in Nat, NEW kind, GatherLeads(run, P, kind)
  PROVE  GatherEnd(base, run, kind) \in P[Len(run)]
<1> DEFINE n == Len(run)
           U == UNION {P[i] : i \in 0..n}
           step == [u \in U \X (1..n) |-> GatherOne(u[1], run[u[2]], kind)]
<1>1. \A i \in 1..n : i - 1 \in 0..n
  OBVIOUS
<1>2. \A i \in 1..n : \A a \in P[i - 1] : step[<<a, i>>] = GatherOne(a, run[i], kind)
  BY <1>1
<1>3. \A i \in 1..n : \A a \in P[i - 1] : step[<<a, i>>] \in P[i]
  BY <1>2 DEF GatherLeads
<1> HIDE DEF step
<1>4. PICK f : Follows(f, n, base, step) /\ Stays(f, n, P)
  BY <1>3, LoopLeads
<1>5. \A i \in 0..n : f[i] = IF i = 0 THEN base ELSE GatherOne(f[i - 1], run[i], kind)
  <2>1. \A i \in 1..n : f[i] = step[<<f[i - 1], i>>] /\ f[i - 1] \in P[i - 1]
    BY <1>1, <1>4 DEF Follows, Stays
  <2>2. \A i \in 1..n : f[i] = GatherOne(f[i - 1], run[i], kind)
    BY <1>2, <2>1
  <2>3. f[0] = base /\ \A i \in 0..n : i = 0 \/ i \in 1..n
    BY <1>4 DEF Follows
  <2> QED BY <2>2, <2>3
<1>6. GatherTurns(f, base, run, kind)
  <2>1. f = [i \in 0..n |-> f[i]]
    BY <1>4 DEF Follows
  <2> QED BY <1>5, <2>1 DEF GatherTurns
<1> DEFINE g == CHOOSE h : GatherTurns(h, base, run, kind)
<1>7. GatherTurns(g, base, run, kind)
  BY <1>6
<1> HIDE DEF g
<1>8. g[0] = base /\ \A i \in 1..n : g[i] = GatherOne(g[i - 1], run[i], kind)
  BY <1>7 DEF GatherTurns
<1>9. Advances(g, n, P)
  BY <1>8 DEF Advances, GatherLeads
<1>10. Stays(g, n, P)
  BY <1>8, <1>9, LoopStays
<1> QED BY <1>10 DEF Stays, g, GatherEnd

\* A double click: part stacks.
PartTurns(f, base, run, kind) ==
  f = [i \in 0..Len(run) |-> IF i = 0 THEN base ELSE PartOne(f[i - 1], run[i], kind)]
PartEnd(base, run, kind) == (CHOOSE f : PartTurns(f, base, run, kind))[Len(run)]
PartLeads(run, P, kind) ==
  \A i \in 1..Len(run) : \A a \in P[i - 1] : PartOne(a, run[i], kind) \in P[i]

LEMMA PartLoop ==
  ASSUME NEW P, NEW base \in P[0], NEW run, Len(run) \in Nat, NEW kind, PartLeads(run, P, kind)
  PROVE  PartEnd(base, run, kind) \in P[Len(run)]
<1> DEFINE n == Len(run)
           U == UNION {P[i] : i \in 0..n}
           step == [u \in U \X (1..n) |-> PartOne(u[1], run[u[2]], kind)]
<1>1. \A i \in 1..n : i - 1 \in 0..n
  OBVIOUS
<1>2. \A i \in 1..n : \A a \in P[i - 1] : step[<<a, i>>] = PartOne(a, run[i], kind)
  BY <1>1
<1>3. \A i \in 1..n : \A a \in P[i - 1] : step[<<a, i>>] \in P[i]
  BY <1>2 DEF PartLeads
<1> HIDE DEF step
<1>4. PICK f : Follows(f, n, base, step) /\ Stays(f, n, P)
  BY <1>3, LoopLeads
<1>5. \A i \in 0..n : f[i] = IF i = 0 THEN base ELSE PartOne(f[i - 1], run[i], kind)
  <2>1. \A i \in 1..n : f[i] = step[<<f[i - 1], i>>] /\ f[i - 1] \in P[i - 1]
    BY <1>1, <1>4 DEF Follows, Stays
  <2>2. \A i \in 1..n : f[i] = PartOne(f[i - 1], run[i], kind)
    BY <1>2, <2>1
  <2>3. f[0] = base /\ \A i \in 0..n : i = 0 \/ i \in 1..n
    BY <1>4 DEF Follows
  <2> QED BY <2>2, <2>3
<1>6. PartTurns(f, base, run, kind)
  <2>1. f = [i \in 0..n |-> f[i]]
    BY <1>4 DEF Follows
  <2> QED BY <1>5, <2>1 DEF PartTurns
<1> DEFINE g == CHOOSE h : PartTurns(h, base, run, kind)
<1>7. PartTurns(g, base, run, kind)
  BY <1>6
<1> HIDE DEF g
<1>8. g[0] = base /\ \A i \in 1..n : g[i] = PartOne(g[i - 1], run[i], kind)
  BY <1>7 DEF PartTurns
<1>9. Advances(g, n, P)
  BY <1>8 DEF Advances, PartLeads
<1>10. Stays(g, n, P)
  BY <1>8, <1>9, LoopStays
<1> QED BY <1>10 DEF Stays, g, PartEnd

\* Cells emptied.
ReturnTurns(f, base, run) ==
  f = [i \in 0..Len(run) |-> IF i = 0 THEN base ELSE ReturnOne(f[i - 1], run[i])]
ReturnEnd(base, run) == (CHOOSE f : ReturnTurns(f, base, run))[Len(run)]
ReturnLeads(run, P) ==
  \A i \in 1..Len(run) : \A a \in P[i - 1] : ReturnOne(a, run[i]) \in P[i]

LEMMA ReturnLoop ==
  ASSUME NEW P, NEW base \in P[0], NEW run, Len(run) \in Nat, ReturnLeads(run, P)
  PROVE  ReturnEnd(base, run) \in P[Len(run)]
<1> DEFINE n == Len(run)
           U == UNION {P[i] : i \in 0..n}
           step == [u \in U \X (1..n) |-> ReturnOne(u[1], run[u[2]])]
<1>1. \A i \in 1..n : i - 1 \in 0..n
  OBVIOUS
<1>2. \A i \in 1..n : \A a \in P[i - 1] : step[<<a, i>>] = ReturnOne(a, run[i])
  BY <1>1
<1>3. \A i \in 1..n : \A a \in P[i - 1] : step[<<a, i>>] \in P[i]
  BY <1>2 DEF ReturnLeads
<1> HIDE DEF step
<1>4. PICK f : Follows(f, n, base, step) /\ Stays(f, n, P)
  BY <1>3, LoopLeads
<1>5. \A i \in 0..n : f[i] = IF i = 0 THEN base ELSE ReturnOne(f[i - 1], run[i])
  <2>1. \A i \in 1..n : f[i] = step[<<f[i - 1], i>>] /\ f[i - 1] \in P[i - 1]
    BY <1>1, <1>4 DEF Follows, Stays
  <2>2. \A i \in 1..n : f[i] = ReturnOne(f[i - 1], run[i])
    BY <1>2, <2>1
  <2>3. f[0] = base /\ \A i \in 0..n : i = 0 \/ i \in 1..n
    BY <1>4 DEF Follows
  <2> QED BY <2>2, <2>3
<1>6. ReturnTurns(f, base, run)
  <2>1. f = [i \in 0..n |-> f[i]]
    BY <1>4 DEF Follows
  <2> QED BY <1>5, <2>1 DEF ReturnTurns
<1> DEFINE g == CHOOSE h : ReturnTurns(h, base, run)
<1>7. ReturnTurns(g, base, run)
  BY <1>6
<1> HIDE DEF g
<1>8. g[0] = base /\ \A i \in 1..n : g[i] = ReturnOne(g[i - 1], run[i])
  BY <1>7 DEF ReturnTurns
<1>9. Advances(g, n, P)
  BY <1>8 DEF Advances, ReturnLeads
<1>10. Stays(g, n, P)
  BY <1>8, <1>9, LoopStays
<1> QED BY <1>10 DEF Stays, g, ReturnEnd

\* The mirror.
CopyTurns(f, base, run, slots) ==
  f = [i \in 0..Len(run) |-> IF i = 0 THEN base ELSE Show(f[i - 1], run[i], slots[run[i]])]
CopyEnd(base, run, slots) == (CHOOSE f : CopyTurns(f, base, run, slots))[Len(run)]
CopyLeads(run, P, slots) ==
  \A i \in 1..Len(run) : \A a \in P[i - 1] : Show(a, run[i], slots[run[i]]) \in P[i]

LEMMA CopyLoop ==
  ASSUME NEW P, NEW base \in P[0], NEW run, Len(run) \in Nat, NEW slots, CopyLeads(run, P, slots)
  PROVE  CopyEnd(base, run, slots) \in P[Len(run)]
<1> DEFINE n == Len(run)
           U == UNION {P[i] : i \in 0..n}
           step == [u \in U \X (1..n) |-> Show(u[1], run[u[2]], slots[run[u[2]]])]
<1>1. \A i \in 1..n : i - 1 \in 0..n
  OBVIOUS
<1>2. \A i \in 1..n : \A a \in P[i - 1] : step[<<a, i>>] = Show(a, run[i], slots[run[i]])
  BY <1>1
<1>3. \A i \in 1..n : \A a \in P[i - 1] : step[<<a, i>>] \in P[i]
  BY <1>2 DEF CopyLeads
<1> HIDE DEF step
<1>4. PICK f : Follows(f, n, base, step) /\ Stays(f, n, P)
  BY <1>3, LoopLeads
<1>5. \A i \in 0..n : f[i] = IF i = 0 THEN base ELSE Show(f[i - 1], run[i], slots[run[i]])
  <2>1. \A i \in 1..n : f[i] = step[<<f[i - 1], i>>] /\ f[i - 1] \in P[i - 1]
    BY <1>1, <1>4 DEF Follows, Stays
  <2>2. \A i \in 1..n : f[i] = Show(f[i - 1], run[i], slots[run[i]])
    BY <1>2, <2>1
  <2>3. f[0] = base /\ \A i \in 0..n : i = 0 \/ i \in 1..n
    BY <1>4 DEF Follows
  <2> QED BY <2>2, <2>3
<1>6. CopyTurns(f, base, run, slots)
  <2>1. f = [i \in 0..n |-> f[i]]
    BY <1>4 DEF Follows
  <2> QED BY <1>5, <2>1 DEF CopyTurns
<1> DEFINE g == CHOOSE h : CopyTurns(h, base, run, slots)
<1>7. CopyTurns(g, base, run, slots)
  BY <1>6
<1> HIDE DEF g
<1>8. g[0] = base /\ \A i \in 1..n : g[i] = Show(g[i - 1], run[i], slots[run[i]])
  BY <1>7 DEF CopyTurns
<1>9. Advances(g, n, P)
  BY <1>8 DEF Advances, CopyLeads
<1>10. Stays(g, n, P)
  BY <1>8, <1>9, LoopStays
<1> QED BY <1>10 DEF Stays, g, CopyEnd


\* What each operation is, in terms of its loop.
LEMMA GrowIs ==
  ASSUME NEW a, NEW run
  PROVE  Through(Grow, a, run) = GrowEnd(a, run)
BY DEF Through, GrowEnd, GrowTurns

\* The loops of the model, each as the end of its turns.
LEMMA MoveIntoIs ==
  ASSUME NEW i, NEW stack, NEW run
  PROVE  MoveInto(i, stack, run) = Settle(GrowEnd([inv |-> i, left |-> stack], run), run)
BY DEF MoveInto, Through, GrowEnd, GrowTurns

LEMMA PlaceIs ==
  ASSUME NEW i, NEW stack
  PROVE  Place(i, stack) =
           Settle(GrowEnd([inv |-> i, left |-> stack],
                          <<Hotbar[i.selected], "offhand">> \o Hotbar \o Main), Hotbar \o Main)
BY DEF Place, Through, GrowEnd, GrowTurns

LEMMA FilledIs ==
  ASSUME NEW kinds
  PROVE  Filled(kinds) = FillEnd(<<>>, kinds)
BY DEF Filled, Through, FillEnd, FillTurns, FillOne

LEMMA RefreshedIs ==
  ASSUME NEW i
  PROVE  Refreshed(i) = AgainEnd(i, <<"player", "table", "stonecutter", "smithing">>)
BY DEF Refreshed, Through, AgainEnd, AgainTurns, AgainOne

LEMMA TakeResultIs ==
  ASSUME NEW i, NEW w
  PROVE  TakeResult(i, w) = RefreshOutput(SpendEnd(i, Cells[w], w), w)
BY DEF TakeResult, Through, SpendEnd, SpendTurns, SpendOne

LEMMA SentIs ==
  ASSUME NEW i, NEW w, NEW slot
  PROVE  Sent(i, w, slot) =
           TryEnd([inv |-> [i EXCEPT !.slots[slot] = Empty], left |-> i.slots[slot]],
                  Destinations(i, w, slot), i.slots[slot])
BY DEF Sent, Through, TryEnd, TryTurns, TryOne

LEMMA QuickMoveIs ==
  ASSUME NEW i, NEW w, NEW slot
  PROVE  QuickMove(i, w, slot) = TurnEnd(i, [n \in 1..LargestStack |-> n], w, slot)
BY DEF QuickMove, Through, TurnEnd, TurnTurns, TurnOne

Bare(i) == [i EXCEPT !.changed = {}]
Freed(i) == IF i.cursor = Empty THEN Bare(i) ELSE Give(Hold(Bare(i), Empty), i.cursor)

LEMMA VacatedIs ==
  ASSUME NEW i, NEW w
  PROVE  Vacated(i, w) =
           IF w = "stonecutter" THEN [ReturnEnd(Freed(i), Cells[w]) EXCEPT !.choice = 0, !.cutOf = NoKind]
           ELSE ReturnEnd(Freed(i), Cells[w])
BY DEF Vacated, Through, ReturnEnd, ReturnTurns, ReturnOne, Freed, Bare

LEMMA MirrorIs ==
  ASSUME NEW i, NEW slots
  PROVE  MirrorFurnace(i, slots) = CopyEnd([i EXCEPT !.changed = {}], FurnaceSlots, slots)
BY DEF MirrorFurnace, Through, CopyEnd, CopyTurns

LEMMA PickupAllIs ==
  ASSUME NEW i, NEW w, NEW button, NEW order,
         order = IF button = 1 THEN Backwards(WindowSlots[w]) ELSE WindowSlots[w]
  PROVE  PickupAll(i, w, button) =
           IF i.cursor = Empty THEN i
           ELSE GatherEnd(PartEnd(i, order, i.cursor.kind), order, i.cursor.kind)
BY DEF PickupAll, Through, GatherEnd, GatherTurns, GatherOne, PartEnd, PartTurns, PartOne

Share(held, over, kind) ==
  CASE kind = 0 -> held.count \div Cardinality(over)
    [] kind = 1 -> 1
    [] kind = 2 -> StackSize[held.kind]

Dragged(i, kind) ==
  LayEnd([inv |-> i, left |-> i.cursor.count], Owned, i.cursor, i.drag.over, kind,
         Share(i.cursor, i.drag.over, kind))

LEMMA FinishDragIs ==
  ASSUME NEW i, NEW kind
  PROVE  FinishDrag(i, kind) =
           IF i.cursor = Empty \/ i.drag.over = {} THEN i
           ELSE IF Dragged(i, kind).left = i.cursor.count THEN Dragged(i, kind).inv
           ELSE Hold(Dragged(i, kind).inv, Less(i.cursor, i.cursor.count - Dragged(i, kind).left))
BY DEF FinishDrag, Through, LayEnd, LayTurns, LayOne, Share, Dragged

-----------------------------------------------------------------------------
(***************************************************************************)
(* The slots: where the cells, the results and what is carried are.        *)
(***************************************************************************)
Benches == {"player", "table", "stonecutter", "smithing"}

\* What a run of runs is made of.
LEMMA RangeOfTwo ==
  ASSUME NEW S, NEW a \in Seq(S), NEW b \in Seq(S)
  PROVE  a \o b \in Seq(S) /\ Range(a \o b) = Range(a) \cup Range(b)
<1>1. a \o b \in Seq(S) /\ DOMAIN (a \o b) = 1..Len(a) + Len(b)
      /\ \A i \in 1..Len(a) + Len(b) : (a \o b)[i] = IF i <= Len(a) THEN a[i] ELSE b[i - Len(a)]
  OBVIOUS
<1>2. DOMAIN a = 1..Len(a) /\ DOMAIN b = 1..Len(b) /\ Len(a) \in Nat /\ Len(b) \in Nat
  OBVIOUS
<1>3. ASSUME NEW x \in Range(a \o b) PROVE x \in Range(a) \cup Range(b)
  <2>1. PICK i \in 1..Len(a) + Len(b) : (a \o b)[i] = x
    BY <1>1 DEF Range
  <2>2. CASE i <= Len(a)
    <3>1. i \in 1..Len(a) /\ a[i] = x
      BY <1>1, <1>2, <2>1, <2>2
    <3> QED BY <1>2, <3>1 DEF Range
  <2>3. CASE ~(i <= Len(a))
    <3>1. i - Len(a) \in 1..Len(b) /\ b[i - Len(a)] = x
      BY <1>1, <1>2, <2>1, <2>3
    <3> QED BY <1>2, <3>1 DEF Range
  <2> QED BY <2>2, <2>3
<1>4. ASSUME NEW x \in Range(a) PROVE x \in Range(a \o b)
  <2>1. PICK i \in 1..Len(a) : a[i] = x
    BY <1>2 DEF Range
  <2>2. i \in 1..Len(a) + Len(b) /\ (a \o b)[i] = x
    BY <1>1, <1>2, <2>1
  <2> QED BY <1>1, <2>2 DEF Range
<1>5. ASSUME NEW x \in Range(b) PROVE x \in Range(a \o b)
  <2>1. PICK i \in 1..Len(b) : b[i] = x
    BY <1>2 DEF Range
  <2>2. i + Len(a) \in 1..Len(a) + Len(b) /\ (a \o b)[i + Len(a)] = b[i + Len(a) - Len(a)]
    BY <1>1, <1>2
  <2>3. i + Len(a) - Len(a) = i
    BY <1>2
  <2>4. (a \o b)[i + Len(a)] = x
    BY <2>1, <2>2, <2>3
  <2> QED BY <1>1, <2>2, <2>4 DEF Range
<1> QED BY <1>1, <1>3, <1>4, <1>5

LEMMA RunFacts ==
  ASSUME NEW S, NEW a \in Seq(S)
  PROVE  Len(a) \in Nat /\ DOMAIN a = 1..Len(a) /\ Range(a) \subseteq S
         /\ (\A i \in 1..Len(a) : a[i] \in Range(a)) /\ a \in Seq(Range(a))
BY DEF Range

\* Where each bench shows, and what it is made from (Window::output,
\* Window::crafting).
LEMMA ResultSlots ==
  /\ Outputs = {"crafting_output", "table_output", NoSlot, "cut_output", "smith_output"}
  /\ Output["player"] = "crafting_output" /\ Output["table"] = "table_output"
  /\ Output["stonecutter"] = "cut_output" /\ Output["smithing"] = "smith_output"
  /\ Output["furnace"] = NoSlot
<1>1. /\ DOMAIN Output = {"player", "table", "furnace", "stonecutter", "smithing"}
      /\ Output["player"] = "crafting_output" /\ Output["table"] = "table_output"
      /\ Output["stonecutter"] = "cut_output" /\ Output["smithing"] = "smith_output"
      /\ Output["furnace"] = NoSlot
  BY DEF Output
<1>2. Outputs = {Output[w] : w \in DOMAIN Output}
  BY DEF Outputs, Range
<1> QED BY <1>1, <1>2

LEMMA CellSlots ==
  /\ Cells["player"] = Grid /\ Cells["table"] = TableGrid /\ Cells["furnace"] = <<>>
  /\ Cells["stonecutter"] = <<"cut_input">> /\ Cells["smithing"] = Smith
BY DEF Cells

LEMMA RangeOfThree ==
  ASSUME NEW a, NEW b, NEW c, NEW run, run = <<a, b, c>>
  PROVE  Range(run) = {a, b, c}
<1>1. DOMAIN run = 1..3 /\ run[1] = a /\ run[2] = b /\ run[3] = c
  OBVIOUS
<1> QED BY <1>1 DEF Range

LEMMA RangeOfOne ==
  ASSUME NEW a, NEW run, run = <<a>>
  PROVE  Range(run) = {a} /\ \A S : a \in S => run \in Seq(S)
<1>1. DOMAIN run = 1..1 /\ run[1] = a
  OBVIOUS
<1> QED BY <1>1 DEF Range

\* Fixed runs of slots, written out.
LEMMA ListSlots ==
  /\ Range(FurnaceSlots) = {"furnace_input", "furnace_fuel", "furnace_output"}
  /\ Range(Smith) = {"smith_template", "smith_base", "smith_addition"}
  /\ Range(<<"cut_input">>) = {"cut_input"}
  /\ Range(<<"offhand">>) = {"offhand"}
BY RangeOfThree, RangeOfOne DEF FurnaceSlots, Smith

\* The regions do not meet.
LEMMA RegionsApart ==
  /\ Range(Grid) \cap Range(TableGrid) = {} /\ Range(Grid) \cap Range(Armour) = {}
  /\ Range(Grid) \cap Range(Main) = {} /\ Range(Grid) \cap Range(Hotbar) = {}
  /\ Range(TableGrid) \cap Range(Armour) = {}
  /\ Range(TableGrid) \cap Range(Main) = {} /\ Range(TableGrid) \cap Range(Hotbar) = {}
  /\ Range(Armour) \cap Range(Main) = {} /\ Range(Armour) \cap Range(Hotbar) = {}
  /\ Range(Main) \cap Range(Hotbar) = {}
  /\ \A run \in {Grid, TableGrid, Armour, Main, Hotbar} :
       Range(run) \cap (Range(FurnaceSlots) \cup Range(Smith) \cup Outputs
                          \cup {"cut_input", "offhand"}) = {}
<1> DEFINE F == Range(FurnaceSlots) \cup Range(Smith) \cup Outputs \cup {"cut_input", "offhand"}
<1>1. /\ DOMAIN Regions = 1..6 /\ Regions[1] = F
      /\ Regions[2] = Range(Grid) /\ Regions[3] = Range(TableGrid)
      /\ Regions[4] = Range(Armour) /\ Regions[5] = Range(Main) /\ Regions[6] = Range(Hotbar)
  <2>1. PICK f : f = F
    OBVIOUS
  <2>2. Regions = <<f, Range(Grid), Range(TableGrid), Range(Armour), Range(Main), Range(Hotbar)>>
    BY <2>1 DEF Regions
  <2> HIDE DEF F
  <2> QED BY <2>1, <2>2
<1> HIDE DEF F
<1>2. \A i, j \in 1..6 : i # j => Regions[i] \cap Regions[j] = {}
  BY <1>1, InventoryAssumption
<1>3. /\ Regions[2] \cap Regions[3] = {} /\ Regions[2] \cap Regions[4] = {}
      /\ Regions[2] \cap Regions[5] = {} /\ Regions[2] \cap Regions[6] = {}
      /\ Regions[3] \cap Regions[4] = {} /\ Regions[3] \cap Regions[5] = {}
      /\ Regions[3] \cap Regions[6] = {} /\ Regions[4] \cap Regions[5] = {}
      /\ Regions[4] \cap Regions[6] = {} /\ Regions[5] \cap Regions[6] = {}
  BY <1>2
<1>4. /\ Regions[2] \cap F = {} /\ Regions[3] \cap F = {} /\ Regions[4] \cap F = {}
      /\ Regions[5] \cap F = {} /\ Regions[6] \cap F = {}
  BY <1>1, <1>2
<1>5. \A run \in {Grid, TableGrid, Armour, Main, Hotbar} : Range(run) \cap F = {}
  BY <1>1, <1>4
<1> QED BY ONLY <1>1, <1>3, <1>5 DEF F

Bench == {"crafting_output", "table_output", "cut_input", "cut_output", "smith_output", "offhand"}
           \cup Range(FurnaceSlots) \cup Range(Smith)

LEMMA RunsAre ==
  ASSUME NEW S, Storage \subseteq S, Bench \subseteq S
  PROVE  /\ {Grid, TableGrid, Armour, Main, Hotbar, FurnaceSlots, Smith} \subseteq Seq(S)
         /\ Carried \in Seq(S) /\ Range(Carried) = Range(Main) \cup Range(Hotbar)
<1>1. {Grid, TableGrid, Armour, Main, Hotbar} \subseteq Seq(S)
  <2>1. ASSUME NEW run \in Seq(Storage) PROVE run \in Seq(S)
    OBVIOUS
  <2> QED BY <2>1, InventoryAssumption
<1>2. FurnaceSlots \in Seq(S) /\ Smith \in Seq(S)
  BY ListSlots DEF Bench, FurnaceSlots, Smith
<1> QED BY <1>1, <1>2, RangeOfTwo DEF Carried

\* The runs of slots of each window (Window::storage).
LEMMA WindowRuns ==
  ASSUME NEW S, Storage \subseteq S, Bench \subseteq S
  PROVE  /\ DOMAIN WindowSlots = Benches \cup {"furnace"}
         /\ \A w \in Benches \cup {"furnace"} : WindowSlots[w] \in Seq(S)
         /\ Range(WindowSlots["player"]) =
              {"crafting_output", "offhand"} \cup Range(Grid) \cup Range(Armour) \cup Range(Carried)
         /\ Range(WindowSlots["table"]) = {"table_output"} \cup Range(TableGrid) \cup Range(Carried)
         /\ Range(WindowSlots["furnace"]) = Range(FurnaceSlots) \cup Range(Carried)
         /\ Range(WindowSlots["stonecutter"]) = {"cut_input", "cut_output"} \cup Range(Carried)
         /\ Range(WindowSlots["smithing"]) = Range(Smith) \cup {"smith_output"} \cup Range(Carried)
<1>0. /\ Grid \in Seq(S) /\ TableGrid \in Seq(S) /\ Armour \in Seq(S) /\ Carried \in Seq(S)
      /\ FurnaceSlots \in Seq(S) /\ Smith \in Seq(S)
  BY RunsAre
<1>1. DOMAIN WindowSlots = Benches \cup {"furnace"}
  BY DEF WindowSlots, Benches
<1>2. PICK c, t, o, k, m, a : c = <<"crafting_output">> /\ t = <<"table_output">> /\ o = <<"offhand">>
                               /\ k = <<"cut_input">> /\ m = <<"smith_output">> /\ a = <<"cut_output">>
  OBVIOUS
<1>3. /\ WindowSlots["player"] = c \o Grid \o Armour \o Carried \o o
      /\ WindowSlots["table"] = t \o TableGrid \o Carried
      /\ WindowSlots["furnace"] = FurnaceSlots \o Carried
      /\ WindowSlots["stonecutter"] = <<"cut_input", "cut_output">> \o Carried
      /\ WindowSlots["smithing"] = Smith \o m \o Carried
  BY <1>2 DEF WindowSlots
<1>4. /\ c \in Seq(S) /\ Range(c) = {"crafting_output"}
      /\ t \in Seq(S) /\ Range(t) = {"table_output"}
      /\ o \in Seq(S) /\ Range(o) = {"offhand"}
      /\ m \in Seq(S) /\ Range(m) = {"smith_output"}
  BY <1>2, RangeOfOne DEF Bench
<1>5. <<"cut_input", "cut_output">> \in Seq(S)
      /\ Range(<<"cut_input", "cut_output">>) = {"cut_input", "cut_output"}
  <2>1. PICK b : b = <<"cut_input", "cut_output">>
    OBVIOUS
  <2>2. DOMAIN b = 1..2 /\ b[1] = "cut_input" /\ b[2] = "cut_output" /\ b \in Seq(S)
    BY <2>1 DEF Bench
  <2> QED BY <2>1, <2>2 DEF Range
<1>6. /\ WindowSlots["player"] \in Seq(S)
      /\ Range(WindowSlots["player"]) =
           {"crafting_output", "offhand"} \cup Range(Grid) \cup Range(Armour) \cup Range(Carried)
  <2>1. PICK d : d = c \o Grid
    OBVIOUS
  <2>2. d \in Seq(S) /\ Range(d) = Range(c) \cup Range(Grid)
    BY <1>0, <1>4, <2>1, RangeOfTwo
  <2>3. PICK e : e = d \o Armour
    OBVIOUS
  <2>4. e \in Seq(S) /\ Range(e) = Range(d) \cup Range(Armour)
    BY <1>0, <2>2, <2>3, RangeOfTwo
  <2>5. PICK f : f = e \o Carried
    OBVIOUS
  <2>6. f \in Seq(S) /\ Range(f) = Range(e) \cup Range(Carried)
    BY <1>0, <2>4, <2>5, RangeOfTwo
  <2>7. f \o o \in Seq(S) /\ Range(f \o o) = Range(f) \cup Range(o)
    BY <1>4, <2>6, RangeOfTwo
  <2>8. WindowSlots["player"] = f \o o
    BY <1>3, <2>1, <2>3, <2>5
  <2> QED BY <1>4, <2>2, <2>4, <2>6, <2>7, <2>8
<1>7. /\ WindowSlots["table"] \in Seq(S)
      /\ Range(WindowSlots["table"]) = {"table_output"} \cup Range(TableGrid) \cup Range(Carried)
  <2>1. PICK d : d = t \o TableGrid
    OBVIOUS
  <2>2. d \in Seq(S) /\ Range(d) = Range(t) \cup Range(TableGrid)
    BY <1>0, <1>4, <2>1, RangeOfTwo
  <2>3. d \o Carried \in Seq(S) /\ Range(d \o Carried) = Range(d) \cup Range(Carried)
    BY <1>0, <2>2, RangeOfTwo
  <2>4. WindowSlots["table"] = d \o Carried
    BY <1>3, <2>1
  <2> QED BY <1>4, <2>2, <2>3, <2>4
<1>8. /\ WindowSlots["furnace"] \in Seq(S)
      /\ Range(WindowSlots["furnace"]) = Range(FurnaceSlots) \cup Range(Carried)
  BY <1>0, <1>3, RangeOfTwo
<1>9. /\ WindowSlots["stonecutter"] \in Seq(S)
      /\ Range(WindowSlots["stonecutter"]) = {"cut_input", "cut_output"} \cup Range(Carried)
  <2>1. PICK d : d = <<"cut_input", "cut_output">>
    OBVIOUS
  <2>2. d \o Carried \in Seq(S) /\ Range(d \o Carried) = Range(d) \cup Range(Carried)
    BY <1>0, <1>5, <2>1, RangeOfTwo
  <2> QED BY <1>3, <1>5, <2>1, <2>2
<1>10. /\ WindowSlots["smithing"] \in Seq(S)
       /\ Range(WindowSlots["smithing"]) = Range(Smith) \cup {"smith_output"} \cup Range(Carried)
  <2>1. PICK d : d = Smith \o m
    OBVIOUS
  <2>2. d \in Seq(S) /\ Range(d) = Range(Smith) \cup Range(m)
    BY <1>0, <1>4, <2>1, RangeOfTwo
  <2>3. d \o Carried \in Seq(S) /\ Range(d \o Carried) = Range(d) \cup Range(Carried)
    BY <1>0, <2>2, RangeOfTwo
  <2>4. WindowSlots["smithing"] = d \o Carried
    BY <1>3, <2>1
  <2> QED BY <1>4, <2>2, <2>3, <2>4
<1> QED BY <1>1, <1>6, <1>7, <1>8, <1>9, <1>10 DEF Benches

Fuels == {"furnace_input", "furnace_fuel", "furnace_output"}

\* What each window shows; what is carried is in none of its cells.
Pocket == Range(Carried) \cup {"offhand"}

\* The slots of the windows are all there are.
LEMMA SlotFacts ==
  /\ Windows = Benches \cup {"furnace"}
  /\ \A w \in Windows : WindowSlots[w] \in Seq(Storage) /\ Range(WindowSlots[w]) \subseteq Storage
  /\ Storage = Bench \cup Range(Grid) \cup Range(TableGrid) \cup Range(Armour) \cup Range(Carried)
  /\ {Grid, TableGrid, Armour, Main, Hotbar, FurnaceSlots, Smith, Carried} \subseteq Seq(Storage)
  /\ Range(Carried) = Range(Main) \cup Range(Hotbar)
<1> DEFINE S == Storage \cup Bench
<1>1. Storage \subseteq S /\ Bench \subseteq S
  OBVIOUS
<1> HIDE DEF S
<1>2. Windows = Benches \cup {"furnace"}
  BY <1>1, WindowRuns DEF Windows
<1>3. Storage = Range(WindowSlots["player"]) \cup Range(WindowSlots["table"])
        \cup Range(WindowSlots["stonecutter"]) \cup Range(WindowSlots["smithing"])
        \cup Range(WindowSlots["furnace"])
  BY <1>2 DEF Storage, Benches
<1>4. Storage = Bench \cup Range(Grid) \cup Range(TableGrid) \cup Range(Armour) \cup Range(Carried)
  BY <1>1, <1>3, WindowRuns, ListSlots DEF Bench
<1>5. ASSUME NEW w \in Windows
      PROVE  WindowSlots[w] \in Seq(Storage) /\ Range(WindowSlots[w]) \subseteq Storage
  <2>1. Range(WindowSlots[w]) \subseteq Storage
    BY <1>2, <1>3, <1>5 DEF Benches
  <2>2. WindowSlots[w] \in Seq(S)
    BY <1>1, <1>2, WindowRuns
  <2>3. WindowSlots[w] \in Seq(Range(WindowSlots[w]))
    BY <2>2, RunFacts
  <2> QED BY <2>1, <2>3
<1>6. Bench \subseteq Storage
  BY <1>4
<1> QED BY <1>2, <1>4, <1>5, <1>6, RunsAre

\* Each bench's cells and result, none of them carried.
LEMMA BenchFacts ==
  ASSUME NEW w \in Benches
  PROVE  /\ w \in Windows
         /\ Cells[w] \in Seq(Storage) /\ Range(Cells[w]) \subseteq Storage
         /\ Output[w] \in Storage /\ Output[w] \in Outputs
         /\ Range(Cells[w]) \cap Outputs = {}
         /\ Range(Cells[w]) \cap Pocket = {} /\ Output[w] \notin Pocket
         /\ Range(Cells[w]) \cap Fuels = {} /\ Output[w] \notin Fuels
         /\ \A v \in Benches : v # w => Output[v] # Output[w] /\ Range(Cells[v]) \cap Range(Cells[w]) = {}
<1>1. Benches = {"player", "table", "stonecutter", "smithing"}
  BY DEF Benches
<1>2. <<"cut_input">> \in Seq(Storage)
  BY SlotFacts, RangeOfOne DEF Bench
<1>3. Cells[w] \in Seq(Storage)
  BY <1>1, <1>2, SlotFacts, CellSlots
<1>4. /\ Range(Cells["player"]) = Range(Grid) /\ Range(Cells["table"]) = Range(TableGrid)
      /\ Range(Cells["stonecutter"]) = {"cut_input"}
      /\ Range(Cells["smithing"]) = {"smith_template", "smith_base", "smith_addition"}
  BY CellSlots, ListSlots
<1>5. w \in Windows /\ Range(Cells[w]) \subseteq Storage
  BY <1>3, RunFacts, SlotFacts
<1>6. Output[w] \in Storage /\ Output[w] \in Outputs
  BY <1>1, SlotFacts, ResultSlots DEF Bench
<1>7. Range(Cells[w]) \cap Outputs = {}
  <2>1. \A run \in {Grid, TableGrid} : Range(run) \cap Outputs = {}
    BY RegionsApart
  <2>2. {"cut_input"} \cap Outputs = {}
        /\ {"smith_template", "smith_base", "smith_addition"} \cap Outputs = {}
    BY ResultSlots DEF NoSlot
  <2> QED BY <1>1, <1>4, <2>1, <2>2
<1>8. Range(Cells[w]) \cap Pocket = {} /\ Output[w] \notin Pocket
  <2>1. /\ Range(Grid) \cap Range(Carried) = {} /\ Range(TableGrid) \cap Range(Carried) = {}
        /\ "offhand" \notin Range(Grid) /\ "offhand" \notin Range(TableGrid)
    BY RegionsApart, SlotFacts
  <2>2. (Outputs \cup Range(Smith) \cup {"cut_input"}) \cap Range(Carried) = {}
    BY RegionsApart, SlotFacts
  <2>3. "offhand" \notin Outputs
    BY ResultSlots DEF NoSlot
  <2> QED BY <1>1, <1>4, <1>6, <2>1, <2>2, <2>3, ListSlots DEF Pocket
<1>9. Range(Cells[w]) \cap Fuels = {} /\ Output[w] \notin Fuels
  <2>1. Range(Grid) \cap Fuels = {} /\ Range(TableGrid) \cap Fuels = {}
    BY RegionsApart, ListSlots DEF Fuels
  <2>2. Outputs \cap Fuels = {}
    BY ResultSlots DEF NoSlot, Fuels
  <2> QED BY <1>1, <1>4, <1>6, <2>1, <2>2 DEF Fuels
<1>10. ASSUME NEW v \in Benches, v # w
       PROVE  Output[v] # Output[w] /\ Range(Cells[v]) \cap Range(Cells[w]) = {}
  <2>1. Output[v] # Output[w]
    BY <1>1, <1>10, ResultSlots
  <2>2. /\ Range(Grid) \cap Range(TableGrid) = {}
        /\ \A run \in {Grid, TableGrid} : Range(run) \cap (Range(Smith) \cup {"cut_input"}) = {}
    BY RegionsApart
  <2> QED BY <1>1, <1>4, <1>10, <2>1, <2>2, ListSlots
<1> QED BY <1>3, <1>5, <1>6, <1>7, <1>8, <1>9, <1>10

\* What is carried, the furnace's slots and the armour show no result.
LEMMA CarriedFacts ==
  /\ Pocket \subseteq Storage /\ Pocket \cap Outputs = {}
  /\ Fuels \subseteq Storage /\ Fuels \cap Outputs = {}
  /\ Range(Armour) \subseteq Storage /\ Range(Armour) \cap Outputs = {}
  /\ Main \in Seq(Storage) /\ Hotbar \in Seq(Storage) /\ Carried \in Seq(Storage)
  /\ Range(Main) \subseteq Pocket /\ Range(Hotbar) \subseteq Pocket /\ Range(Carried) \subseteq Pocket
  /\ NoSlot \notin Storage
  /\ \A i \in DOMAIN Hotbar : Hotbar[i] \in Range(Hotbar)
<1>1. \A run \in {Grid, TableGrid, Armour, Main, Hotbar} : Range(run) \cap Outputs = {}
  BY RegionsApart
<1>2. Fuels \subseteq Bench /\ Fuels \cap Outputs = {} /\ "offhand" \notin Outputs /\ "offhand" \in Bench
  BY ListSlots, ResultSlots DEF Bench, Fuels, NoSlot
<1>3. NoSlot \in Outputs /\ NoSlot \notin Bench
  BY ListSlots, ResultSlots DEF Bench, NoSlot
<1>4. Main \in Seq(Storage) /\ Hotbar \in Seq(Storage) /\ Carried \in Seq(Storage) /\ Armour \in Seq(Storage)
  BY SlotFacts
<1>5. \A i \in DOMAIN Hotbar : Hotbar[i] \in Range(Hotbar)
  BY DEF Range
<1> QED BY <1>1, <1>2, <1>3, <1>4, <1>5, SlotFacts DEF Pocket

-----------------------------------------------------------------------------
(***************************************************************************)
(* Stacks that a slot may hold.                                            *)
(***************************************************************************)
\* What a stack that a slot may hold is.
LEMMA SizedFacts ==
  /\ NoKind \notin Kinds /\ Empty \in Sized /\ Empty.kind = NoKind /\ Empty.count = 0
  /\ \A k \in Kinds : StackSize[k] \in Nat /\ StackSize[k] > 0
  /\ \A h \in Sized :
       /\ h.kind \in Kinds \cup {NoKind} /\ h.count \in Nat
       /\ h # Empty => h.kind \in Kinds /\ h.kind # NoKind /\ h.count > 0 /\ h.count <= StackSize[h.kind]
  /\ \A k \in Kinds : \A n \in Nat :
       n > 0 /\ n <= StackSize[k] => [kind |-> k, count |-> n] \in Sized
  /\ \A k \in Kinds : \A n : [kind |-> k, count |-> n] # Empty
BY StacksAssumption DEF Sized, Stack, Empty

\* A stack of another count, a smaller stack, a bigger one, one item.
LEMMA Recounted ==
  ASSUME NEW h \in Sized, h # Empty, NEW n \in Nat, n > 0, n <= StackSize[h.kind]
  PROVE  /\ [h EXCEPT !.count = n] \in Sized /\ [h EXCEPT !.count = n].kind = h.kind
         /\ [h EXCEPT !.count = n].count = n /\ [h EXCEPT !.count = n] # Empty
<1>1. h \in Stack /\ h.kind \in Kinds
  BY SizedFacts DEF Sized
<1>2. [h EXCEPT !.count = n] = [kind |-> h.kind, count |-> n]
  BY <1>1 DEF Stack
<1> QED BY <1>1, <1>2, SizedFacts

LEMMA LessSized ==
  ASSUME NEW h \in Sized, NEW n \in Nat, NEW l, l = Less(h, n)
  PROVE  /\ l \in Sized /\ (l # Empty => l.kind = h.kind /\ l.count = h.count - n)
         /\ l.count <= h.count /\ l.kind \in {h.kind, NoKind}
<1>1. CASE h.count <= n
  BY <1>1, SizedFacts DEF Less
<1>2. CASE ~(h.count <= n)
  <2>1. h.count \in Nat /\ h # Empty /\ h.count - n \in Nat /\ h.count - n > 0
        /\ h.count - n <= StackSize[h.kind] /\ h.count <= StackSize[h.kind]
        /\ StackSize[h.kind] \in Nat
    <3>1. h.count \in Nat
      BY SizedFacts
    <3>2. h # Empty
      BY <1>2, <3>1, SizedFacts
    <3>3. h.kind \in Kinds /\ h.count <= StackSize[h.kind]
      BY <3>2, SizedFacts
    <3>4. StackSize[h.kind] \in Nat
      BY <3>3, SizedFacts
    <3> QED BY <1>2, <3>1, <3>2, <3>3, <3>4
  <2>2. l = [h EXCEPT !.count = h.count - n]
    BY <1>2 DEF Less
  <2> QED BY <2>1, <2>2, Recounted
<1> QED BY <1>1, <1>2

LEMMA MoreSized ==
  ASSUME NEW h \in Sized, h # Empty, NEW n \in Nat, h.count + n <= StackSize[h.kind],
         NEW m, m = More(h, n)
  PROVE  m \in Sized /\ m.kind = h.kind /\ m.count = h.count + n /\ m # Empty
<1>1. h.count \in Nat /\ h.count > 0
  BY SizedFacts
<1>2. m = [h EXCEPT !.count = h.count + n] /\ h.count + n \in Nat /\ h.count + n > 0
  BY <1>1 DEF More
<1> QED BY <1>2, Recounted

LEMMA OneSized ==
  ASSUME NEW k \in Kinds
  PROVE  One(k) \in Sized /\ One(k) # Empty /\ One(k).kind = k /\ One(k).count = 1
<1>1. StackSize[k] \in Nat /\ StackSize[k] > 0
  BY SizedFacts
<1>2. 1 \in Nat /\ 1 > 0 /\ 1 <= StackSize[k]
  BY <1>1
<1> QED BY <1>2, SizedFacts DEF One

LEMMA LowerIs ==
  ASSUME NEW a \in Int, NEW b \in Int
  PROVE  Lower(a, b) \in {a, b} /\ Lower(a, b) <= a /\ Lower(a, b) <= b /\ Lower(a, b) \in Int
BY DEF Lower

\* How much a slot takes is no more than a stack.
LEMMA LimitFacts ==
  ASSUME NEW s, NEW k \in Kinds
  PROVE  SlotLimit(s, k) \in Nat /\ SlotLimit(s, k) > 0 /\ SlotLimit(s, k) <= StackSize[k]
BY SizedFacts DEF SlotLimit

-----------------------------------------------------------------------------
(***************************************************************************)
(* Writing one slot, or the cursor.                                        *)
(***************************************************************************)
Inside == {s \in Storage : Writable(s)}

\* The type of an inventory, with its drag over slots that may be written.
LEMMA InventoryIs ==
  Inventory =
    [ slots : [Storage -> Sized], cursor : Sized, selected : DOMAIN Hotbar,
      drag : [on : BOOLEAN, kind : 0..2, over : SUBSET Inside],
      choice : Nat, cutOf : Kinds \cup {NoKind}, changed : SUBSET (Storage \cup {"cursor"}) ]
BY DEF Inventory, Inside

\* All but the slots, the cursor and what has changed.
SameRest(i, j) ==
  j.selected = i.selected /\ j.drag = i.drag /\ j.choice = i.choice /\ j.cutOf = i.cutOf

OthersSame(i, j, s) == \A t \in Storage : t # s => j.slots[t] = i.slots[t]

\* A slot written: nothing else differs, and it is told.
LEMMA PutFacts ==
  ASSUME NEW i \in Inventory, NEW s \in Storage, NEW h \in Sized
  PROVE  /\ Put(i, s, h) \in Inventory /\ Put(i, s, h).slots[s] = h /\ OthersSame(i, Put(i, s, h), s)
         /\ Put(i, s, h).cursor = i.cursor /\ SameRest(i, Put(i, s, h))
         /\ Put(i, s, h).changed = i.changed \cup {s}
<1> DEFINE j == Put(i, s, h)
<1>1. i.slots \in [Storage -> Sized] /\ i.changed \subseteq Storage \cup {"cursor"}
  BY InventoryIs
<1>2. [i.slots EXCEPT ![s] = h] \in [Storage -> Sized]
  BY <1>1
<1>3. i.changed \cup {s} \in SUBSET (Storage \cup {"cursor"})
  BY <1>1
<1>4. j = [i EXCEPT !.slots = [i.slots EXCEPT ![s] = h], !.changed = i.changed \cup {s}]
  BY InventoryIs DEF Put
<1>5. PICK sl, ch : sl = [i.slots EXCEPT ![s] = h] /\ ch = i.changed \cup {s}
  OBVIOUS
<1>6. j = [i EXCEPT !.slots = sl, !.changed = ch] /\ sl \in [Storage -> Sized]
      /\ ch \in SUBSET (Storage \cup {"cursor"})
  BY <1>2, <1>3, <1>4, <1>5
<1>7. j \in Inventory /\ j.slots = sl /\ j.changed = ch /\ j.cursor = i.cursor /\ SameRest(i, j)
  BY <1>6, InventoryIs DEF SameRest
<1>8. j.slots[s] = h /\ OthersSame(i, j, s)
  BY <1>1, <1>5, <1>7 DEF OthersSame
<1> QED BY <1>5, <1>7, <1>8

\* The cursor written: no slot differs.
LEMMA HoldFacts ==
  ASSUME NEW i \in Inventory, NEW h \in Sized
  PROVE  /\ Hold(i, h) \in Inventory /\ Hold(i, h).slots = i.slots /\ Hold(i, h).cursor = h
         /\ SameRest(i, Hold(i, h)) /\ Hold(i, h).changed = i.changed \cup {"cursor"}
<1> DEFINE j == Hold(i, h)
<1>1. i.changed \cup {"cursor"} \in SUBSET (Storage \cup {"cursor"})
  BY InventoryIs
<1>2. PICK ch : ch = i.changed \cup {"cursor"}
  OBVIOUS
<1>3. j = [i EXCEPT !.cursor = h, !.changed = ch]
  BY <1>2 DEF Hold
<1> QED BY <1>1, <1>2, <1>3, InventoryIs DEF SameRest

\* A slot emptied, or what has changed forgotten, and nobody told.
LEMMA LiftFacts ==
  ASSUME NEW i \in Inventory, NEW s \in Storage, NEW j, j = [i EXCEPT !.slots[s] = Empty]
  PROVE  /\ j \in Inventory /\ j.slots[s] = Empty /\ OthersSame(i, j, s)
         /\ j.cursor = i.cursor /\ SameRest(i, j) /\ j.changed = i.changed
<1>1. [i.slots EXCEPT ![s] = Empty] \in [Storage -> Sized] /\ i.slots \in [Storage -> Sized]
  BY InventoryIs, SizedFacts
<1>2. PICK sl : sl = [i.slots EXCEPT ![s] = Empty]
  OBVIOUS
<1>3. j = [i EXCEPT !.slots = sl] /\ sl \in [Storage -> Sized]
  BY <1>1, <1>2
<1>4. j \in Inventory /\ j.slots = sl /\ j.cursor = i.cursor /\ SameRest(i, j) /\ j.changed = i.changed
  BY <1>3, InventoryIs DEF SameRest
<1> QED BY <1>1, <1>2, <1>4 DEF OthersSame

LEMMA BareFacts ==
  ASSUME NEW i \in Inventory
  PROVE  /\ Bare(i) \in Inventory /\ Bare(i).slots = i.slots /\ Bare(i).cursor = i.cursor
         /\ SameRest(i, Bare(i)) /\ Bare(i).changed = {}
BY InventoryIs DEF Bare, SameRest

-----------------------------------------------------------------------------
(***************************************************************************)
(* What the benches show.  A bench whose cells are the same makes the same.*)
(***************************************************************************)
SameMaking(i, j, w) ==
  /\ \A s \in Range(Cells[w]) : j.slots[s] = i.slots[s]
  /\ w = "stonecutter" => j.choice = i.choice

Pictured(i, w) == i.slots[Output[w]] = Made(i, w)

\* Every bench outside X shows what it makes, or is one of C and its cells have
\* changed, so that it will be refreshed.
Showing(X, C) ==
  {i \in Inventory : \A w \in Benches \ X :
     Pictured(i, w) \/ (w \in C /\ i.changed \cap Range(Cells[w]) # {})}

\* What a bench makes depends on its cells and, for the cutter, on the choice.
LEMMA MadeFrom ==
  ASSUME NEW i, NEW j, NEW w \in Benches, SameMaking(i, j, w)
  PROVE  Made(j, w) = Made(i, w)
<1>1. DOMAIN Cells[w] = 1..Len(Cells[w]) /\ \A n \in DOMAIN Cells[w] : Cells[w][n] \in Range(Cells[w])
  BY BenchFacts, RunFacts
<1>2. \A n \in DOMAIN Cells[w] : j.slots[Cells[w][n]] = i.slots[Cells[w][n]]
  BY <1>1 DEF SameMaking
<1>3. Laid(j, w) = Laid(i, w)
  BY <1>2 DEF Laid
<1>4. Matching(j, w) = Matching(i, w)
  BY <1>3 DEF Matching
<1>5. CASE w = "stonecutter"
  <2>1. j.slots["cut_input"] = i.slots["cut_input"] /\ j.choice = i.choice
    BY <1>5, CellSlots, ListSlots DEF SameMaking
  <2>2. CutList(j) = CutList(i)
    BY <2>1 DEF CutList
  <2> QED BY <1>5, <2>1, <2>2 DEF Made
<1>6. CASE w # "stonecutter"
  BY <1>4, <1>6 DEF Made
<1> QED BY <1>5, <1>6

LEMMA CutListIs ==
  ASSUME NEW i \in Inventory
  PROVE  CutList(i) \in Seq(Sized)
<1>1. i.slots["cut_input"] \in Sized
  BY InventoryIs, SlotFacts DEF Bench
<1>2. i.slots["cut_input"] # Empty => i.slots["cut_input"].kind \in Kinds
  BY <1>1, SizedFacts
<1> QED BY <1>2, InventoryAssumption DEF CutList

\* What a bench makes fits a slot.
LEMMA MadeSized ==
  ASSUME NEW i \in Inventory, NEW w \in Benches
  PROVE  Made(i, w) \in Sized
<1>1. CASE w = "stonecutter"
  <2>1. PICK list : list = CutList(i)
    OBVIOUS
  <2>2. list \in Seq(Sized)
    BY <2>1, CutListIs
  <2>3. i.choice \in DOMAIN list => list[i.choice] \in Sized
    BY <2>2
  <2> QED BY <1>1, <2>1, <2>3, SizedFacts DEF Made
<1>2. CASE w # "stonecutter"
  <2>1. \A r \in Matching(i, w) : r.makes \in Sized
    BY InventoryAssumption DEF Matching
  <2>2. Matching(i, w) # {} => (CHOOSE r \in Matching(i, w) : TRUE) \in Matching(i, w)
    OBVIOUS
  <2> QED BY <1>2, <2>1, <2>2, SizedFacts DEF Made
<1> QED BY <1>1, <1>2

\* Of cells that are all empty nothing is made.
LEMMA NothingMade ==
  ASSUME NEW i, NEW w \in Benches, \A s \in Range(Cells[w]) : i.slots[s] = Empty
  PROVE  Made(i, w) = Empty
<1>1. CASE w = "stonecutter"
  <2>1. i.slots["cut_input"] = Empty
    BY <1>1, CellSlots, ListSlots
  <2>2. CutList(i) = <<>> /\ i.choice \notin DOMAIN CutList(i)
    BY <2>1 DEF CutList
  <2> QED BY <1>1, <2>2 DEF Made
<1>2. CASE w # "stonecutter"
  <2>1. PICK cells : cells = Cells[w]
    OBVIOUS
  <2>2. cells \in Seq(Storage) /\ Len(cells) \in Nat /\ DOMAIN cells = 1..Len(cells)
        /\ \A n \in 1..Len(cells) : cells[n] \in Range(cells)
    BY <2>1, BenchFacts, RunFacts
  <2>3. PICK kinds : kinds = [n \in DOMAIN cells |-> i.slots[cells[n]].kind]
    OBVIOUS
  <2>4. Len(kinds) \in Nat /\ \A n \in 1..Len(kinds) : kinds[n] = NoKind
    BY <2>1, <2>2, <2>3, SizedFacts
  <2>5. Laid(i, w) = FillEnd(<<>>, kinds)
    BY <2>1, <2>3, FilledIs DEF Laid
  <2>6. PICK P : P = [n \in 0..Len(kinds) |-> {<<>>}]
    OBVIOUS
  <2>7. FillLeads(kinds, P) /\ <<>> \in P[0] /\ P[Len(kinds)] = {<<>>}
    BY <2>4, <2>6 DEF FillLeads, FillOne
  <2>8. Laid(i, w) = <<>>
    BY <2>4, <2>5, <2>7, FillLoop
  <2>9. \A r \in Smithing : <<r.template, r.base, r.addition>> # <<>>
    OBVIOUS
  <2>10. Matching(i, w) = {}
    BY <2>8, <2>9, InventoryAssumption DEF Matching
  <2> QED BY <1>2, <2>10 DEF Made
<1> QED BY <1>1, <1>2

\* What leaves the cells and the results of the benches alone leaves the pictures.
LEMMA ShowingSame ==
  ASSUME NEW X, NEW C, NEW i \in Showing(X, C), NEW j \in Inventory,
         \A w \in Benches \ X : SameMaking(i, j, w) /\ j.slots[Output[w]] = i.slots[Output[w]],
         C = {} \/ i.changed \subseteq j.changed
  PROVE  j \in Showing(X, C)
<1> SUFFICES ASSUME NEW w \in Benches \ X
             PROVE  Pictured(j, w) \/ (w \in C /\ j.changed \cap Range(Cells[w]) # {})
  BY DEF Showing
<1>1. Made(j, w) = Made(i, w)
  BY MadeFrom
<1>2. Pictured(i, w) => Pictured(j, w)
  BY <1>1 DEF Pictured
<1>3. Pictured(i, w) \/ (w \in C /\ i.changed \cap Range(Cells[w]) # {})
  BY DEF Showing
<1> QED BY <1>2, <1>3

\* j is i with some of the slots of D written, and everybody told.
Writes(i, j, D) ==
  /\ j \in Inventory /\ SameRest(i, j) /\ i.changed \subseteq j.changed
  /\ \A s \in Storage : j.slots[s] = i.slots[s] \/ (s \in D /\ s \in j.changed)

\* A write away from the cells and the results of all benches that must show
\* leaves them showing.
LEMMA WritesShow ==
  ASSUME NEW X, NEW C, NEW i \in Showing(X, C), NEW j, NEW D, Writes(i, j, D),
         \A w \in Benches \ X : Output[w] \notin D /\ (w \in C \/ Range(Cells[w]) \cap D = {})
  PROVE  j \in Showing(X, C)
<1> SUFFICES ASSUME NEW w \in Benches \ X
             PROVE  Pictured(j, w) \/ (w \in C /\ j.changed \cap Range(Cells[w]) # {})
  BY DEF Showing, Writes
<1>1. CASE w \in C /\ j.changed \cap Range(Cells[w]) # {}
  BY <1>1
<1>2. CASE ~(w \in C /\ j.changed \cap Range(Cells[w]) # {})
  <2>1. Range(Cells[w]) \subseteq Storage /\ Output[w] \in Storage
    BY BenchFacts
  <2>2. \A s \in Range(Cells[w]) : j.slots[s] = i.slots[s]
    BY <1>2, <2>1 DEF Writes
  <2>3. SameMaking(i, j, w)
    BY <2>2 DEF SameMaking, Writes, SameRest
  <2>4. j.slots[Output[w]] = i.slots[Output[w]]
    BY <2>1 DEF Writes
  <2>5. Pictured(i, w)
    BY <1>2 DEF Showing, Writes
  <2> QED BY <2>3, <2>4, <2>5, MadeFrom DEF Pictured
<1> QED BY <1>1, <1>2

LEMMA WritesOn ==
  ASSUME NEW i, NEW j, NEW k, NEW D, NEW E, Writes(i, j, D), Writes(j, k, E), D \subseteq E
  PROVE  Writes(i, k, E)
BY DEF Writes, SameRest

LEMMA WritesNothing ==
  ASSUME NEW i \in Inventory, NEW D
  PROVE  Writes(i, i, D)
BY DEF Writes, SameRest

LEMMA WritesMore ==
  ASSUME NEW i, NEW j, NEW D, NEW E, Writes(i, j, D), D \subseteq E
  PROVE  Writes(i, j, E)
BY DEF Writes

LEMMA PutWrites ==
  ASSUME NEW i \in Inventory, NEW s \in Storage, NEW h \in Sized, NEW D, s \in D
  PROVE  Writes(i, Put(i, s, h), D)
BY PutFacts DEF Writes, OthersSame

LEMMA HoldWrites ==
  ASSUME NEW i \in Inventory, NEW h \in Sized, NEW D
  PROVE  Writes(i, Hold(i, h), D)
BY HoldFacts DEF Writes

\* A result shown is one slot written, or none.
LEMMA ShowWrites ==
  ASSUME NEW i \in Inventory, NEW s \in Storage, NEW h \in Sized, NEW D, s \in D
  PROVE  Writes(i, Show(i, s, h), D) /\ Show(i, s, h).slots[s] = h
         /\ Show(i, s, h).cursor = i.cursor /\ Show(i, s, h).changed \subseteq i.changed \cup {s}
<1>1. Writes(i, Put(i, s, h), D) /\ Writes(i, i, D)
  BY PutWrites, WritesNothing
<1> QED BY <1>1, PutFacts DEF Show
\* Forgetting what has changed, and a change of what is not shown.
LEMMA Unshown ==
  ASSUME NEW X, NEW i \in Showing(X, {}), NEW j \in Inventory, j.slots = i.slots, j.choice = i.choice
  PROVE  j \in Showing(X, {})
<1>1. \A w \in Benches \ X : SameMaking(i, j, w) /\ j.slots[Output[w]] = i.slots[Output[w]]
  BY DEF SameMaking
<1> QED BY <1>1, ShowingSame

\* The choice of a cut kept or dropped: no slot differs (refresh_cut).
LEMMA RechosenFacts ==
  ASSUME NEW i \in Inventory
  PROVE  /\ Rechosen(i) \in Inventory /\ Rechosen(i).slots = i.slots /\ Rechosen(i).cursor = i.cursor
         /\ Rechosen(i).changed = i.changed
<1>1. i.slots["cut_input"].kind \in Kinds \cup {NoKind}
  BY InventoryIs, SlotFacts, SizedFacts DEF Bench
<1>2. PICK k : k = i.slots["cut_input"].kind
  OBVIOUS
<1>3. Rechosen(i) = i \/ Rechosen(i) = [i EXCEPT !.cutOf = k, !.choice = 0]
  BY <1>2 DEF Rechosen
<1>4. PICK j : j = [i EXCEPT !.cutOf = k, !.choice = 0]
  OBVIOUS
<1>5. j \in Inventory /\ j.slots = i.slots /\ j.cursor = i.cursor /\ j.changed = i.changed
  BY ONLY <1>1, <1>2, <1>4, i \in Inventory, InventoryIs
<1> QED BY <1>3, <1>4, <1>5

\* A bench refreshed shows what it makes, and the others show what they did.
LEMMA RefreshShows ==
  ASSUME NEW X, NEW C, NEW i \in Showing(X, C), NEW w \in Benches
  PROVE  RefreshOutput(i, w) \in Showing(X \ {w}, C \ {w})
<1> DEFINE seen == IF w = "stonecutter" THEN Rechosen(i) ELSE i
           j == RefreshOutput(i, w)
<1>1. i \in Inventory
  BY DEF Showing
<1>2. /\ seen \in Inventory /\ seen.slots = i.slots /\ seen.changed = i.changed
      /\ w # "stonecutter" => seen.choice = i.choice
  BY <1>1, RechosenFacts
<1>3. j = Show(seen, Output[w], Made(seen, w))
  BY DEF RefreshOutput
<1>4. Made(seen, w) \in Sized /\ Output[w] \in Storage
  BY <1>2, MadeSized, BenchFacts
<1> HIDE DEF seen, j
<1>5. Writes(seen, j, {Output[w]}) /\ j.slots[Output[w]] = Made(seen, w)
  BY <1>2, <1>3, <1>4, ShowWrites
<1>6. j \in Inventory /\ i.changed \subseteq j.changed /\ j.choice = seen.choice
      /\ \A s \in Storage : s # Output[w] => j.slots[s] = i.slots[s]
  BY <1>2, <1>5 DEF Writes, SameRest
<1>7. \A v \in Benches : \A s \in Range(Cells[v]) : s \in Storage /\ s # Output[w]
  BY BenchFacts
<1>8. Pictured(j, w)
  <2>1. SameMaking(seen, j, w)
    BY <1>2, <1>6, <1>7 DEF SameMaking
  <2> QED BY <1>5, <2>1, MadeFrom DEF Pictured
<1>9. ASSUME NEW v \in Benches \ (X \ {w}), v # w
      PROVE  Pictured(j, v) \/ (v \in C \ {w} /\ j.changed \cap Range(Cells[v]) # {})
  <2>1. Pictured(i, v) \/ (v \in C /\ i.changed \cap Range(Cells[v]) # {})
    BY <1>9 DEF Showing
  <2>2. \A s \in Range(Cells[v]) : j.slots[s] = i.slots[s]
    BY <1>6, <1>7
  <2>3. v = "stonecutter" => j.choice = i.choice
    BY <1>2, <1>6, <1>9
  <2>4. Output[v] \in Storage /\ Output[v] # Output[w]
    BY <1>9, BenchFacts
  <2>5. SameMaking(i, j, v) /\ j.slots[Output[v]] = i.slots[Output[v]]
    BY <1>6, <2>2, <2>3, <2>4 DEF SameMaking
  <2>6. Pictured(i, v) => Pictured(j, v)
    BY <2>5, MadeFrom DEF Pictured
  <2> QED BY <1>6, <1>9, <2>1, <2>6
<1>10. ASSUME NEW v \in Benches \ (X \ {w})
       PROVE  Pictured(j, v) \/ (v \in C \ {w} /\ j.changed \cap Range(Cells[v]) # {})
  BY <1>8, <1>9
<1>11. j \in Showing(X \ {w}, C \ {w})
  BY <1>6, <1>10 DEF Showing
<1> QED BY <1>11 DEF j

\* Every bench whose cells have changed is refreshed.
LEMMA RefreshedShows ==
  ASSUME NEW i \in Showing({}, Benches)
  PROVE  Refreshed(i) \in Showing({}, {})
<1>1. PICK order : order = <<"player", "table", "stonecutter", "smithing">>
  OBVIOUS
<1>2. Len(order) = 4 /\ order[1] = "player" /\ order[2] = "table" /\ order[3] = "stonecutter"
      /\ order[4] = "smithing" /\ \A n \in 1..4 : order[n] \in Benches
  BY <1>1 DEF Benches
<1>3. PICK P : P = [n \in 0..4 |-> Showing({}, Benches \ {order[m] : m \in 1..n})]
  OBVIOUS
<1>4. P[0] = Showing({}, Benches) /\ P[4] = Showing({}, {})
  <2>1. Benches \ {order[m] : m \in 1..0} = Benches
    OBVIOUS
  <2>2. {order[m] : m \in 1..4} = Benches
    BY <1>2 DEF Benches
  <2>3. P[0] = Showing({}, Benches \ {order[m] : m \in 1..0})
        /\ P[4] = Showing({}, Benches \ {order[m] : m \in 1..4})
    BY <1>3
  <2>4. Benches \ Benches = {}
    OBVIOUS
  <2> QED BY <2>1, <2>2, <2>3, <2>4
<1>5. ASSUME NEW n \in 1..4, NEW a \in P[n - 1] PROVE AgainOne(a, order[n]) \in P[n]
  <2>1. PICK C : C = Benches \ {order[m] : m \in 1..n - 1}
    OBVIOUS
  <2>2. Benches \ {order[m] : m \in 1..n} = C \ {order[n]}
    BY <2>1
  <2>3. P[n - 1] = Showing({}, C) /\ P[n] = Showing({}, C \ {order[n]})
    <3>1. n \in 0..4 /\ n - 1 \in 0..4
      OBVIOUS
    <3>2. P[n] = Showing({}, Benches \ {order[m] : m \in 1..n})
      BY <1>3, <3>1
    <3>3. P[n - 1] = Showing({}, Benches \ {order[m] : m \in 1..n - 1})
      BY <1>3, <3>1
    <3> QED BY <2>1, <2>2, <3>2, <3>3
  <2>4. PICK w \in Benches : w = order[n]
    BY <1>2
  <2>5. RefreshOutput(a, w) \in Showing({} \ {w}, C \ {w})
    BY <1>5, <2>3, RefreshShows
  <2>6. CASE a.changed \cap Range(Cells[w]) = {}
    BY <1>5, <2>3, <2>4, <2>6 DEF AgainOne, Showing
  <2>7. CASE a.changed \cap Range(Cells[w]) # {}
    <3>1. {} \ {w} = {}
      OBVIOUS
    <3> QED BY <2>3, <2>4, <2>5, <2>7, <3>1 DEF AgainOne
  <2> QED BY <2>6, <2>7
<1>6. AgainLeads(order, P) /\ Len(order) \in Nat
  BY <1>2, <1>5 DEF AgainLeads
<1>7. AgainEnd(i, order) \in P[Len(order)]
  BY <1>4, <1>6, AgainLoop
<1> QED BY <1>1, <1>2, <1>4, <1>7, RefreshedIs

\* The slots of a window are for writing in, but the one that shows its result.
LEMMA WindowFacts ==
  ASSUME NEW w \in Windows, NEW s \in Range(WindowSlots[w])
  PROVE  s \in Storage /\ (s # Output[w] => s \in Inside) /\ (s = Output[w] => w \in Benches)
<1>1. s \in Storage
  BY SlotFacts
<1>2. s \in Outputs => s = Output[w] /\ w \in Benches
  <2>1. (Range(Grid) \cup Range(TableGrid) \cup Range(Armour) \cup Range(Carried)) \cap Outputs = {}
    BY RegionsApart, CarriedFacts DEF Pocket
  <2>2. (Range(FurnaceSlots) \cup Range(Smith) \cup {"offhand", "cut_input"}) \cap Outputs = {}
    BY ListSlots, ResultSlots DEF NoSlot
  <2>3. PICK v \in Benches \cup {"furnace"} : v = w
    BY SlotFacts
  <2> QED BY <1>1, <2>1, <2>2, <2>3, WindowRuns, ResultSlots, SlotFacts DEF Benches
<1>3. s = Output[w] => w \in Benches
  <2>1. NoSlot \notin Storage
    BY CarriedFacts
  <2> QED BY <1>1, <2>1, ResultSlots, SlotFacts
<1> QED BY <1>1, <1>2, <1>3 DEF Inside, Writable
-----------------------------------------------------------------------------
(***************************************************************************)
(* Moving a stack: what is left of it, and where the rest has gone.        *)
(***************************************************************************)
Moving(i, D) == {a \in [inv : Inventory, left : Sized] : Writes(i, a.inv, D)}

LEMMA PutMoves ==
  ASSUME NEW i, NEW D, D \subseteq Storage, NEW a \in Moving(i, D), NEW s \in D,
         NEW h \in Sized, NEW l \in Sized
  PROVE  [inv |-> Put(a.inv, s, h), left |-> l] \in Moving(i, D)
<1>1. a.inv \in Inventory /\ Writes(i, a.inv, D) /\ s \in Storage
  BY DEF Moving
<1>2. Writes(a.inv, Put(a.inv, s, h), D)
  BY <1>1, PutWrites
<1>3. Writes(i, Put(a.inv, s, h), D)
  BY <1>1, <1>2, WritesOn
<1>4. Put(a.inv, s, h) \in Inventory
  BY <1>2 DEF Writes
<1> QED BY <1>3, <1>4 DEF Moving

\* A turn over one slot moves a part of what is left into it.
LEMMA GrowMoves ==
  ASSUME NEW i, NEW D, D \subseteq Storage, NEW a \in Moving(i, D), NEW s \in D
  PROVE  Grow(a, s) \in Moving(i, D)
<1> DEFINE h == a.inv.slots[s]
           room == Room(a.inv, s, a.left.kind)
           moved == Lower(a.left.count, room)
<1>1. a.inv \in Inventory /\ a.left \in Sized /\ h \in Sized
  BY InventoryIs DEF Moving
<1>2. CASE a.left # Empty /\ h.kind = a.left.kind /\ moved > 0
  <2>1. a.left.kind \in Kinds /\ a.left.count \in Nat /\ h.count \in Nat /\ h # Empty
    BY <1>1, <1>2, SizedFacts
  <2>2. SlotLimit(s, a.left.kind) \in Nat /\ SlotLimit(s, a.left.kind) <= StackSize[h.kind]
        /\ StackSize[h.kind] \in Nat
    BY <1>2, <2>1, LimitFacts, SizedFacts
  <2>3. room = SlotLimit(s, a.left.kind) - h.count
    BY DEF Room
  <2> HIDE DEF h, room
  <2>4. moved \in Int /\ moved <= room
    <3>1. room \in Int
      BY <2>1, <2>2, <2>3
    <3>2. a.left.count \in Int
      BY <2>1
    <3> QED BY <3>1, <3>2, LowerIs
  <2> HIDE DEF moved
  <2>5. moved \in Nat /\ h.count + moved <= StackSize[h.kind]
    BY <1>2, <2>1, <2>2, <2>3, <2>4
  <2>6. More(h, moved) \in Sized /\ Less(a.left, moved) \in Sized
    BY <1>1, <2>1, <2>5, MoreSized, LessSized
  <2>7. [inv |-> Put(a.inv, s, More(h, moved)), left |-> Less(a.left, moved)] \in Moving(i, D)
    BY <2>6, PutMoves
  <2> QED BY <1>2, <2>7 DEF Grow, h, room, moved
<1>3. CASE ~(a.left # Empty /\ h.kind = a.left.kind /\ moved > 0)
  BY <1>3 DEF Grow
<1> QED BY <1>2, <1>3

LEMMA FirstIs ==
  ASSUME NEW S, NEW run \in Seq(S), NEW T, Range(run) \cap T # {}
  PROVE  FirstOf(run, T) \in DOMAIN run /\ run[FirstOf(run, T)] \in T
<1>1. PICK at : at = {n \in DOMAIN run : run[n] \in T}
  OBVIOUS
<1>2. at \subseteq Nat /\ at # {} /\ DOMAIN run = 1..Len(run) /\ Len(run) \in Nat
  BY <1>1 DEF Range
<1>3. PICK n \in at : \A m \in at : n <= m
  BY <1>2, LeastNumber
<1>4. n \in DOMAIN run /\ run[n] \in T /\ \A m \in 1..n - 1 : run[m] \notin T
  BY <1>1, <1>2, <1>3
<1> QED BY <1>4 DEF FirstOf

\* The second pass uses the first slot that is free and may take the stack.
LEMMA SettleMoves ==
  ASSUME NEW i, NEW D, D \subseteq Storage, NEW a \in Moving(i, D), NEW run \in Seq(Storage),
         Range(run) \subseteq D
  PROVE  Settle(a, run) \in Moving(i, D)
<1> DEFINE free == {s \in Range(run) : a.inv.slots[s] = Empty /\ MayPlace(s, a.left.kind)}
           slot == run[FirstOf(run, free)]
           moved == Lower(a.left.count, SlotLimit(slot, a.left.kind))
<1>1. a.inv \in Inventory /\ a.left \in Sized
  BY DEF Moving
<1>2. CASE a.left # Empty /\ free # {}
  <2>1. slot \in free
    <3>1. Range(run) \cap free # {}
      BY <1>2
    <3> HIDE DEF free
    <3> QED BY <3>1, FirstIs
  <2>2. slot \in D
    BY <2>1
  <2>3. a.left.kind \in Kinds /\ a.left.count \in Nat /\ a.left.count > 0
        /\ a.left.count <= StackSize[a.left.kind]
    BY <1>1, <1>2, SizedFacts
  <2> HIDE DEF slot
  <2>4. SlotLimit(slot, a.left.kind) \in Nat /\ SlotLimit(slot, a.left.kind) > 0
    BY <2>3, LimitFacts
  <2>5. moved \in {a.left.count, SlotLimit(slot, a.left.kind)} /\ moved <= a.left.count /\ moved \in Int
    <3>1. PICK limit : limit = SlotLimit(slot, a.left.kind)
      OBVIOUS
    <3>2. limit \in Int /\ a.left.count \in Int
      BY <2>3, <2>4, <3>1
    <3> QED BY <3>1, <3>2, LowerIs
  <2> HIDE DEF moved
  <2>6. moved \in Nat /\ moved > 0 /\ moved <= StackSize[a.left.kind]
    <3>1. StackSize[a.left.kind] \in Nat
      BY <2>3, SizedFacts
    <3> QED BY <2>3, <2>4, <2>5, <3>1
  <2>7. [a.left EXCEPT !.count = moved] \in Sized /\ Less(a.left, moved) \in Sized
    BY <1>1, <1>2, <2>6, Recounted, LessSized
  <2>8. [inv |-> Put(a.inv, slot, [a.left EXCEPT !.count = moved]), left |-> Less(a.left, moved)]
          \in Moving(i, D)
    BY <2>2, <2>7, PutMoves
  <2> QED BY <1>2, <2>8 DEF Settle, slot, moved
<1>3. CASE ~(a.left # Empty /\ free # {})
  BY <1>3 DEF Settle
<1> QED BY <1>2, <1>3

\* Into a run after another.
LEMMA GrowthMoves ==
  ASSUME NEW i, NEW D, D \subseteq Storage, NEW a \in Moving(i, D), NEW run \in Seq(Storage),
         Range(run) \subseteq D
  PROVE  GrowEnd(a, run) \in Moving(i, D)
<1>1. PICK P : P = [n \in 0..Len(run) |-> Moving(i, D)]
  OBVIOUS
<1>2. Len(run) \in Nat /\ \A n \in 1..Len(run) : run[n] \in D
  BY RunFacts
<1>3. P[0] = Moving(i, D) /\ P[Len(run)] = Moving(i, D)
  BY <1>1, <1>2
<1>4. ASSUME NEW n \in 1..Len(run), NEW b \in P[n - 1] PROVE Grow(b, run[n]) \in P[n]
  <2>1. P[n - 1] = Moving(i, D) /\ P[n] = Moving(i, D)
    BY <1>1, <1>2
  <2> QED BY <1>2, <2>1, GrowMoves
<1>5. GrowLeads(run, P)
  BY <1>4 DEF GrowLeads
<1> QED BY <1>2, <1>3, <1>5, GrowLoop

LEMMA StartMoves ==
  ASSUME NEW i \in Inventory, NEW D, NEW stack \in Sized
  PROVE  [inv |-> i, left |-> stack] \in Moving(i, D)
BY WritesNothing DEF Moving

\* A stack moved into a run of slots writes in that run only (move_into).
LEMMA MoveIntoMoves ==
  ASSUME NEW i \in Inventory, NEW D, D \subseteq Storage, NEW stack \in Sized,
         NEW run \in Seq(Storage), Range(run) \subseteq D
  PROVE  MoveInto(i, stack, run) \in Moving(i, D)
BY StartMoves, GrowthMoves, SettleMoves, MoveIntoIs

\* What a player is given goes into slots that are carried.
LEMMA PlaceMoves ==
  ASSUME NEW i \in Inventory, NEW stack \in Sized
  PROVE  Place(i, stack) \in Moving(i, Pocket) /\ Writes(i, Give(i, stack), Pocket)
<1>1. PICK first : first = <<Hotbar[i.selected], "offhand">>
  OBVIOUS
<1>2. i.selected \in DOMAIN Hotbar
  BY InventoryIs
<1>3. Hotbar[i.selected] \in Pocket /\ "offhand" \in Pocket /\ Pocket \subseteq Storage
  BY <1>2, CarriedFacts DEF Pocket
<1>4. first \in Seq(Storage) /\ Range(first) \subseteq Pocket
  <2>1. DOMAIN first = 1..2 /\ first[1] = Hotbar[i.selected] /\ first[2] = "offhand"
        /\ first \in Seq(Storage)
    BY <1>1, <1>3
  <2> QED BY <1>3, <2>1 DEF Range
<1>5. PICK one : one = first \o Hotbar
  OBVIOUS
<1>6. one \in Seq(Storage) /\ Range(one) \subseteq Pocket
  BY <1>4, <1>5, RangeOfTwo, CarriedFacts
<1>7. PICK whole : whole = one \o Main
  OBVIOUS
<1>8. whole \in Seq(Storage) /\ Range(whole) \subseteq Pocket
  BY <1>6, <1>7, RangeOfTwo, CarriedFacts
<1>9. PICK rest : rest = Hotbar \o Main
  OBVIOUS
<1>10. rest \in Seq(Storage) /\ Range(rest) \subseteq Pocket
  BY <1>9, RangeOfTwo, CarriedFacts
<1>11. Place(i, stack) = Settle(GrowEnd([inv |-> i, left |-> stack], whole), rest)
  BY <1>1, <1>5, <1>7, <1>9, PlaceIs
<1>12. GrowEnd([inv |-> i, left |-> stack], whole) \in Moving(i, Pocket)
  BY <1>3, <1>8, StartMoves, GrowthMoves
<1>13. Place(i, stack) \in Moving(i, Pocket)
  BY <1>3, <1>10, <1>11, <1>12, SettleMoves
<1> QED BY <1>13 DEF Moving, Give

\* No bench looks at what is carried.
LEMMA PocketShows ==
  ASSUME NEW X, NEW C, NEW i \in Showing(X, C), NEW j, Writes(i, j, Pocket)
  PROVE  j \in Showing(X, C)
<1>1. \A w \in Benches : Output[w] \notin Pocket /\ Range(Cells[w]) \cap Pocket = {}
  BY BenchFacts
<1> QED BY <1>1, WritesShow

\* A slot for writing in shows no result, and its bench will be refreshed.
LEMMA InsideShows ==
  ASSUME NEW X, NEW i \in Showing(X, Benches), NEW j, Writes(i, j, Inside)
  PROVE  j \in Showing(X, Benches)
<1>1. \A w \in Benches : Output[w] \notin Inside
  BY BenchFacts DEF Inside, Writable
<1> QED BY <1>1, WritesShow

LEMMA InsideFacts ==
  /\ Inside \subseteq Storage /\ Pocket \subseteq Inside /\ Range(Armour) \subseteq Inside
  /\ Fuels \subseteq Inside /\ \A w \in Benches : Range(Cells[w]) \subseteq Inside
BY CarriedFacts, BenchFacts DEF Inside, Writable
LEMMA ShowingMore ==
  ASSUME NEW X, NEW C, NEW Y, NEW E, X \subseteq Y, C \subseteq E
  PROVE  Showing(X, C) \subseteq Showing(Y, E)
BY DEF Showing

-----------------------------------------------------------------------------
(***************************************************************************)
(* A result taken: its cells are spent, then its bench is refreshed.       *)
(***************************************************************************)
LEMMA SpendPlainWrites ==
  ASSUME NEW i \in Inventory, NEW s \in Inside
  PROVE  Writes(i, SpendPlain(i, s), Inside)
<1>1. s \in Storage /\ i.slots[s] \in Sized
  BY InsideFacts, InventoryIs
<1>2. Less(i.slots[s], 1) \in Sized
  BY <1>1, LessSized
<1> QED BY <1>1, <1>2, PutWrites, WritesNothing DEF SpendPlain

\* An ingredient spent, with what it leaves behind in its cell or given back.
LEMMA SpendCraftedWrites ==
  ASSUME NEW i \in Inventory, NEW s \in Inside
  PROVE  Writes(i, SpendCrafted(i, s), Inside)
<1> DEFINE spent == SpendPlain(i, s)
           rest == spent.slots[s]
           left == Remainder[i.slots[s].kind]
<1>1. s \in Storage /\ i.slots[s] \in Sized
  BY InsideFacts, InventoryIs
<1>2. Writes(i, spent, Inside)
  BY SpendPlainWrites
<1> HIDE DEF spent
<1>3. spent \in Inventory /\ rest \in Sized
  BY <1>1, <1>2, InventoryIs DEF Writes
<1>4. CASE i.slots[s] = Empty \/ left = NoKind
  BY <1>2, <1>4 DEF SpendCrafted, spent
<1>5. CASE ~(i.slots[s] = Empty \/ left = NoKind)
  <2>1. left \in Kinds
    BY <1>1, <1>5, SizedFacts, StacksAssumption
  <2>2. One(left) \in Sized
    BY <2>1, OneSized
  <2> HIDE DEF left, rest
  <2>3. CASE rest = Empty
    <3>1. Writes(spent, Put(spent, s, One(left)), Inside)
      BY <1>1, <1>3, <2>2, PutWrites
    <3>2. SpendCrafted(i, s) = Put(spent, s, One(left))
      BY <1>5, <2>3 DEF SpendCrafted, spent, left, rest
    <3> QED BY <1>2, <3>1, <3>2, WritesOn
  <2>4. CASE rest # Empty /\ rest.kind = left /\ rest.count < StackSize[left]
    <3>1. rest.count \in Nat /\ StackSize[rest.kind] \in Nat /\ rest.count < StackSize[rest.kind]
      BY <1>3, <2>1, <2>4, SizedFacts
    <3>2. 1 \in Nat /\ rest.count + 1 <= StackSize[rest.kind]
      BY <3>1
    <3>3. More(rest, 1) \in Sized
      BY <1>3, <2>4, <3>2, MoreSized
    <3>4. Writes(spent, Put(spent, s, More(rest, 1)), Inside)
      BY <1>1, <1>3, <3>3, PutWrites
    <3>5. SpendCrafted(i, s) = Put(spent, s, More(rest, 1))
      BY <1>5, <2>4 DEF SpendCrafted, spent, left, rest
    <3> QED BY <1>2, <3>4, <3>5, WritesOn
  <2>5. CASE rest # Empty /\ ~(rest.kind = left /\ rest.count < StackSize[left])
    <3>1. Writes(spent, Give(spent, One(left)), Pocket)
      BY <1>3, <2>2, PlaceMoves
    <3>2. Writes(spent, Give(spent, One(left)), Inside)
      BY <3>1, WritesMore, InsideFacts
    <3>3. SpendCrafted(i, s) = Give(spent, One(left))
      BY <1>5, <2>5 DEF SpendCrafted, spent, left, rest
    <3> QED BY <1>2, <3>2, <3>3, WritesOn
  <2> QED BY <2>3, <2>4, <2>5
<1> QED BY <1>4, <1>5

\* A result taken: its own bench shows at once, the others by the refreshes
\* after the click (take_result).
LEMMA TakeShows ==
  ASSUME NEW X, NEW i \in Showing(X, Benches), NEW w \in Benches
  PROVE  TakeResult(i, w) \in Showing(X \ {w}, Benches)
<1>1. PICK run : run = Cells[w]
  OBVIOUS
<1>2. Len(run) \in Nat /\ \A n \in 1..Len(run) : run[n] \in Inside
  BY <1>1, BenchFacts, RunFacts, InsideFacts
<1>3. PICK P : P = [n \in 0..Len(run) |-> {j \in Inventory : Writes(i, j, Inside)}]
  OBVIOUS
<1>4. i \in P[0]
  <2>1. i \in Inventory
    BY DEF Showing
  <2> QED BY <1>2, <1>3, <2>1, WritesNothing
<1>5. ASSUME NEW n \in 1..Len(run), NEW a \in P[n - 1] PROVE SpendOne(a, run[n], w) \in P[n]
  <2>1. n \in 0..Len(run) /\ n - 1 \in 0..Len(run)
    BY <1>2
  <2>2. a \in Inventory /\ Writes(i, a, Inside)
    BY <1>3, <1>5, <2>1
  <2>3. Writes(a, SpendOne(a, run[n], w), Inside)
    BY <1>2, <2>2, SpendPlainWrites, SpendCraftedWrites DEF SpendOne
  <2>4. Writes(i, SpendOne(a, run[n], w), Inside)
    BY <2>2, <2>3, WritesOn
  <2>5. SpendOne(a, run[n], w) \in Inventory
    BY <2>3 DEF Writes
  <2> QED BY <1>3, <2>1, <2>4, <2>5
<1>6. SpendLeads(run, P, w)
  BY <1>5 DEF SpendLeads
<1>7. SpendEnd(i, run, w) \in P[Len(run)]
  BY <1>2, <1>4, <1>6, SpendLoop
<1>8. Writes(i, SpendEnd(i, run, w), Inside)
  BY <1>2, <1>3, <1>7
<1>9. SpendEnd(i, run, w) \in Showing(X, Benches)
  BY <1>8, InsideShows
<1>10. RefreshOutput(SpendEnd(i, run, w), w) \in Showing(X \ {w}, Benches \ {w})
  BY <1>9, RefreshShows
<1>11. Showing(X \ {w}, Benches \ {w}) \subseteq Showing(X \ {w}, Benches)
  BY ShowingMore
<1> QED BY <1>1, <1>10, <1>11, TakeResultIs

\* With nothing refused, taking leaves every bench showing or to be refreshed.
LEMMA TakeAfter ==
  ASSUME NEW i \in Showing({}, Benches), NEW j, Writes(i, j, Inside), NEW w \in Benches
  PROVE  TakeResult(j, w) \in Showing({}, Benches)
<1>1. j \in Showing({}, Benches) /\ {} \ {w} = {}
  BY InsideShows
<1> QED BY <1>1, TakeShows
-----------------------------------------------------------------------------
(***************************************************************************)
(* The clicks.  Each leaves every bench showing what it makes or about to  *)
(* be refreshed.                                                           *)
(***************************************************************************)
LEMMA PickupOutsideWrites ==
  ASSUME NEW i \in Inventory, NEW button
  PROVE  Writes(i, PickupOutside(i, button), Inside)
<1>1. i.cursor \in Sized
  BY InventoryIs
<1>2. Less(i.cursor, 1) \in Sized /\ Empty \in Sized
  BY <1>1, LessSized, SizedFacts
<1>3. Writes(i, Hold(i, Less(i.cursor, 1)), Inside) /\ Writes(i, Hold(i, Empty), Inside)
  BY <1>2, HoldWrites
<1> QED BY <1>3, WritesNothing DEF PickupOutside

\* A result taken to the cursor, if all of it fits there (pickup_result).
LEMMA PickupResultShows ==
  ASSUME NEW i \in Showing({}, Benches), NEW w \in Benches
  PROVE  PickupResult(i, w) \in Showing({}, Benches)
<1> DEFINE made == i.slots[Output[w]]
           total == i.cursor.count + made.count
           held == [made EXCEPT !.count = total]
<1>1. i \in Inventory /\ made \in Sized /\ i.cursor \in Sized
  BY BenchFacts, InventoryIs DEF Showing
<1>2. CASE made # Empty /\ i.cursor.kind \in {NoKind, made.kind} /\ ~(total > StackSize[made.kind])
  <2>1. made.count \in Nat /\ made.count > 0 /\ i.cursor.count \in Nat /\ StackSize[made.kind] \in Nat
    BY <1>1, <1>2, SizedFacts
  <2>2. total \in Nat /\ total > 0 /\ total <= StackSize[made.kind]
    BY <1>2, <2>1
  <2> HIDE DEF made, total
  <2>3. held \in Sized
    BY <1>1, <1>2, <2>2, Recounted
  <2>4. Writes(i, Hold(i, held), Inside)
    BY <1>1, <2>3, HoldWrites
  <2> HIDE DEF held
  <2>5. TakeResult(Hold(i, held), w) \in Showing({}, Benches)
    BY <2>4, TakeAfter
  <2> QED BY <1>2, <2>5 DEF PickupResult, made, total, held
<1>3. CASE ~(made # Empty /\ i.cursor.kind \in {NoKind, made.kind} /\ ~(total > StackSize[made.kind]))
  BY <1>3 DEF PickupResult
<1> QED BY <1>2, <1>3

\* A slot written, then the cursor.
LEMMA PutHoldWrites ==
  ASSUME NEW i \in Inventory, NEW s \in Inside, NEW h \in Sized, NEW c \in Sized
  PROVE  Writes(i, Hold(Put(i, s, h), c), Inside)
<1>1. Writes(i, Put(i, s, h), Inside)
  BY PutWrites, InsideFacts
<1>2. Put(i, s, h) \in Inventory
  BY <1>1 DEF Writes
<1>3. Writes(Put(i, s, h), Hold(Put(i, s, h), c), Inside)
  BY <1>2, HoldWrites
<1> QED BY <1>1, <1>3, WritesOn

LEMMA HalfIs ==
  ASSUME NEW n \in Nat, n > 0
  PROVE  (n + 1) \div 2 \in Nat /\ (n + 1) \div 2 > 0 /\ (n + 1) \div 2 <= n
OBVIOUS

LEMMA TakeWrites ==
  ASSUME NEW i \in Inventory, NEW s \in Inside, NEW n \in Nat, i.slots[s] # Empty,
         n > 0, n <= i.slots[s].count
  PROVE  Writes(i, Take(i, s, n), Inside)
<1> DEFINE there == i.slots[s]
<1>1. there \in Sized
  BY InventoryIs, InsideFacts
<1>2. there.count \in Nat /\ there.count <= StackSize[there.kind] /\ StackSize[there.kind] \in Nat
  BY <1>1, SizedFacts
<1>3. n <= StackSize[there.kind]
  BY <1>2
<1>4. Less(there, n) \in Sized /\ [there EXCEPT !.count = n] \in Sized
  BY <1>1, <1>3, LessSized, Recounted
<1>5. Writes(i, Hold(Put(i, s, Less(there, n)), [there EXCEPT !.count = n]), Inside)
  BY <1>4, PutHoldWrites
<1> QED BY <1>5 DEF Take

\* A plain click on a slot that may be written (pickup_left, pickup_right).
LEMMA PickupSlotWrites ==
  ASSUME NEW i \in Inventory, NEW s \in Inside, NEW button
  PROVE  Writes(i, PickupSlot(i, s, button), Inside)
<1> DEFINE held == i.cursor
           there == i.slots[s]
           wanted == IF button = 0 THEN held.count ELSE 1
           room == Room(i, s, held.kind)
           moved == Lower(wanted, room)
<1>1. held \in Sized /\ there \in Sized
  BY InventoryIs, InsideFacts
<1>2. CASE held = Empty
  <2>1. CASE there = Empty
    BY <1>2, <2>1, WritesNothing DEF PickupSlot
  <2>2. CASE there # Empty
    <3>1. there.count \in Nat /\ there.count > 0
      BY <1>1, <2>2, SizedFacts
    <3>2. PICK n : n = IF button = 0 THEN there.count ELSE (there.count + 1) \div 2
      OBVIOUS
    <3>3. n \in Nat /\ n > 0 /\ n <= there.count
      BY <3>1, <3>2, HalfIs
    <3>4. Writes(i, Take(i, s, n), Inside)
      BY <2>2, <3>3, TakeWrites
    <3> QED BY <1>2, <2>2, <3>2, <3>4 DEF PickupSlot
  <2> QED BY <2>1, <2>2
<1>3. CASE held # Empty /\ Joins(i, s, held.kind)
  <2>1. held.kind \in Kinds /\ held.count \in Nat /\ held.count > 0 /\ there.count \in Nat
    BY <1>1, <1>3, SizedFacts
  <2>2. PICK limit : limit = SlotLimit(s, held.kind)
    OBVIOUS
  <2>3. limit \in Nat /\ limit <= StackSize[held.kind] /\ StackSize[held.kind] \in Nat
    BY <2>1, <2>2, LimitFacts, SizedFacts
  <2>4. room = limit - there.count /\ room > 0
    BY <1>3, <2>2 DEF Room, Joins
  <2>5. room \in Int /\ wanted \in Int /\ wanted > 0
    BY <2>1, <2>3, <2>4
  <2> HIDE DEF room, wanted, held, there
  <2>6. moved \in {wanted, room} /\ moved <= room /\ moved \in Int
    BY <2>5, LowerIs
  <2> HIDE DEF moved
  <2>7. PICK n : n = there.count + moved
    OBVIOUS
  <2>8. moved \in Nat /\ n \in Nat /\ n > 0 /\ n <= StackSize[held.kind]
    BY <2>1, <2>3, <2>4, <2>5, <2>6, <2>7
  <2>9. [held EXCEPT !.count = n] \in Sized /\ Less(held, moved) \in Sized
    BY <1>1, <1>3, <2>8, Recounted, LessSized
  <2>10. Writes(i, Hold(Put(i, s, [held EXCEPT !.count = n]), Less(held, moved)), Inside)
    BY <2>9, PutHoldWrites
  <2>11. PickupSlot(i, s, button) = Hold(Put(i, s, [held EXCEPT !.count = n]), Less(held, moved))
    BY <1>3, <2>7 DEF PickupSlot, held, there, moved, wanted, room
  <2> QED BY <2>10, <2>11
<1>4. CASE held # Empty /\ ~Joins(i, s, held.kind)
  <2>1. Writes(i, Hold(Put(i, s, held), there), Inside)
    BY <1>1, PutHoldWrites
  <2> QED BY <1>4, <2>1, WritesNothing DEF PickupSlot
<1> QED BY <1>2, <1>3, <1>4

\* What is written in slots that show no result is a click's whole effect.
LEMMA WritesAfter ==
  ASSUME NEW i \in Showing({}, Benches), NEW j, Writes(i, j, Inside)
  PROVE  j \in Showing({}, Benches)
BY InsideShows

\* A plain click (pickup).
LEMMA PickupShows ==
  ASSUME NEW i \in Showing({}, Benches), NEW w \in Windows, NEW button,
         NEW s \in Range(WindowSlots[w]) \cup {"outside"}
  PROVE  Pickup(i, w, s, button) \in Showing({}, Benches)
<1>0. i \in Inventory
  BY DEF Showing
<1>1. CASE s = "outside"
  <2>1. PickupOutside(i, button) \in Showing({}, Benches)
    BY <1>0, PickupOutsideWrites, WritesAfter
  <2> QED BY <1>1, <2>1 DEF Pickup
<1>2. CASE s # "outside" /\ s = Output[w]
  <2>1. w \in Benches
    BY <1>2, WindowFacts
  <2>2. PickupResult(i, w) \in Showing({}, Benches)
    BY <2>1, PickupResultShows
  <2> QED BY <1>2, <2>2 DEF Pickup
<1>3. CASE s # "outside" /\ s # Output[w]
  <2>1. s \in Inside
    BY <1>3, WindowFacts
  <2>2. PickupSlot(i, s, button) \in Showing({}, Benches)
    BY <1>0, <2>1, PickupSlotWrites, WritesAfter
  <2> QED BY <1>3, <2>2 DEF Pickup
<1> QED BY <1>1, <1>2, <1>3
\* The passes of a shifted click are a number: some kind has the largest stack.
LEMMA LargestStackIs ==
  LargestStack \in Nat
<1>1. PICK sizes : sizes = Range(StackSize)
  OBVIOUS
<1>2. sizes \subseteq Nat /\ sizes # {}
  <2>1. PICK k \in Kinds : TRUE
    BY InventoryAssumption
  <2>2. DOMAIN StackSize = Kinds /\ \A j \in Kinds : StackSize[j] \in Nat
    BY StacksAssumption
  <2> QED BY <1>1, <2>1, <2>2 DEF Range
<1>3. \E n \in Nat : \E order \in [1..n -> Kinds] : Kinds = {order[j] : j \in 1..n}
  <2>1. Cardinality(Kinds) \in Nat
    BY InventoryAssumption, FS_CardinalityType
  <2>2. ExistsBijection(1..Cardinality(Kinds), Kinds)
    BY InventoryAssumption, FS_CardinalityType
  <2>3. PICK f \in [1..Cardinality(Kinds) -> Kinds] : \A k \in Kinds : \E j \in 1..Cardinality(Kinds) : f[j] = k
    BY <2>2 DEF ExistsBijection, Bijection, Surjection, Injection
  <2>4. Kinds = {f[j] : j \in 1..Cardinality(Kinds)}
    BY <2>3
  <2> QED BY <2>1, <2>3, <2>4
<1>13. PICK n \in Nat : \E order \in [1..n -> Kinds] : Kinds = {order[j] : j \in 1..n}
  BY <1>3
<1>14. PICK order \in [1..n -> Kinds] : Kinds = {order[j] : j \in 1..n}
  BY <1>13
<1>4. PICK P : P = [m \in 0..n |-> {a \in sizes : \A j \in 1..m : StackSize[order[j]] <= a}]
  OBVIOUS
<1>5. PICK step : step = [u \in sizes \X (1..n) |-> IF u[1] < StackSize[order[u[2]]] THEN StackSize[order[u[2]]] ELSE u[1]]
  OBVIOUS
<1>6. ASSUME NEW m \in 1..n, NEW a \in P[m - 1] PROVE step[<<a, m>>] \in P[m]
  <2>1. m \in 0..n /\ m - 1 \in 0..n /\ order[m] \in Kinds
    BY <1>14
  <2>2. a \in sizes /\ a \in Nat /\ \A j \in 1..m - 1 : StackSize[order[j]] <= a
    BY <1>2, <1>4, <1>6, <2>1
  <2>3. PICK b : b = StackSize[order[m]]
    OBVIOUS
  <2>4. b \in sizes /\ b \in Nat
    BY <1>1, <1>2, <2>1, <2>3, StacksAssumption DEF Range
  <2>5. step[<<a, m>>] = IF a < b THEN b ELSE a
    BY <1>5, <2>2, <2>3
  <2>6. \A j \in 1..m : j = m \/ j \in 1..m - 1
    OBVIOUS
  <2>7. \A j \in 1..m - 1 : StackSize[order[j]] \in Nat
    <3>1. \A j \in 1..m - 1 : j \in 1..n
      BY <1>13
    <3>2. \A j \in 1..n : StackSize[order[j]] \in Nat
      BY <1>14, StacksAssumption
    <3> QED BY <3>1, <3>2
  <2>8. \A j \in 1..m : StackSize[order[j]] <= step[<<a, m>>]
    BY <2>2, <2>3, <2>4, <2>5, <2>6, <2>7
  <2>9. step[<<a, m>>] \in sizes
    BY <2>2, <2>4, <2>5
  <2> QED BY <1>4, <2>1, <2>8, <2>9
<1>7. PICK first \in sizes : TRUE
  BY <1>2
<1>8. first \in P[0]
  BY <1>4, <1>7
<1>9. PICK f : Stays(f, n, P)
  BY <1>6, <1>8, LoopLeads
<1>10. f[n] \in P[n]
  BY <1>9 DEF Stays
<1>11. f[n] \in sizes /\ \A j \in 1..n : StackSize[order[j]] <= f[n]
  BY <1>4, <1>10
<1>12. \A m \in sizes : m <= f[n]
  <2>1. \A m \in sizes : \E j \in 1..n : m = StackSize[order[j]]
    BY <1>1, <1>14, StacksAssumption DEF Range
  <2> QED BY <1>11, <2>1
<1>15. LargestStack \in sizes
  BY <1>1, <1>11, <1>12 DEF LargestStack
<1> QED BY <1>2, <1>15

LEMMA BackwardsIs ==
  ASSUME NEW S, NEW run \in Seq(S)
  PROVE  Backwards(run) \in Seq(S) /\ Range(Backwards(run)) \subseteq Range(run)
<1>1. Len(run) \in Nat /\ DOMAIN run = 1..Len(run)
  OBVIOUS
<1>2. \A n \in 1..Len(run) : Len(run) + 1 - n \in 1..Len(run)
  BY <1>1
<1>3. \A n \in 1..Len(run) : run[Len(run) + 1 - n] \in S
  BY <1>2
<1>4. Backwards(run) = [n \in 1..Len(run) |-> run[Len(run) + 1 - n]]
  BY <1>1 DEF Backwards
<1> QED BY <1>1, <1>2, <1>3, <1>4 DEF Range

\* A shifted click on a result, once (quick_move_result).
LEMMA QuickMoveResultShows ==
  ASSUME NEW i \in Showing({}, Benches), NEW w \in Benches
  PROVE  QuickMoveResultOnce(i, w) \in Showing({}, Benches)
<1>1. PICK made : made = i.slots[Output[w]]
  OBVIOUS
<1>2. i \in Inventory /\ made \in Sized
  BY <1>1, BenchFacts, InventoryIs DEF Showing
<1>3. Backwards(Carried) \in Seq(Storage) /\ Range(Backwards(Carried)) \subseteq Pocket
  BY CarriedFacts, BackwardsIs
<1>4. MoveInto(i, made, Backwards(Carried)) \in Moving(i, Pocket)
  BY <1>2, <1>3, CarriedFacts, MoveIntoMoves
<1>5. Writes(i, MoveInto(i, made, Backwards(Carried)).inv, Pocket)
  BY <1>4 DEF Moving
<1>6. Writes(i, MoveInto(i, made, Backwards(Carried)).inv, Inside)
  BY <1>5, WritesMore, InsideFacts
<1>7. TakeResult(MoveInto(i, made, Backwards(Carried)).inv, w) \in Showing({}, Benches)
  BY <1>6, TakeAfter
<1> QED BY <1>1, <1>7 DEF QuickMoveResultOnce

\* Runs of slots for writing in.
Open1(run) == run \in Seq(Storage) /\ Range(run) \subseteq Inside
Opens(runs) == Len(runs) \in Nat /\ \A n \in 1..Len(runs) : Open1(runs[n])

LEMMA OneRun ==
  ASSUME NEW a, Open1(a), NEW runs, runs = <<a>>
  PROVE  Opens(runs)
<1>1. Len(runs) = 1 /\ runs[1] = a
  OBVIOUS
<1> QED BY <1>1 DEF Opens

LEMMA TwoRuns ==
  ASSUME NEW a, Open1(a), NEW b, Open1(b), NEW runs, runs = <<a, b>>
  PROVE  Opens(runs)
<1>1. Len(runs) = 2 /\ runs[1] = a /\ runs[2] = b
  OBVIOUS
<1> QED BY <1>1 DEF Opens

LEMMA OneSlot ==
  ASSUME NEW s \in Inside, NEW run, run = <<s>>
  PROVE  Open1(run)
<1>1. s \in Storage
  BY InsideFacts
<1>2. DOMAIN run = 1..1 /\ run[1] = s /\ run \in Seq(Storage)
  BY <1>1
<1> QED BY <1>2 DEF Open1, Range

LEMMA RunsOpen ==
  /\ Open1(Main) /\ Open1(Hotbar) /\ Open1(Carried) /\ Open1(TableGrid) /\ Open1(Smith)
  /\ \A w \in Benches : Open1(Cells[w])
<1>1. \A w \in Benches : Open1(Cells[w])
  BY BenchFacts, InsideFacts DEF Open1
<1>2. Open1(TableGrid) /\ Open1(Smith)
  BY <1>1, CellSlots DEF Benches
<1>3. Open1(Main) /\ Open1(Hotbar) /\ Open1(Carried)
  BY CarriedFacts, InsideFacts DEF Open1
<1> QED BY <1>1, <1>2, <1>3

\* A shifted click never moves into a result (quick_move_destination).
LEMMA DestinationsOpen ==
  ASSUME NEW i, NEW w \in Windows, NEW slot, i.slots[slot].kind \in Kinds
  PROVE  Opens(Destinations(i, w, slot))
<1>1. PICK kind : kind = i.slots[slot].kind
  OBVIOUS
<1>2. PICK runs : runs = Destinations(i, w, slot)
  OBVIOUS
<1>3. PICK away : away = AcrossFrom(slot)
  OBVIOUS
<1>4. Open1(away)
  BY <1>3, RunsOpen DEF AcrossFrom
<1>5. CASE w = "player" \/ slot \notin Range(Carried)
  <2>1. Worn[kind] # NoSlot => Worn[kind] \in Inside
    BY <1>1, InventoryAssumption, InsideFacts
  <2>2. PICK worn : worn = <<Worn[kind]>>
    OBVIOUS
  <2>3. Worn[kind] # NoSlot => Open1(worn)
    BY <2>1, <2>2, OneSlot
  <2>4. runs = <<Carried>> \/ runs = <<away>> \/ (Worn[kind] # NoSlot /\ runs = <<worn>>)
    BY <1>1, <1>2, <1>3, <1>5, <2>2 DEF Destinations
  <2> QED BY <1>2, <1>4, <2>3, <2>4, OneRun, RunsOpen
<1>6. CASE w = "table" /\ slot \in Range(Carried)
  <2>1. runs = <<TableGrid, away>>
    BY <1>2, <1>3, <1>6 DEF Destinations
  <2> QED BY <1>2, <1>4, <2>1, TwoRuns, RunsOpen
<1>7. CASE w = "furnace" /\ slot \in Range(Carried)
  <2>1. PICK a, b : a = <<"furnace_input">> /\ b = <<"furnace_fuel">>
    OBVIOUS
  <2>2. Open1(a) /\ Open1(b)
    <3>1. "furnace_input" \in Inside /\ "furnace_fuel" \in Inside
      BY InsideFacts DEF Fuels
    <3> QED BY <2>1, <3>1, OneSlot
  <2>3. runs = <<a>> \/ runs = <<b>> \/ runs = <<away>>
    BY <1>2, <1>3, <1>7, <2>1 DEF Destinations
  <2> QED BY <1>2, <1>4, <2>2, <2>3, OneRun
<1>8. CASE w = "stonecutter" /\ slot \in Range(Carried)
  <2>1. PICK a : a = Cells["stonecutter"]
    OBVIOUS
  <2>2. Open1(a)
    BY <2>1, RunsOpen DEF Benches
  <2>3. runs = <<a>> \/ runs = <<away>>
    BY <1>2, <1>3, <1>8, <2>1 DEF Destinations
  <2> QED BY <1>2, <1>4, <2>2, <2>3, OneRun
<1>9. CASE w = "smithing" /\ slot \in Range(Carried)
  <2>1. PICK fits : fits = {s \in Range(Smith) : MayPlace(s, kind)}
    OBVIOUS
  <2>2. PICK a : a = SubSeq(Smith, FirstOf(Smith, fits), Len(Smith))
    OBVIOUS
  <2>3. (fits # {} /\ runs = <<a>>) \/ runs = <<away>>
    BY <1>1, <1>2, <1>3, <1>9, <2>1, <2>2 DEF Destinations
  <2>4. fits # {} => Open1(a)
    <3>1. SUFFICES ASSUME fits # {} PROVE Open1(a)
      OBVIOUS
    <3>2. PICK run : run = Smith
      OBVIOUS
    <3>3. run \in Seq(Storage) /\ Range(run) \subseteq Inside /\ Range(run) \cap fits # {}
      BY <2>1, <3>1, <3>2, RunsOpen DEF Open1
    <3>4. PICK m : m = FirstOf(run, fits)
      OBVIOUS
    <3>5. m \in 1..Len(run) /\ Len(run) \in Nat
      <4>1. m \in DOMAIN run
        BY <3>3, <3>4, FirstIs
      <4> QED BY <3>3, <4>1
    <3>6. a = SubSeq(run, m, Len(run))
      BY <2>2, <3>2, <3>4
    <3>7. a = [n \in 1..(1 + Len(run) - m) |-> run[n + m - 1]]
      BY <3>6, <3>5, <3>3
    <3>8. \A n \in 1..(1 + Len(run) - m) : n + m - 1 \in 1..Len(run)
      BY <3>5
    <3>9. \A n \in 1..(1 + Len(run) - m) : run[n + m - 1] \in Storage /\ run[n + m - 1] \in Range(run)
      BY <3>3, <3>8, RunFacts
    <3>10. 1 + Len(run) - m \in Nat
      BY <3>5
    <3>11. a \in Seq(Storage) /\ DOMAIN a = 1..(1 + Len(run) - m)
      BY <3>7, <3>9, <3>10
    <3>12. Range(a) \subseteq Range(run)
      BY <3>7, <3>9, <3>11 DEF Range
    <3> QED BY <3>3, <3>11, <3>12 DEF Open1
  <2> QED BY <1>2, <1>4, <2>3, <2>4, OneRun
<1>10. w \in {"player", "table", "furnace", "stonecutter", "smithing"}
  BY SlotFacts DEF Benches
<1> QED BY <1>5, <1>6, <1>7, <1>8, <1>9, <1>10

\* A stack sent from its slot through its destinations (quick_move).
LEMMA SentMoves ==
  ASSUME NEW i \in Inventory, NEW w \in Windows, NEW slot \in Inside, i.slots[slot] # Empty,
         NEW lifted, lifted = [i EXCEPT !.slots[slot] = Empty]
  PROVE  Sent(i, w, slot) \in Moving(lifted, Inside)
<1>1. PICK stack : stack = i.slots[slot]
  OBVIOUS
<1>2. stack \in Sized /\ stack.kind \in Kinds
  BY <1>1, InventoryIs, InsideFacts, SizedFacts
<1>3. PICK runs : runs = Destinations(i, w, slot)
  OBVIOUS
<1>4. Opens(runs)
  BY <1>1, <1>2, <1>3, DestinationsOpen
<1>5. lifted \in Inventory
  BY LiftFacts, InsideFacts
<1>6. PICK P : P = [n \in 0..Len(runs) |-> Moving(lifted, Inside)]
  OBVIOUS
<1>7. Len(runs) \in Nat
  BY <1>4 DEF Opens
<1>8. [inv |-> lifted, left |-> stack] \in P[0]
  BY <1>2, <1>5, <1>6, <1>7, StartMoves
<1>9. ASSUME NEW n \in 1..Len(runs), NEW a \in P[n - 1] PROVE TryOne(a, runs[n], stack) \in P[n]
  <2>1. n \in 0..Len(runs) /\ n - 1 \in 0..Len(runs)
    BY <1>7
  <2>2. a \in Moving(lifted, Inside)
    BY <1>6, <1>9, <2>1
  <2>3. a.inv \in Inventory /\ Writes(lifted, a.inv, Inside)
    BY <2>2 DEF Moving
  <2>4. runs[n] \in Seq(Storage) /\ Range(runs[n]) \subseteq Inside
    BY <1>4 DEF Opens, Open1
  <2>5. PICK b : b = MoveInto(a.inv, stack, runs[n])
    OBVIOUS
  <2>6. b \in Moving(a.inv, Inside)
    BY <1>2, <2>3, <2>4, <2>5, MoveIntoMoves, InsideFacts
  <2>7. Writes(lifted, b.inv, Inside)
    BY <2>3, <2>6, WritesOn DEF Moving
  <2>8. b \in Moving(lifted, Inside)
    BY <2>6, <2>7 DEF Moving
  <2>9. TryOne(a, runs[n], stack) \in Moving(lifted, Inside)
    BY <2>2, <2>5, <2>8 DEF TryOne
  <2> QED BY <1>6, <2>1, <2>9
<1>10. TryLeads(runs, P, stack)
  BY <1>9 DEF TryLeads
<1>11. TryEnd([inv |-> lifted, left |-> stack], runs, stack) \in P[Len(runs)]
  BY <1>7, <1>8, <1>10, TryLoop
<1>12. TryEnd([inv |-> lifted, left |-> stack], runs, stack) \in Moving(lifted, Inside)
  BY <1>6, <1>7, <1>11
<1> QED BY <1>1, <1>3, <1>12, SentIs

LEMMA QuickMoveOnceWrites ==
  ASSUME NEW i \in Inventory, NEW w \in Windows, NEW slot \in Inside
  PROVE  Writes(i, QuickMoveOnce(i, w, slot), Inside)
<1>1. CASE i.slots[slot] = Empty \/ Sent(i, w, slot).left = i.slots[slot]
  BY <1>1, WritesNothing DEF QuickMoveOnce
<1>2. CASE i.slots[slot] # Empty /\ Sent(i, w, slot).left # i.slots[slot]
  <2>1. PICK lifted : lifted = [i EXCEPT !.slots[slot] = Empty]
    OBVIOUS
  <2>2. PICK end : end = Sent(i, w, slot)
    OBVIOUS
  <2>3. end \in Moving(lifted, Inside)
    BY <1>2, <2>1, <2>2, SentMoves
  <2>4. end.inv \in Inventory /\ end.left \in Sized /\ Writes(lifted, end.inv, Inside)
    BY <2>3 DEF Moving
  <2>5. slot \in Storage
    BY InsideFacts
  <2>6. OthersSame(i, lifted, slot) /\ SameRest(i, lifted) /\ lifted.changed = i.changed
    BY <2>1, <2>5, LiftFacts
  <2>7. PICK j : j = Put(end.inv, slot, end.left)
    OBVIOUS
  <2>8. j \in Inventory /\ OthersSame(end.inv, j, slot) /\ SameRest(end.inv, j)
        /\ j.changed = end.inv.changed \cup {slot}
    BY <2>4, <2>5, <2>7, PutFacts
  <2>9. SameRest(i, j) /\ i.changed \subseteq j.changed
    BY <2>4, <2>6, <2>8 DEF SameRest, Writes
  <2>10. ASSUME NEW s \in Storage PROVE j.slots[s] = i.slots[s] \/ (s \in Inside /\ s \in j.changed)
    BY <2>4, <2>6, <2>8 DEF Writes, OthersSame
  <2>11. Writes(i, j, Inside)
    BY <2>8, <2>9, <2>10 DEF Writes
  <2> QED BY <1>2, <2>2, <2>7, <2>11 DEF QuickMoveOnce
<1> QED BY <1>1, <1>2

\* A shifted click (quick_move).
LEMMA QuickMoveShows ==
  ASSUME NEW i \in Showing({}, Benches), NEW w \in Windows, NEW s \in Range(WindowSlots[w])
  PROVE  QuickMove(i, w, s) \in Showing({}, Benches)
<1>1. PICK run : run = [n \in 1..LargestStack |-> n]
  OBVIOUS
<1>2. Len(run) = LargestStack /\ Len(run) \in Nat
  BY <1>1, LargestStackIs
<1>3. PICK P : P = [n \in 0..Len(run) |-> Showing({}, Benches)]
  OBVIOUS
<1>4. P[0] = Showing({}, Benches) /\ P[Len(run)] = Showing({}, Benches)
  BY <1>2, <1>3
<1>5. ASSUME NEW n \in 1..Len(run), NEW a \in P[n - 1] PROVE TurnOne(a, w, s) \in P[n]
  <2>1. n \in 0..Len(run) /\ n - 1 \in 0..Len(run)
    BY <1>2
  <2>2. a \in Showing({}, Benches) /\ P[n] = Showing({}, Benches)
    BY <1>3, <1>5, <2>1
  <2>3. a \in Inventory
    BY <2>2 DEF Showing
  <2>4. CASE s = Output[w]
    <3>1. w \in Benches
      BY <2>4, WindowFacts
    <3>2. QuickMoveResultOnce(a, w) \in Showing({}, Benches)
      BY <2>2, <3>1, QuickMoveResultShows
    <3> QED BY <2>2, <2>4, <3>2 DEF TurnOne
  <2>5. CASE s # Output[w]
    <3>1. s \in Inside
      BY <2>5, WindowFacts
    <3>2. QuickMoveOnce(a, w, s) \in Showing({}, Benches)
      BY <2>2, <2>3, <3>1, QuickMoveOnceWrites, WritesAfter
    <3> QED BY <2>2, <2>5, <3>2 DEF TurnOne
  <2> QED BY <2>4, <2>5
<1>6. TurnLeads(run, P, w, s)
  BY <1>5 DEF TurnLeads
<1>7. TurnEnd(i, run, w, s) \in P[Len(run)]
  BY <1>2, <1>4, <1>6, TurnLoop
<1> QED BY <1>1, <1>4, <1>7, QuickMoveIs
\* Two slots written.
LEMMA PutPutWrites ==
  ASSUME NEW i \in Inventory, NEW s \in Inside, NEW h \in Sized, NEW t \in Inside, NEW g \in Sized
  PROVE  Writes(i, Put(Put(i, s, h), t, g), Inside)
<1>1. Writes(i, Put(i, s, h), Inside)
  BY PutWrites, InsideFacts
<1>2. Put(i, s, h) \in Inventory
  BY <1>1 DEF Writes
<1>3. Writes(Put(i, s, h), Put(Put(i, s, h), t, g), Inside)
  BY <1>2, PutWrites, InsideFacts
<1> QED BY <1>1, <1>3, WritesOn

\* A number key or the key of the other hand (swap).
LEMMA SwapShows ==
  ASSUME NEW i \in Showing({}, Benches), NEW w \in Windows, NEW s \in Range(WindowSlots[w]),
         NEW other \in Pocket
  PROVE  Swap(i, w, s, other) \in Showing({}, Benches)
<1>1. PICK there, coming : there = i.slots[s] /\ coming = i.slots[other]
  OBVIOUS
<1>2. i \in Inventory /\ s \in Storage /\ other \in Inside
  BY WindowFacts, InsideFacts DEF Showing
<1>3. there \in Sized /\ coming \in Sized /\ Empty \in Sized
  BY <1>1, <1>2, InventoryIs, SizedFacts, InsideFacts
<1>4. CASE s = Output[w]
  <2>1. w \in Benches
    BY <1>4, WindowFacts
  <2>2. Writes(i, Put(i, other, there), Inside)
    BY <1>2, <1>3, PutWrites, InsideFacts
  <2>3. TakeResult(Put(i, other, there), w) \in Showing({}, Benches)
    BY <2>1, <2>2, TakeAfter
  <2> QED BY <1>1, <1>4, <2>3 DEF Swap
<1>5. CASE s # Output[w]
  <2>0. s \in Inside
    BY <1>5, WindowFacts
  <2>1. CASE other = s \/ (coming = Empty /\ there = Empty)
    BY <1>1, <1>5, <2>1 DEF Swap
  <2>2. CASE other # s /\ coming = Empty /\ there # Empty
    <3>1. Writes(i, Put(Put(i, other, there), s, Empty), Inside)
      BY <1>2, <1>3, <2>0, PutPutWrites
    <3>2. Swap(i, w, s, other) = Put(Put(i, other, there), s, Empty)
      BY <1>1, <1>5, <2>2 DEF Swap
    <3> QED BY <3>1, <3>2, WritesAfter
  <2>3. CASE other # s /\ coming # Empty
    <3>1. PICK limit : limit = SlotLimit(s, coming.kind)
      OBVIOUS
    <3>2. coming.kind \in Kinds /\ limit \in Nat /\ limit > 0 /\ limit <= StackSize[coming.kind]
      <4>1. coming.kind \in Kinds
        BY <1>3, <2>3, SizedFacts
      <4> QED BY <3>1, <4>1, LimitFacts
    <3>3. PICK h, l : h = [coming EXCEPT !.count = limit] /\ l = Less(coming, limit)
      OBVIOUS
    <3>4. h \in Sized /\ l \in Sized
      BY <1>3, <2>3, <3>2, <3>3, Recounted, LessSized
    <3>5. PICK split : split = Put(Put(i, s, h), other, l)
      OBVIOUS
    <3>6. Writes(i, split, Inside)
      BY <1>2, <2>0, <3>4, <3>5, PutPutWrites
    <3>7. Writes(i, Give(split, there), Inside)
      <4>1. split \in Inventory
        BY <3>6 DEF Writes
      <4>2. Writes(split, Give(split, there), Pocket)
        BY <1>3, <4>1, PlaceMoves
      <4>3. Writes(split, Give(split, there), Inside)
        BY <4>2, WritesMore, InsideFacts
      <4> QED BY <3>6, <4>3, WritesOn
    <3>8. Writes(i, Put(Put(i, s, coming), other, there), Inside)
      BY <1>2, <1>3, <2>0, PutPutWrites
    <3>9. Swap(i, w, s, other) \in {i, split, Give(split, there), Put(Put(i, s, coming), other, there)}
      BY <1>1, <1>5, <2>3, <3>1, <3>3, <3>5 DEF Swap
    <3> QED BY <3>6, <3>7, <3>8, <3>9, WritesAfter
  <2> QED BY <2>1, <2>2, <2>3
<1> QED BY <1>4, <1>5

\* A click with the middle button, in creative mode (clone_slot).
LEMMA CloneShows ==
  ASSUME NEW i \in Showing({}, Benches), NEW s \in Storage
  PROVE  CloneSlot(i, s) \in Showing({}, Benches)
<1>1. PICK there : there = i.slots[s]
  OBVIOUS
<1>2. i \in Inventory /\ there \in Sized
  BY <1>1, InventoryIs DEF Showing
<1>3. CASE ~Writable(s) \/ i.cursor # Empty \/ there = Empty
  BY <1>1, <1>3 DEF CloneSlot
<1>4. CASE ~(~Writable(s) \/ i.cursor # Empty \/ there = Empty)
  <2>1. PICK n : n = StackSize[there.kind]
    OBVIOUS
  <2>2. n \in Nat /\ n > 0 /\ n <= StackSize[there.kind]
    <3>1. there.kind \in Kinds
      BY <1>2, <1>4, SizedFacts
    <3> QED BY <2>1, <3>1, SizedFacts
  <2>3. [there EXCEPT !.count = n] \in Sized
    BY <1>2, <1>4, <2>2, Recounted
  <2>4. Writes(i, Hold(i, [there EXCEPT !.count = n]), Inside)
    BY <1>2, <2>3, HoldWrites
  <2>5. CloneSlot(i, s) = Hold(i, [there EXCEPT !.count = n])
    BY <1>1, <1>4, <2>1 DEF CloneSlot
  <2> QED BY <2>4, <2>5, WritesAfter
<1> QED BY <1>3, <1>4

\* A stack or one item of it thrown (throw).
LEMMA ThrowShows ==
  ASSUME NEW i \in Showing({}, Benches), NEW w \in Windows, NEW s \in Range(WindowSlots[w]), NEW button
  PROVE  Throw(i, w, s, button) \in Showing({}, Benches)
<1>1. PICK there : there = i.slots[s]
  OBVIOUS
<1>2. i \in Inventory /\ s \in Storage /\ there \in Sized /\ Empty \in Sized
  BY <1>1, WindowFacts, InventoryIs, SizedFacts DEF Showing
<1>3. CASE i.cursor # Empty \/ there = Empty
  BY <1>1, <1>3 DEF Throw
<1>4. CASE ~(i.cursor # Empty \/ there = Empty) /\ s = Output[w]
  <2>1. w \in Benches
    BY <1>4, WindowFacts
  <2>2. Writes(i, Put(i, s, Empty), Inside \cup {Output[w]})
    BY <1>2, <1>4, PutWrites
  <2>3. i \in Showing({w}, Benches)
    BY ShowingMore
  <2>4. \A v \in Benches \ {w} : Output[v] \notin Inside \cup {Output[w]}
    BY <2>1, BenchFacts DEF Inside, Writable
  <2>5. Put(i, s, Empty) \in Showing({w}, Benches)
    BY <2>2, <2>3, <2>4, WritesShow
  <2>6. TakeResult(Put(i, s, Empty), w) \in Showing({w} \ {w}, Benches)
    BY <2>1, <2>5, TakeShows
  <2>7. {w} \ {w} = {}
    OBVIOUS
  <2>8. Throw(i, w, s, button) = TakeResult(Put(i, s, Empty), w)
    BY <1>1, <1>4 DEF Throw
  <2> QED BY <2>6, <2>7, <2>8
<1>5. CASE ~(i.cursor # Empty \/ there = Empty) /\ s # Output[w]
  <2>1. s \in Inside
    BY <1>5, WindowFacts
  <2>2. PICK h : h = IF button = 0 THEN Less(there, 1) ELSE Empty
    OBVIOUS
  <2>3. h \in Sized
    BY <1>2, <2>2, LessSized
  <2>4. Writes(i, Put(i, s, h), Inside)
    BY <1>2, <2>1, <2>3, PutWrites
  <2>5. Throw(i, w, s, button) = Put(i, s, h)
    BY <1>1, <1>5, <2>2 DEF Throw
  <2> QED BY <2>4, <2>5, WritesAfter
<1> QED BY <1>3, <1>4, <1>5

-----------------------------------------------------------------------------
(***************************************************************************)
(* The drags.                                                              *)
(***************************************************************************)
\* The drag changed and nothing else.
LEMMA DragChanged ==
  ASSUME NEW X, NEW C, NEW i \in Showing(X, C), NEW d \in [on : BOOLEAN, kind : 0..2, over : SUBSET Inside],
         NEW j, j = [i EXCEPT !.drag = d]
  PROVE  j \in Showing(X, C)
<1>1. i \in Inventory
  BY DEF Showing
<1>2. j \in Inventory /\ j.slots = i.slots /\ j.choice = i.choice /\ j.changed = i.changed
  BY ONLY <1>1, InventoryIs, j = [i EXCEPT !.drag = d],
          d \in [on : BOOLEAN, kind : 0..2, over : SUBSET Inside]
<1>3. \A w \in Benches \ X : SameMaking(i, j, w) /\ j.slots[Output[w]] = i.slots[Output[w]]
  BY <1>2 DEF SameMaking
<1>4. i.changed \subseteq j.changed
  BY <1>2
<1> QED BY <1>2, <1>3, <1>4, ShowingSame

LEMMA NoDragIs ==
  NoDrag \in [on : BOOLEAN, kind : 0..2, over : SUBSET Inside]
BY DEF NoDrag

\* A drag begins, goes over a slot and ends (quick_craft).
LEMMA DragStartShows ==
  ASSUME NEW i \in Showing({}, Benches), NEW kind \in 0..2
  PROVE  DragStart(i, kind) \in Showing({}, Benches)
<1>1. PICK d : d = [on |-> TRUE, kind |-> kind, over |-> {}]
  OBVIOUS
<1>2. d \in [on : BOOLEAN, kind : 0..2, over : SUBSET Inside]
  BY <1>1
<1>3. DragStart(i, kind) = [i EXCEPT !.drag = d]
  BY <1>1 DEF DragStart
<1> QED BY <1>2, <1>3, DragChanged

LEMMA DragOverShows ==
  ASSUME NEW i \in Showing({}, Benches), NEW s \in Storage, NEW kind
  PROVE  DragOver(i, s, kind) \in Showing({}, Benches)
<1>1. i.drag \in [on : BOOLEAN, kind : 0..2, over : SUBSET Inside] /\ i \in Inventory
  BY InventoryIs DEF Showing
<1>2. PICK d : d = [i.drag EXCEPT !.over = i.drag.over \cup {s}]
  OBVIOUS
<1>3. [i EXCEPT !.drag = NoDrag] \in Showing({}, Benches)
  BY NoDragIs, DragChanged
<1>4. CASE Writable(s)
  <2>1. s \in Inside
    BY <1>4 DEF Inside
  <2>2. d \in [on : BOOLEAN, kind : 0..2, over : SUBSET Inside]
    BY <1>1, <1>2, <2>1
  <2>3. [i EXCEPT !.drag = d] \in Showing({}, Benches)
    BY <2>2, DragChanged
  <2>4. [i EXCEPT !.drag.over = @ \cup {s}] = [i EXCEPT !.drag = d]
    BY <1>1, <1>2, InventoryIs
  <2> QED BY <1>3, <2>3, <2>4 DEF DragOver
<1>5. CASE ~Writable(s)
  BY <1>3, <1>5 DEF DragOver
<1> QED BY <1>4, <1>5

LEMMA StorageFinite ==
  IsFiniteSet(Storage)
<1>1. ASSUME NEW w \in Windows PROVE IsFiniteSet(Range(WindowSlots[w]))
  <2>1. PICK run : run = WindowSlots[w]
    OBVIOUS
  <2>2. DOMAIN run = 1..Len(run) /\ Len(run) \in Nat
    BY <2>1, SlotFacts, RunFacts
  <2>3. IsFiniteSet(1..Len(run))
    BY <2>2, FS_Interval
  <2>4. run = [n \in 1..Len(run) |-> run[n]]
    BY <2>1, <2>2, SlotFacts
  <2>5. run \in Surjection(1..Len(run), Range(run))
    BY <2>2, <2>4 DEF Surjection, Range
  <2> QED BY <2>1, <2>3, <2>5, FS_Surjection
<1>2. PICK a, b, c, d, e : a = Range(WindowSlots["player"]) /\ b = Range(WindowSlots["table"])
                           /\ c = Range(WindowSlots["stonecutter"]) /\ d = Range(WindowSlots["smithing"])
                           /\ e = Range(WindowSlots["furnace"])
  OBVIOUS
<1>3. Windows = {"player", "table", "stonecutter", "smithing", "furnace"}
  BY SlotFacts DEF Benches
<1>4. IsFiniteSet(a) /\ IsFiniteSet(b) /\ IsFiniteSet(c) /\ IsFiniteSet(d) /\ IsFiniteSet(e)
  BY <1>1, <1>2, <1>3
<1>5. Storage = a \cup b \cup c \cup d \cup e
  BY <1>2, <1>3 DEF Storage
<1> QED BY <1>4, <1>5, FS_Union

\* One slot of a drag: what is laid there comes out of what is left.
LEMMA LayMoves ==
  ASSUME NEW i \in Inventory, NEW held \in Sized, held # Empty, NEW over \in SUBSET Inside,
         NEW kind, NEW share \in Nat, NEW s,
         NEW a \in [inv : Inventory, left : 0..held.count], Writes(i, a.inv, Inside)
  PROVE  LayOne(a, s, held, over, kind, share) \in {b \in [inv : Inventory, left : 0..held.count] : Writes(i, b.inv, Inside)}
<1>1. PICK room, want : room = Room(a.inv, s, held.kind) /\ want = Lower(share, room)
  OBVIOUS
<1>2. PICK take : take = IF kind = 2 THEN want ELSE Lower(want, a.left)
  OBVIOUS
<1>3. CASE s \notin over \/ take <= 0
  <2>1. LayOne(a, s, held, over, kind, share) = a
    BY <1>1, <1>2, <1>3 DEF LayOne
  <2> QED BY <2>1
<1>4. CASE ~(s \notin over \/ take <= 0)
  <2>1. s \in Inside /\ s \in Storage
    BY <1>4, InsideFacts
  <2>2. a.inv.slots[s] \in Sized
    BY <2>1, InventoryIs
  <2>3. PICK there : there = a.inv.slots[s].count
    OBVIOUS
  <2>4. there \in Nat /\ held.count \in Nat /\ a.left \in Nat /\ a.left <= held.count /\ held.kind \in Kinds
    BY <2>2, <2>3, SizedFacts
  <2>5. PICK limit : limit = SlotLimit(s, held.kind)
    OBVIOUS
  <2>6. limit \in Nat /\ limit <= StackSize[held.kind] /\ StackSize[held.kind] \in Nat
    BY <2>4, <2>5, LimitFacts, SizedFacts
  <2>7. room = limit - there /\ room \in Int
    BY <1>1, <2>3, <2>4, <2>5, <2>6 DEF Room
  <2>8. want \in Int /\ want <= room
    BY <1>1, <2>7, LowerIs
  <2>9. take \in Int /\ take <= room /\ (kind # 2 => take <= a.left)
    <3>1. Lower(want, a.left) \in Int /\ Lower(want, a.left) <= want /\ Lower(want, a.left) <= a.left
      BY <2>4, <2>8, LowerIs
    <3> QED BY <1>2, <2>7, <2>8, <3>1
  <2>10. PICK n, l : n = there + take /\ l = IF kind = 2 THEN a.left ELSE a.left - take
    OBVIOUS
  <2>11. n \in Nat /\ n > 0 /\ n <= StackSize[held.kind] /\ l \in 0..held.count
    BY <1>4, <2>4, <2>6, <2>7, <2>9, <2>10
  <2>12. PICK h : h = [held EXCEPT !.count = n]
    OBVIOUS
  <2>13. h \in Sized
    BY <2>11, <2>12, Recounted
  <2>14. Writes(a.inv, Put(a.inv, s, h), Inside)
    BY <2>1, <2>13, PutWrites
  <2>15. Writes(i, Put(a.inv, s, h), Inside) /\ Put(a.inv, s, h) \in Inventory
    BY <2>14, WritesOn DEF Writes
  <2>16. LayOne(a, s, held, over, kind, share) = [inv |-> Put(a.inv, s, h), left |-> l]
    BY <1>1, <1>2, <1>4, <2>3, <2>10, <2>12 DEF LayOne
  <2> QED BY <2>11, <2>15, <2>16
<1> QED BY <1>3, <1>4

\* The shares of a drag are laid, and the cursor keeps what is left
\* (finish_drag).
LEMMA FinishDragWrites ==
  ASSUME NEW i \in Inventory, NEW kind \in 0..2
  PROVE  Writes(i, FinishDrag(i, kind), Inside)
<1>1. PICK held, over : held = i.cursor /\ over = i.drag.over
  OBVIOUS
<1>2. held \in Sized /\ over \in SUBSET Inside
  BY <1>1, InventoryIs
<1>3. CASE held = Empty \/ over = {}
  BY <1>1, <1>3, WritesNothing DEF FinishDrag
<1>4. CASE held # Empty /\ over # {}
  <2>1. PICK share : share = Share(held, over, kind)
    OBVIOUS
  <2>2. held.kind \in Kinds /\ held.count \in Nat /\ held.count > 0
    BY <1>2, <1>4, SizedFacts
  <2>3. share \in Nat
    <3>1. IsFiniteSet(over)
      BY <1>2, StorageFinite, InsideFacts, FS_Subset
    <3>2. PICK n : n = Cardinality(over)
      OBVIOUS
    <3>3. n \in Nat /\ n # 0
      BY <1>4, <3>1, <3>2, FS_CardinalityType, FS_EmptySet
    <3>4. held.count \div n \in Nat
      BY <2>2, <3>3
    <3>5. StackSize[held.kind] \in Nat
      BY <2>2, SizedFacts
    <3> QED BY <2>1, <3>2, <3>4, <3>5 DEF Share
  <2>4. PICK run : run = Owned
    OBVIOUS
  <2>5. Len(run) \in Nat
    <3>1. run \in Seq(Storage)
      BY <2>4, SlotFacts DEF Owned, Benches
    <3> QED BY <3>1
  <2>6. PICK U : U = {b \in [inv : Inventory, left : 0..held.count] : Writes(i, b.inv, Inside)}
    OBVIOUS
  <2>7. PICK P : P = [n \in 0..Len(run) |-> U]
    OBVIOUS
  <2>8. [inv |-> i, left |-> held.count] \in P[0]
    <3>1. held.count \in 0..held.count /\ Writes(i, i, Inside)
      BY <2>2, WritesNothing
    <3>2. [inv |-> i, left |-> held.count] \in U
      BY <2>6, <3>1
    <3> QED BY <2>5, <2>7, <3>2
  <2>9. ASSUME NEW n \in 1..Len(run), NEW a \in P[n - 1]
        PROVE  LayOne(a, run[n], held, over, kind, share) \in P[n]
    <3>1. n \in 0..Len(run) /\ n - 1 \in 0..Len(run)
      BY <2>5
    <3>2. a \in U /\ P[n] = U
      BY <2>7, <2>9, <3>1
    <3>3. a \in [inv : Inventory, left : 0..held.count] /\ Writes(i, a.inv, Inside)
      BY <2>6, <3>2
    <3>4. LayOne(a, run[n], held, over, kind, share) \in U
      BY <1>2, <1>4, <2>3, <2>6, <3>3, LayMoves
    <3> QED BY <3>2, <3>4
  <2>10. LayLeads(run, P, held, over, kind, share)
    BY <2>9 DEF LayLeads
  <2>11. PICK end : end = LayEnd([inv |-> i, left |-> held.count], run, held, over, kind, share)
    OBVIOUS
  <2>12. end \in P[Len(run)]
    BY <2>5, <2>8, <2>10, <2>11, LayLoop
  <2>13. end.left \in 0..held.count /\ Writes(i, end.inv, Inside)
    BY <2>5, <2>6, <2>7, <2>12
  <2>14. FinishDrag(i, kind) \in {end.inv, Hold(end.inv, Less(held, held.count - end.left))}
    <3>1. end = Dragged(i, kind)
      BY <1>1, <2>1, <2>4, <2>11 DEF Dragged
    <3> QED BY <1>1, <1>4, <3>1, FinishDragIs
  <2>15. Writes(i, Hold(end.inv, Less(held, held.count - end.left)), Inside)
    <3>1. held.count - end.left \in Nat
      BY <2>2, <2>13
    <3>2. Less(held, held.count - end.left) \in Sized
      BY <1>2, <3>1, LessSized
    <3>3. end.inv \in Inventory
      BY <2>13 DEF Writes
    <3>4. Writes(end.inv, Hold(end.inv, Less(held, held.count - end.left)), Inside)
      BY <3>2, <3>3, HoldWrites
    <3> QED BY <2>13, <3>4, WritesOn
  <2> QED BY <2>13, <2>14, <2>15
<1> QED BY <1>3, <1>4

LEMMA DragEndShows ==
  ASSUME NEW i \in Showing({}, Benches), NEW kind \in 0..2
  PROVE  DragEnd(i, kind) \in Showing({}, Benches)
<1>1. PICK j : j = IF i.drag.on /\ i.drag.kind = kind THEN FinishDrag(i, kind) ELSE i
  OBVIOUS
<1>2. j \in Showing({}, Benches)
  <2>1. i \in Inventory
    BY DEF Showing
  <2>2. FinishDrag(i, kind) \in Showing({}, Benches)
    BY <2>1, FinishDragWrites, WritesAfter
  <2> QED BY <1>1, <2>2
<1>3. DragEnd(i, kind) = [j EXCEPT !.drag = NoDrag]
  BY <1>1 DEF DragEnd
<1> QED BY <1>2, <1>3, NoDragIs, DragChanged

-----------------------------------------------------------------------------
(***************************************************************************)
(* A double click: the cursor keeps its kind while it gathers.             *)
(***************************************************************************)
Gathering(i, kind) ==
  {j \in Inventory : Writes(i, j, Inside) /\ j.cursor # Empty /\ j.cursor.kind = kind}

\* One slot of a double click: part of it goes to the cursor.
LEMMA GatherGoesOn ==
  ASSUME NEW i, NEW kind, NEW j \in Gathering(i, kind), NEW s \in Storage
  PROVE  GatherOne(j, s, kind) \in Gathering(i, kind) /\ PartOne(j, s, kind) \in Gathering(i, kind)
<1>1. j \in Inventory /\ Writes(i, j, Inside) /\ j.cursor # Empty /\ j.cursor.kind = kind
  BY DEF Gathering
<1>2. PICK there, held : there = j.slots[s] /\ held = j.cursor
  OBVIOUS
<1>3. there \in Sized /\ held \in Sized
  BY <1>1, <1>2, InventoryIs
<1>4. PICK size, moved : size = StackSize[kind] /\ moved = Lower(there.count, size - held.count)
  OBVIOUS
<1>5. kind \in Kinds /\ held.count \in Nat /\ held.count <= size /\ size \in Nat /\ there.count \in Nat
  <2>1. kind \in Kinds /\ held.count \in Nat /\ held.count <= StackSize[kind] /\ there.count \in Nat
    BY <1>1, <1>2, <1>3, SizedFacts
  <2> QED BY <1>4, <2>1, SizedFacts
<1>6. moved \in Nat /\ held.count + moved <= StackSize[held.kind]
  <2>1. PICK room : room = size - held.count
    OBVIOUS
  <2>2. room \in Nat /\ room \in Int /\ there.count \in Int
    BY <1>5, <2>1
  <2>3. moved \in {there.count, room} /\ moved <= room
    BY <1>4, <2>1, <2>2, LowerIs
  <2> QED BY <1>1, <1>2, <1>4, <1>5, <2>1, <2>2, <2>3
<1>7. GatherOne(j, s, kind) \in Gathering(i, kind)
  <2>1. CASE ~Writable(s) \/ there.kind # kind \/ moved = 0
    <3>1. GatherOne(j, s, kind) = j
      BY <1>2, <1>4, <2>1 DEF GatherOne
    <3> QED BY <3>1
  <2>2. CASE ~(~Writable(s) \/ there.kind # kind \/ moved = 0)
    <3>1. s \in Inside
      BY <2>2 DEF Inside
    <3>2. PICK h, c : h = Less(there, moved) /\ c = More(held, moved)
      OBVIOUS
    <3>3. h \in Sized
      BY <1>3, <1>6, <3>2, LessSized
    <3>4. c \in Sized /\ c.kind = kind /\ c # Empty
      BY <1>1, <1>2, <1>3, <1>6, <3>2, MoreSized
    <3>5. PICK k : k = Hold(Put(j, s, h), c)
      OBVIOUS
    <3>6. Writes(j, k, Inside)
      BY <1>1, <3>1, <3>3, <3>4, <3>5, PutHoldWrites
    <3>7. Writes(i, k, Inside) /\ k \in Inventory
      BY <1>1, <3>6, WritesOn DEF Writes
    <3>8. k.cursor = c
      <4>1. Put(j, s, h) \in Inventory
        BY <1>1, <3>3, PutFacts
      <4> QED BY <3>4, <3>5, <4>1, HoldFacts
    <3>9. GatherOne(j, s, kind) = k
      BY <1>2, <1>4, <2>2, <3>2, <3>5 DEF GatherOne
    <3> QED BY <3>4, <3>7, <3>8, <3>9 DEF Gathering
  <2> QED BY <2>1, <2>2
<1> QED BY <1>7 DEF PartOne

LEMMA GatherWhole ==
  ASSUME NEW i, NEW kind, NEW j \in Gathering(i, kind), NEW run \in Seq(Storage)
  PROVE  GatherEnd(j, run, kind) \in Gathering(i, kind) /\ PartEnd(j, run, kind) \in Gathering(i, kind)
<1>1. Len(run) \in Nat /\ \A n \in 1..Len(run) : run[n] \in Storage
  OBVIOUS
<1>2. PICK P : P = [n \in 0..Len(run) |-> Gathering(i, kind)]
  OBVIOUS
<1>3. P[0] = Gathering(i, kind) /\ P[Len(run)] = Gathering(i, kind)
  BY <1>1, <1>2
<1>4. ASSUME NEW n \in 1..Len(run), NEW a \in P[n - 1]
      PROVE  GatherOne(a, run[n], kind) \in P[n] /\ PartOne(a, run[n], kind) \in P[n]
  <2>1. n \in 0..Len(run) /\ n - 1 \in 0..Len(run)
    BY <1>1
  <2>2. a \in Gathering(i, kind) /\ P[n] = Gathering(i, kind)
    BY <1>2, <1>4, <2>1
  <2> QED BY <1>1, <2>2, GatherGoesOn
<1>5. GatherLeads(run, P, kind) /\ PartLeads(run, P, kind)
  BY <1>4 DEF GatherLeads, PartLeads
<1> QED BY <1>1, <1>3, <1>5, GatherLoop, PartLoop

\* A double click (pickup_all).
LEMMA PickupAllShows ==
  ASSUME NEW i \in Showing({}, Benches), NEW w \in Windows, NEW button
  PROVE  PickupAll(i, w, button) \in Showing({}, Benches)
<1>1. i \in Inventory
  BY DEF Showing
<1>2. PICK order : order = IF button = 1 THEN Backwards(WindowSlots[w]) ELSE WindowSlots[w]
  OBVIOUS
<1>3. order \in Seq(Storage)
  <2>1. WindowSlots[w] \in Seq(Storage)
    BY SlotFacts
  <2> QED BY <1>2, <2>1, BackwardsIs
<1>4. CASE i.cursor = Empty
  BY <1>2, <1>4, PickupAllIs
<1>5. CASE i.cursor # Empty
  <2>1. PICK kind : kind = i.cursor.kind
    OBVIOUS
  <2>2. i \in Gathering(i, kind)
    BY <1>1, <1>5, <2>1, WritesNothing DEF Gathering
  <2>3. PICK j : j = PartEnd(i, order, kind)
    OBVIOUS
  <2>4. j \in Gathering(i, kind)
    BY <1>3, <2>2, <2>3, GatherWhole
  <2>5. PICK k : k = GatherEnd(j, order, kind)
    OBVIOUS
  <2>6. k \in Gathering(i, kind)
    BY <1>3, <2>4, <2>5, GatherWhole
  <2>7. Writes(i, k, Inside)
    BY <2>6 DEF Gathering
  <2>8. PickupAll(i, w, button) = k
    BY <1>2, <1>5, <2>1, <2>3, <2>5, PickupAllIs
  <2> QED BY <2>7, <2>8, WritesAfter
<1> QED BY <1>4, <1>5

-----------------------------------------------------------------------------
(***************************************************************************)
(* A click in a window.                                                    *)
(***************************************************************************)
Modes == {"pickup", "quick_move", "swap", "clone", "throw", "drag_start", "drag_over", "drag_end", "pickup_all"}

\* What a click names: a slot of the window, and a button or a key.
Clicked(w, click) ==
  /\ click.mode \in Modes
  /\ click.mode = "pickup" => click.slot \in Range(WindowSlots[w]) \cup {"outside"}
  /\ click.mode \in {"quick_move", "clone", "swap", "throw", "drag_over"} => click.slot \in Range(WindowSlots[w])
  /\ click.mode = "swap" => click.button \in DOMAIN Keys
  /\ click.mode \in {"drag_start", "drag_over", "drag_end"} => click.button \in 0..2

LEMMA KeysArePocket ==
  ASSUME NEW n \in DOMAIN Keys
  PROVE  Keys[n] \in Pocket
<1>1. PICK o : o = <<"offhand">>
  OBVIOUS
<1>2. o \in Seq(Storage) /\ Range(o) = {"offhand"}
  BY <1>1, RangeOfOne, CarriedFacts DEF Pocket
<1>3. Keys = Hotbar \o o
  BY <1>1 DEF Keys
<1>4. Range(Keys) = Range(Hotbar) \cup {"offhand"}
  BY <1>2, <1>3, RangeOfTwo, CarriedFacts
<1>5. Keys[n] \in Range(Keys)
  BY DEF Range
<1> QED BY <1>4, <1>5, CarriedFacts DEF Pocket

\* What a click does before the refreshes: every bench shows, or is refreshed
\* next.
LEMMA EffectShows ==
  ASSUME NEW i \in Showing({}, Benches), NEW w \in Windows, NEW click, Clicked(w, click)
  PROVE  Effect(i, w, click) \in Showing({}, Benches)
<1>1. PICK mode, slot, button : mode = click.mode /\ slot = click.slot /\ button = click.button
  OBVIOUS
<1>2. CASE mode = "pickup"
  <2>1. Pickup(i, w, slot, button) \in Showing({}, Benches)
    BY <1>1, <1>2, PickupShows DEF Clicked
  <2> QED BY <1>1, <1>2, <2>1 DEF Effect
<1>3. CASE mode = "quick_move"
  <2>1. QuickMove(i, w, slot) \in Showing({}, Benches)
    BY <1>1, <1>3, QuickMoveShows DEF Clicked
  <2> QED BY <1>1, <1>3, <2>1 DEF Effect
<1>4. CASE mode = "swap"
  <2>1. Swap(i, w, slot, Keys[button]) \in Showing({}, Benches)
    BY <1>1, <1>4, KeysArePocket, SwapShows DEF Clicked
  <2> QED BY <1>1, <1>4, <2>1 DEF Effect
<1>5. CASE mode = "clone"
  <2>1. slot \in Storage
    BY <1>1, <1>5, WindowFacts DEF Clicked
  <2>2. CloneSlot(i, slot) \in Showing({}, Benches)
    BY <2>1, CloneShows
  <2> QED BY <1>1, <1>5, <2>2 DEF Effect
<1>6. CASE mode = "throw"
  <2>1. Throw(i, w, slot, button) \in Showing({}, Benches)
    BY <1>1, <1>6, ThrowShows DEF Clicked
  <2> QED BY <1>1, <1>6, <2>1 DEF Effect
<1>7. CASE mode = "drag_start"
  <2>1. DragStart(i, button) \in Showing({}, Benches)
    BY <1>1, <1>7, DragStartShows DEF Clicked
  <2> QED BY <1>1, <1>7, <2>1 DEF Effect
<1>8. CASE mode = "drag_over"
  <2>1. slot \in Storage
    BY <1>1, <1>8, WindowFacts DEF Clicked
  <2>2. DragOver(i, slot, button) \in Showing({}, Benches)
    BY <2>1, DragOverShows
  <2> QED BY <1>1, <1>8, <2>2 DEF Effect
<1>9. CASE mode = "drag_end"
  <2>1. DragEnd(i, button) \in Showing({}, Benches)
    BY <1>1, <1>9, DragEndShows DEF Clicked
  <2> QED BY <1>1, <1>9, <2>1 DEF Effect
<1>10. CASE mode = "pickup_all"
  <2>1. PickupAll(i, w, button) \in Showing({}, Benches)
    BY PickupAllShows
  <2> QED BY <1>1, <1>10, <2>1 DEF Effect
<1>11. mode \in Modes
  BY <1>1 DEF Clicked
<1> QED BY <1>2, <1>3, <1>4, <1>5, <1>6, <1>7, <1>8, <1>9, <1>10, <1>11 DEF Modes

\* A click in an open window leaves every bench showing (click).
LEMMA ClickShows ==
  ASSUME NEW i \in Showing({}, {}), NEW w \in Windows, NEW click, Clicked(w, click)
  PROVE  Click(i, w, click) \in Showing({}, {})
<1>1. i \in Inventory
  BY DEF Showing
<1>2. Bare(i) \in Showing({}, {})
  <2>1. Bare(i) \in Inventory /\ Bare(i).slots = i.slots /\ Bare(i).choice = i.choice
    BY <1>1, BareFacts DEF SameRest
  <2> QED BY <2>1, Unshown
<1>3. Bare(i) \in Showing({}, Benches)
  BY <1>2, ShowingMore
<1>4. PICK d : d = IF IsDrag(click) THEN i.drag ELSE NoDrag
  OBVIOUS
<1>5. d \in [on : BOOLEAN, kind : 0..2, over : SUBSET Inside]
  BY <1>1, <1>4, InventoryIs, NoDragIs
<1>6. PICK j : j = [Bare(i) EXCEPT !.drag = d]
  OBVIOUS
<1>7. j \in Showing({}, Benches)
  BY <1>3, <1>5, <1>6, DragChanged
<1>8. j = [i EXCEPT !.changed = {}, !.drag = IF IsDrag(click) THEN @ ELSE NoDrag]
  BY <1>1, <1>4, <1>6, InventoryIs DEF Bare
<1>9. Effect(j, w, click) \in Showing({}, Benches)
  BY <1>7, EffectShows
<1>10. Refreshed(Effect(j, w, click)) \in Showing({}, {})
  BY <1>9, RefreshedShows
<1> QED BY <1>8, <1>10 DEF Click
-----------------------------------------------------------------------------
(***************************************************************************)
(* What else is done with an inventory: a cut chosen, a creative write, a  *)
(* screen closed, the record taken and come back to, the furnace's copy.   *)
(***************************************************************************)
LEMMA BareShows ==
  ASSUME NEW i \in Showing({}, {}), NEW j \in {i, Bare(i)}
  PROVE  j \in Showing({}, {})
<1>1. i \in Inventory
  BY DEF Showing
<1>2. Bare(i) \in Inventory /\ Bare(i).slots = i.slots /\ Bare(i).choice = i.choice
  BY <1>1, BareFacts DEF SameRest
<1> QED BY <1>2, Unshown

\* A cut chosen (choose_cut).
LEMMA ChooseCutShows ==
  ASSUME NEW i \in Showing({}, {}), NEW index \in Nat
  PROVE  ChooseCut(i, index) \in Showing({}, {})
<1>1. PICK bare : bare = Bare(i)
  OBVIOUS
<1>2. bare \in Showing({}, {}) /\ bare \in Inventory
  BY <1>1, BareShows DEF Showing
<1>3. PICK j : j = [bare EXCEPT !.choice = index]
  OBVIOUS
<1>4. j \in Inventory /\ j.slots = bare.slots /\ j.changed = bare.changed
  BY ONLY <1>2, <1>3, index \in Nat, InventoryIs
<1>5. bare \in Showing({"stonecutter"}, {})
  BY <1>2, ShowingMore
<1>6. j \in Showing({"stonecutter"}, {})
  <2>1. \A w \in Benches \ {"stonecutter"} : SameMaking(bare, j, w) /\ j.slots[Output[w]] = bare.slots[Output[w]]
    BY <1>4 DEF SameMaking
  <2> QED BY <1>4, <1>5, <2>1, ShowingSame
<1>7. RefreshOutput(j, "stonecutter") \in Showing({}, {})
  <2>1. {"stonecutter"} \ {"stonecutter"} = {} /\ {} \ {"stonecutter"} = {} /\ "stonecutter" \in Benches
    BY DEF Benches
  <2>2. RefreshOutput(j, "stonecutter") \in Showing({"stonecutter"} \ {"stonecutter"}, {} \ {"stonecutter"})
    BY <1>6, <2>1, RefreshShows
  <2> QED BY <2>1, <2>2
<1>8. ChooseCut(i, index) = IF index \in DOMAIN CutList(i) THEN RefreshOutput(j, "stonecutter") ELSE bare
  BY <1>1, <1>3 DEF ChooseCut, Bare
<1> QED BY <1>2, <1>7, <1>8

\* A creative write into the player's own slots refreshes its grid (set_creative).
LEMMA SetCreativeShows ==
  ASSUME NEW i \in Showing({}, {}), NEW s \in Range(Owned) \ {"crafting_output"}, NEW stack \in Sized
  PROVE  SetCreative(i, s, stack) \in Showing({}, {})
<1>1. PICK bare : bare = Bare(i)
  OBVIOUS
<1>2. bare \in Showing({}, {}) /\ bare \in Inventory
  BY <1>1, BareShows DEF Showing
<1>3. s \in Storage /\ s \in Inside
  <2>1. s \in Range(WindowSlots["player"]) /\ "player" \in Windows
    BY SlotFacts DEF Owned, Benches
  <2> QED BY <2>1, WindowFacts, ResultSlots
<1>4. PICK set : set = Put(bare, s, stack)
  OBVIOUS
<1>5. Writes(bare, set, {s})
  BY <1>2, <1>3, <1>4, PutWrites
<1>6. SetCreative(i, s, stack) = IF s \in Range(Grid) THEN RefreshOutput(set, "player") ELSE set
  BY <1>1, <1>4 DEF SetCreative, Bare
<1>7. \A w \in Benches : Output[w] \notin {s}
  BY <1>3, BenchFacts DEF Inside, Writable
<1>8. CASE s \in Range(Grid)
  <2>1. \A w \in Benches \ {"player"} : Range(Cells[w]) \cap {s} = {}
    <3>1. Range(Cells["player"]) = Range(Grid) /\ "player" \in Benches
      BY CellSlots DEF Benches
    <3> QED BY <1>8, <3>1, BenchFacts
  <2>2. bare \in Showing({"player"}, {})
    BY <1>2, ShowingMore
  <2>3. set \in Showing({"player"}, {})
    BY <1>5, <1>7, <2>1, <2>2, WritesShow
  <2>4. {"player"} \ {"player"} = {} /\ {} \ {"player"} = {} /\ "player" \in Benches
    BY DEF Benches
  <2>5. RefreshOutput(set, "player") \in Showing({"player"} \ {"player"}, {} \ {"player"})
    BY <2>3, <2>4, RefreshShows
  <2> QED BY <1>6, <1>8, <2>4, <2>5
<1>9. CASE s \notin Range(Grid)
  <2>1. s \in {"crafting_output", "offhand"} \cup Range(Grid) \cup Range(Armour) \cup Range(Carried)
    <3>1. Storage \subseteq Storage /\ Bench \subseteq Storage
      BY SlotFacts
    <3> QED BY <3>1, WindowRuns DEF Owned
  <2>2. s \in Pocket \cup Range(Armour)
    BY <1>9, <2>1 DEF Pocket
  <2>3. \A w \in Benches : Range(Cells[w]) \cap Range(Armour) = {}
    <3>1. /\ Range(Cells["player"]) = Range(Grid) /\ Range(Cells["table"]) = Range(TableGrid)
          /\ Range(Cells["stonecutter"]) = {"cut_input"} /\ Range(Cells["smithing"]) = Range(Smith)
      BY CellSlots, ListSlots
    <3>2. Range(Grid) \cap Range(Armour) = {} /\ Range(TableGrid) \cap Range(Armour) = {}
          /\ (Range(Smith) \cup {"cut_input"}) \cap Range(Armour) = {}
      BY RegionsApart
    <3> QED BY <3>1, <3>2 DEF Benches
  <2>4. \A w \in Benches : Range(Cells[w]) \cap {s} = {}
    BY <2>2, <2>3, BenchFacts
  <2>5. set \in Showing({}, {})
    BY <1>2, <1>5, <1>7, <2>4, WritesShow
  <2> QED BY <1>6, <1>9, <2>5
<1> QED BY <1>8, <1>9

\* The cursor given back when a screen closes.
LEMMA FreedShows ==
  ASSUME NEW i \in Showing({}, {})
  PROVE  Freed(i) \in Showing({}, {})
<1>1. Bare(i) \in Showing({}, {}) /\ Bare(i) \in Inventory /\ i.cursor \in Sized
  BY BareShows, InventoryIs DEF Showing
<1>2. PICK j : j = Hold(Bare(i), Empty)
  OBVIOUS
<1>3. Writes(Bare(i), j, Pocket) /\ j \in Inventory
  BY <1>1, <1>2, HoldWrites, SizedFacts DEF Writes
<1>4. Writes(j, Give(j, i.cursor), Pocket)
  BY <1>1, <1>3, PlaceMoves
<1>5. Writes(Bare(i), Give(j, i.cursor), Pocket)
  BY <1>3, <1>4, WritesOn
<1>6. Give(j, i.cursor) \in Showing({}, {})
  BY <1>1, <1>5, PocketShows
<1> QED BY <1>1, <1>2, <1>6 DEF Freed

\* A bench whose cells are all empty, and the others as they were.
Emptied(w, n) ==
  {j \in Showing({w}, {}) : \A m \in 1..n : j.slots[Cells[w][m]] = Empty}

\* The cells of a closed screen are given back one by one: the first n are empty.
LEMMA ReturnEmpties ==
  ASSUME NEW i \in Showing({}, {}), NEW w \in Benches
  PROVE  ReturnEnd(i, Cells[w]) \in Emptied(w, Len(Cells[w]))
<1>1. PICK run : run = Cells[w]
  OBVIOUS
<1>2. Len(run) \in Nat /\ \A n \in 1..Len(run) : run[n] \in Range(Cells[w]) /\ run[n] \in Storage
  BY <1>1, BenchFacts, RunFacts
<1>3. PICK P : P = [n \in 0..Len(run) |-> Emptied(w, n)]
  OBVIOUS
<1>4. i \in P[0]
  <2>1. i \in Showing({w}, {})
    BY ShowingMore
  <2>2. i \in Emptied(w, 0)
    BY <2>1 DEF Emptied
  <2> QED BY <1>2, <1>3, <2>2
<1>5. ASSUME NEW n \in 1..Len(run), NEW a \in P[n - 1] PROVE ReturnOne(a, run[n]) \in P[n]
  <2>1. n \in 0..Len(run) /\ n - 1 \in 0..Len(run) /\ \A m \in 1..n : m = n \/ m \in 1..n - 1
    BY <1>2
  <2>2. a \in Emptied(w, n - 1)
    BY <1>3, <1>5, <2>1
  <2>3. a \in Showing({w}, {}) /\ a \in Inventory /\ \A m \in 1..n - 1 : a.slots[run[m]] = Empty
    BY <1>1, <2>2 DEF Emptied, Showing
  <2>4. PICK s : s = run[n]
    OBVIOUS
  <2>5. s \in Range(Cells[w]) /\ s \in Storage
    BY <1>2, <2>4
  <2>6. CASE a.slots[s] = Empty
    <3>1. ReturnOne(a, s) = a
      BY <2>6 DEF ReturnOne
    <3>2. \A m \in 1..n : a.slots[run[m]] = Empty
      BY <2>1, <2>3, <2>4, <2>6
    <3>3. a \in Emptied(w, n)
      BY <1>1, <2>3, <3>2 DEF Emptied
    <3> QED BY <1>3, <2>1, <2>4, <3>1, <3>3
  <2>7. CASE a.slots[s] # Empty
    <3>1. PICK b, stack : b = Put(a, s, Empty) /\ stack = a.slots[s]
      OBVIOUS
    <3>2. PICK D : D = Range(Cells[w]) \cup Pocket
      OBVIOUS
    <3>3. stack \in Sized /\ Empty \in Sized
      BY <2>3, <2>5, <3>1, InventoryIs, SizedFacts
    <3>4. Writes(a, b, D) /\ b \in Inventory /\ b.slots[s] = Empty /\ OthersSame(a, b, s)
      BY <2>3, <2>5, <3>1, <3>2, <3>3, PutWrites, PutFacts
    <3>5. PICK c : c = Give(b, stack)
      OBVIOUS
    <3>6. Writes(b, c, Pocket)
      BY <3>3, <3>4, <3>5, PlaceMoves
    <3>7. Writes(a, c, D)
      <4>1. Writes(b, c, D)
        BY <3>2, <3>6, WritesMore
      <4> QED BY <3>4, <4>1, WritesOn
    <3>8. c \in Showing({w}, {})
      <4>1. \A v \in Benches \ {w} : Output[v] \notin D /\ Range(Cells[v]) \cap D = {}
        <5>1. ASSUME NEW v \in Benches \ {w} PROVE Output[v] \notin D /\ Range(Cells[v]) \cap D = {}
          <6>1. Output[v] \notin Pocket /\ Range(Cells[v]) \cap Pocket = {} /\ Range(Cells[v]) \cap Range(Cells[w]) = {}
            BY BenchFacts
          <6>2. Output[v] \notin Range(Cells[w])
            BY BenchFacts
          <6> QED BY <3>2, <6>1, <6>2
        <5> QED BY <5>1
      <4> QED BY <2>3, <3>7, <4>1, WritesShow
    <3>9. \A m \in 1..n : c.slots[run[m]] = Empty
      <4>1. ASSUME NEW m \in 1..n PROVE c.slots[run[m]] = Empty
        <5>1. run[m] \in Range(Cells[w]) /\ run[m] \in Storage
          BY <1>2, <2>1
        <5>2. run[m] \notin Pocket
          BY <5>1, BenchFacts
        <5>3. c.slots[run[m]] = b.slots[run[m]]
          BY <3>6, <5>1, <5>2 DEF Writes
        <5>4. b.slots[run[m]] = Empty
          BY <2>1, <2>3, <2>4, <3>4, <5>1 DEF OthersSame
        <5> QED BY <5>3, <5>4
      <4> QED BY <4>1
    <3>10. c \in Emptied(w, n)
      BY <1>1, <3>8, <3>9 DEF Emptied
    <3>11. ReturnOne(a, s) = c
      BY <2>7, <3>1, <3>5 DEF ReturnOne
    <3> QED BY <1>3, <2>1, <2>4, <3>10, <3>11
  <2> QED BY <2>6, <2>7
<1>6. ReturnLeads(run, P)
  BY <1>5 DEF ReturnLeads
<1>7. ReturnEnd(i, run) \in P[Len(run)]
  BY <1>2, <1>4, <1>6, ReturnLoop
<1> QED BY <1>1, <1>2, <1>3, <1>7

\* A screen closed: its cells are empty and its result with them (closed).
LEMMA ClosedShows ==
  ASSUME NEW i \in Showing({}, {}), NEW w \in Windows
  PROVE  Closed(i, w) \in Showing({}, {})
<1>1. Freed(i) \in Showing({}, {})
  BY FreedShows
<1>2. CASE w = "furnace"
  <2>1. PICK run : run = Cells["furnace"]
    OBVIOUS
  <2>2. run = <<>> /\ Len(run) = 0
    BY <2>1, CellSlots
  <2>3. PICK P : P = [n \in 0..0 |-> Showing({}, {})]
    OBVIOUS
  <2>4. ReturnLeads(run, P) /\ Freed(i) \in P[0] /\ Len(run) \in Nat /\ P[Len(run)] = Showing({}, {})
    BY <1>1, <2>2, <2>3 DEF ReturnLeads
  <2>5. ReturnEnd(Freed(i), run) \in Showing({}, {})
    BY <2>4, ReturnLoop
  <2> QED BY <1>2, <2>1, <2>5, VacatedIs DEF Closed
<1>3. CASE w # "furnace"
  <2>1. w \in Benches
    BY <1>3, SlotFacts
  <2>2. PICK e : e = ReturnEnd(Freed(i), Cells[w])
    OBVIOUS
  <2>3. e \in Emptied(w, Len(Cells[w]))
    BY <1>1, <2>1, <2>2, ReturnEmpties
  <2>4. e \in Showing({w}, {}) /\ e \in Inventory
    BY <2>3 DEF Emptied, Showing
  <2>5. \A s \in Range(Cells[w]) : e.slots[s] = Empty
    <3>1. DOMAIN Cells[w] = 1..Len(Cells[w])
      BY <2>1, BenchFacts, RunFacts
    <3>2. \A m \in 1..Len(Cells[w]) : e.slots[Cells[w][m]] = Empty
      BY <2>3 DEF Emptied
    <3> QED BY <3>1, <3>2 DEF Range
  <2>6. PICK j : j = IF w = "stonecutter" THEN [e EXCEPT !.choice = 0, !.cutOf = NoKind] ELSE e
    OBVIOUS
  <2>7. j \in Inventory /\ j.slots = e.slots /\ (w # "stonecutter" => j.choice = e.choice)
    <3>1. PICK f : f = [e EXCEPT !.choice = 0, !.cutOf = NoKind]
      OBVIOUS
    <3>2. f \in Inventory /\ f.slots = e.slots
      BY ONLY <2>4, <3>1, InventoryIs
    <3> QED BY <2>4, <2>6, <3>1, <3>2
  <2>8. Vacated(i, w) = j
    BY <2>2, <2>6, VacatedIs
  <2>9. j \in Showing({w}, {})
    <3>1. \A v \in Benches \ {w} : SameMaking(e, j, v) /\ j.slots[Output[v]] = e.slots[Output[v]]
      BY <2>6, <2>7 DEF SameMaking
    <3> QED BY <2>4, <2>7, <3>1, ShowingSame
  <2>10. PICK k : k = Show(j, Output[w], Empty)
    OBVIOUS
  <2>11. Writes(j, k, {Output[w]}) /\ k.slots[Output[w]] = Empty
    BY <2>1, <2>7, <2>10, BenchFacts, SizedFacts, ShowWrites
  <2>12. k \in Showing({w}, {})
    <3>1. \A v \in Benches \ {w} : Output[v] \notin {Output[w]} /\ Range(Cells[v]) \cap {Output[w]} = {}
      BY <2>1, BenchFacts
    <3> QED BY <2>9, <2>11, <3>1, WritesShow
  <2>13. Pictured(k, w)
    <3>1. \A s \in Range(Cells[w]) : s \in Storage /\ s # Output[w]
      BY <2>1, BenchFacts
    <3>2. \A s \in Range(Cells[w]) : k.slots[s] = Empty
      BY <2>5, <2>7, <2>11, <3>1 DEF Writes
    <3>3. Made(k, w) = Empty
      BY <2>1, <3>2, NothingMade
    <3> QED BY <2>11, <3>3 DEF Pictured
  <2>14. k \in Showing({}, {})
    BY <2>12, <2>13 DEF Showing
  <2>15. Closed(i, w) = k
    BY <1>3, <2>8, <2>10 DEF Closed
  <2> QED BY <2>14, <2>15
<1> QED BY <1>2, <1>3
\* A player who has never been here shows nothing, and makes nothing.
LEMMA FreshShows ==
  Fresh \in Showing({}, {}) /\ Fresh.changed = {}
<1>1. 1 \in DOMAIN Hotbar
  BY InventoryAssumption
<1>2. Fresh \in Inventory
  BY <1>1, SizedFacts, NoDragIs, InventoryIs DEF Fresh
<1>3. ASSUME NEW w \in Benches PROVE Pictured(Fresh, w)
  <2>1. \A s \in Storage : Fresh.slots[s] = Empty
    BY DEF Fresh
  <2>2. Made(Fresh, w) = Empty
    BY <2>1, BenchFacts, NothingMade
  <2> QED BY <2>1, <2>2, BenchFacts DEF Pictured
<1> QED BY <1>2, <1>3 DEF Showing, Fresh

\* What the record keeps, and the inventory that is made of it.
Back(r) ==
  [Fresh EXCEPT !.slots = [s \in Storage |-> IF s \in Range(Owned) THEN r.slots[s] ELSE Empty],
                !.selected = r.selected]
Records ==
  {r \in [slots : [Range(Owned) -> Sized], selected : DOMAIN Hotbar] :
     r.slots["crafting_output"] = Made(Back(r), "player")}

LEMMA OwnedFacts ==
  /\ Range(Owned) \subseteq Storage /\ "crafting_output" \in Range(Owned) /\ Range(Grid) \subseteq Range(Owned)
  /\ \A w \in Benches \ {"player"} : Output[w] \notin Range(Owned) /\ Range(Cells[w]) \cap Range(Owned) = {}
<1>1. Range(Owned) = {"crafting_output", "offhand"} \cup Range(Grid) \cup Range(Armour) \cup Range(Carried)
  <2>1. Storage \subseteq Storage /\ Bench \subseteq Storage
    BY SlotFacts
  <2> QED BY <2>1, WindowRuns DEF Owned
<1>2. Range(Owned) \subseteq Storage
  BY SlotFacts DEF Owned, Benches
<1>3. ASSUME NEW w \in Benches \ {"player"}
      PROVE  Output[w] \notin Range(Owned) /\ Range(Cells[w]) \cap Range(Owned) = {}
  <2>1. Output[w] # "crafting_output" /\ "crafting_output" \in Outputs
    BY ResultSlots, BenchFacts DEF Benches
  <2>2. /\ Range(Cells["player"]) = Range(Grid) /\ Range(Cells["table"]) = Range(TableGrid)
        /\ Range(Cells["stonecutter"]) = {"cut_input"} /\ Range(Cells["smithing"]) = Range(Smith)
    BY CellSlots, ListSlots
  <2>3. Range(Cells[w]) \cap Range(Grid) = {}
    BY <2>2, BenchFacts DEF Benches
  <2>4. Range(Cells[w]) \cap Range(Armour) = {}
    <3>1. Range(Grid) \cap Range(Armour) = {} /\ Range(TableGrid) \cap Range(Armour) = {}
          /\ (Range(Smith) \cup {"cut_input"}) \cap Range(Armour) = {}
      BY RegionsApart
    <3> QED BY <2>2, <3>1 DEF Benches
  <2>5. Range(Cells[w]) \cap Outputs = {} /\ Range(Cells[w]) \cap Pocket = {} /\ Output[w] \notin Pocket
        /\ Output[w] \in Outputs
    BY BenchFacts
  <2>6. Range(Armour) \cap Outputs = {} /\ Range(Grid) \cap Outputs = {}
    BY CarriedFacts, RegionsApart
  <2>7. Pocket = Range(Carried) \cup {"offhand"}
    BY DEF Pocket
  <2> QED BY <1>1, <2>1, <2>3, <2>4, <2>5, <2>6, <2>7
<1> QED BY <1>1, <1>2, <1>3

\* What is come back to: the recorded slots, and every other one empty.
LEMMA BackIs ==
  ASSUME NEW r, r \in [slots : [Range(Owned) -> Sized], selected : DOMAIN Hotbar]
  PROVE  /\ Back(r) \in Inventory /\ Back(r).changed = {}
         /\ \A s \in Storage : Back(r).slots[s] = IF s \in Range(Owned) THEN r.slots[s] ELSE Empty
<1>1. PICK slots : slots = [s \in Storage |-> IF s \in Range(Owned) THEN r.slots[s] ELSE Empty]
  OBVIOUS
<1>2. slots \in [Storage -> Sized]
  BY <1>1, SizedFacts
<1>3. Fresh \in Inventory /\ Fresh.changed = {} /\ r.selected \in DOMAIN Hotbar
  BY FreshShows DEF Showing
<1>4. Back(r) = [Fresh EXCEPT !.slots = slots, !.selected = r.selected]
  BY <1>1 DEF Back
<1>5. Back(r) \in Inventory /\ Back(r).slots = slots /\ Back(r).changed = {}
  BY ONLY <1>2, <1>3, <1>4, InventoryIs
<1> QED BY <1>1, <1>5

\* Coming back to the record shows what was shown, and nothing has to be told.
LEMMA RestoredShows ==
  ASSUME NEW r \in Records
  PROVE  Restored(r.slots, r.selected) \in Showing({}, {}) /\ Restored(r.slots, r.selected).changed = {}
<1>1. r \in [slots : [Range(Owned) -> Sized], selected : DOMAIN Hotbar]
      /\ r.slots["crafting_output"] = Made(Back(r), "player")
  BY DEF Records
<1>2. PICK b : b = Back(r)
  OBVIOUS
<1>3. /\ b \in Inventory /\ b.changed = {}
      /\ \A s \in Storage : b.slots[s] = IF s \in Range(Owned) THEN r.slots[s] ELSE Empty
  BY <1>1, <1>2, BackIs
<1>4. ASSUME NEW w \in Benches PROVE Pictured(b, w)
  <2>1. Output[w] \in Storage /\ Range(Cells[w]) \subseteq Storage
    BY BenchFacts
  <2>2. CASE w = "player"
    <3>1. b.slots["crafting_output"] = Made(b, "player")
      BY <1>1, <1>2, <1>3, OwnedFacts
    <3> QED BY <2>2, <3>1, ResultSlots DEF Pictured
  <2>3. CASE w # "player"
    <3>1. b.slots[Output[w]] = Empty /\ \A s \in Range(Cells[w]) : b.slots[s] = Empty
      BY <1>3, <2>1, <2>3, OwnedFacts
    <3> QED BY <3>1, NothingMade DEF Pictured
  <2> QED BY <2>2, <2>3
<1>5. b \in Showing({}, {})
  BY <1>3, <1>4 DEF Showing
<1>6. Restored(r.slots, r.selected) = RefreshOutput(b, "player")
  BY <1>2 DEF Restored, Back
<1>7. RefreshOutput(b, "player") = Show(b, "crafting_output", Made(b, "player"))
  BY ResultSlots DEF RefreshOutput
<1>8. b.slots["crafting_output"] = Made(b, "player")
  BY <1>5, ResultSlots DEF Showing, Pictured, Benches
<1>9. RefreshOutput(b, "player") = b
  BY <1>7, <1>8 DEF Show
<1> QED BY <1>3, <1>5, <1>6, <1>9

\* What is recorded of an inventory that shows what it makes can be come back
\* to: the player's own grid is in it with its result (saved).
LEMMA RecordsWhatShows ==
  ASSUME NEW i \in Showing({}, {})
  PROVE  Record(i) \in Records
<1>1. PICK folded : folded = IF \A s \in Range(TableGrid) : i.slots[s] = Empty THEN i ELSE Closed(i, "table")
  OBVIOUS
<1>2. folded \in Showing({}, {})
  <2>1. "table" \in Windows
    BY SlotFacts DEF Benches
  <2>2. Closed(i, "table") \in Showing({}, {})
    BY <2>1, ClosedShows
  <2> QED BY <1>1, <2>2
<1>3. folded \in Inventory /\ i \in Inventory
  BY <1>2 DEF Showing
<1>4. PICK r : r = Record(i)
  OBVIOUS
<1>5. r = [slots |-> [s \in Range(Owned) |-> folded.slots[s]], selected |-> i.selected]
  BY <1>1, <1>4 DEF Record, Saved
<1>6. \A s \in Storage : folded.slots[s] \in Sized
  BY <1>3, InventoryIs
<1>7. r \in [slots : [Range(Owned) -> Sized], selected : DOMAIN Hotbar]
  <2>1. [s \in Range(Owned) |-> folded.slots[s]] \in [Range(Owned) -> Sized]
    BY <1>6, OwnedFacts
  <2>2. i.selected \in DOMAIN Hotbar
    BY <1>3, InventoryIs
  <2> QED BY <1>5, <2>1, <2>2
<1>8. PICK b : b = Back(r)
  OBVIOUS
<1>9. \A s \in Range(Owned) : s \in Storage /\ b.slots[s] = folded.slots[s]
  <2>1. \A s \in Storage : b.slots[s] = IF s \in Range(Owned) THEN r.slots[s] ELSE Empty
    BY <1>7, <1>8, BackIs
  <2> QED BY <1>5, <2>1, OwnedFacts
<1>10. SameMaking(folded, b, "player")
  BY <1>9, OwnedFacts, CellSlots DEF SameMaking
<1>11. Made(b, "player") = Made(folded, "player")
  BY <1>10, MadeFrom DEF Benches
<1>12. folded.slots["crafting_output"] = Made(folded, "player")
  BY <1>2, ResultSlots DEF Showing, Pictured, Benches
<1>13. r.slots["crafting_output"] = Made(b, "player")
  BY <1>5, <1>11, <1>12, OwnedFacts
<1> QED BY <1>4, <1>7, <1>8, <1>13 DEF Records

\* The furnace's three slots are copied in, or cleared: no bench has them.
LEMMA MirrorShows ==
  ASSUME NEW i \in Showing({}, {}), NEW slots, \A s \in Fuels : slots[s] \in Sized
  PROVE  MirrorFurnace(i, slots) \in Showing({}, {})
<1>1. PICK run : run = FurnaceSlots
  OBVIOUS
<1>2. Len(run) = 3 /\ Len(run) \in Nat /\ \A n \in 1..3 : run[n] \in Fuels
  BY <1>1 DEF FurnaceSlots, Fuels
<1>3. PICK P : P = [n \in 0..3 |-> Showing({}, {})]
  OBVIOUS
<1>4. Bare(i) \in P[0] /\ P[Len(run)] = Showing({}, {})
  BY <1>2, <1>3, BareShows
<1>5. ASSUME NEW n \in 1..3, NEW a \in P[n - 1] PROVE Show(a, run[n], slots[run[n]]) \in P[n]
  <2>1. a \in Showing({}, {}) /\ P[n] = Showing({}, {})
    BY <1>3, <1>5
  <2>2. a \in Inventory /\ run[n] \in Fuels /\ run[n] \in Storage /\ slots[run[n]] \in Sized
    BY <1>2, <2>1, CarriedFacts DEF Showing
  <2>3. Writes(a, Show(a, run[n], slots[run[n]]), Fuels)
    BY <2>2, ShowWrites
  <2>4. \A w \in Benches : Output[w] \notin Fuels /\ Range(Cells[w]) \cap Fuels = {}
    BY BenchFacts
  <2> QED BY <2>1, <2>3, <2>4, WritesShow
<1>6. CopyLeads(run, P, slots)
  BY <1>2, <1>5 DEF CopyLeads
<1>7. CopyEnd(Bare(i), run, slots) \in Showing({}, {})
  BY <1>2, <1>4, <1>6, CopyLoop
<1> QED BY <1>1, <1>7, MirrorIs DEF Bare

LEMMA ClearShows ==
  ASSUME NEW i \in Showing({}, {})
  PROVE  ClearFurnaceMirror(i) \in Showing({}, {})
<1>1. PICK slots : slots = [s \in Storage |-> IF s \in Range(FurnaceSlots) THEN Empty ELSE i.slots[s]]
  OBVIOUS
<1>2. i \in Inventory /\ slots \in [Storage -> Sized]
  BY <1>1, InventoryIs, SizedFacts DEF Showing
<1>3. PICK j : j = [i EXCEPT !.slots = slots]
  OBVIOUS
<1>4. j \in Inventory /\ j.slots = slots /\ j.choice = i.choice
  BY ONLY <1>2, <1>3, InventoryIs
<1>5. \A s \in Storage : s \notin Fuels => j.slots[s] = i.slots[s]
  BY <1>1, <1>4, ListSlots DEF Fuels
<1>6. \A w \in Benches : SameMaking(i, j, w) /\ j.slots[Output[w]] = i.slots[Output[w]]
  <2>1. ASSUME NEW w \in Benches PROVE SameMaking(i, j, w) /\ j.slots[Output[w]] = i.slots[Output[w]]
    BY <1>4, <1>5, BenchFacts DEF SameMaking
  <2> QED BY <2>1
<1>7. j \in Showing({}, {})
  BY <1>4, <1>6, ShowingSame
<1>8. ClearFurnaceMirror(i) = j
  BY <1>1, <1>2, <1>3, InventoryIs DEF ClearFurnaceMirror
<1> QED BY <1>7, <1>8

-----------------------------------------------------------------------------
(***************************************************************************)
(* The furnace beside them.                                                *)
(***************************************************************************)
Ovens == {f \in FurnaceState : f.input \in Sized /\ f.fuel \in Sized /\ f.output \in Sized}

LEMMA OvenIs ==
  Ovens = [input : Sized, fuel : Sized, output : Sized, lit : Fire, cooking : 0..CookTicks - 1,
           banked : BOOLEAN]
BY DEF Ovens, FurnaceState, Sized

LEMMA FireIs ==
  ASSUME NEW n \in Fire
  PROVE  n \in Nat /\ (n > 0 => n - 1 \in Fire) /\ 0 \in Fire /\ \A k \in Kinds : Burn[k] \in Fire
<1>1. \A k \in Kinds : Burn[k] \in Nat
  BY StacksAssumption
<1>2. n \in Nat /\ (n > 0 => n - 1 \in Fire)
  <2>1. CASE n = 0
    BY <2>1
  <2>2. CASE n # 0
    <3>1. PICK k \in Kinds : n \in 0..Burn[k]
      BY <2>2 DEF Fire
    <3>2. n \in Nat /\ n - 1 \in 0..Burn[k]
      BY <1>1, <2>2, <3>1
    <3> QED BY <3>2 DEF Fire
  <2> QED BY <2>1, <2>2
<1>3. \A k \in Kinds : Burn[k] \in 0..Burn[k]
  BY <1>1
<1> QED BY <1>2, <1>3 DEF Fire

LEMMA NewFurnaceIs ==
  NewFurnace \in Ovens
BY StacksAssumption, SizedFacts, OvenIs DEF NewFurnace, Fire

\* A furnace that burns keeps stacks in its slots: it cooks only what fits its
\* output, and lights only with a fuel there (Furnaces::tick).
LEMMA OvenTicks ==
  ASSUME NEW f \in Ovens
  PROVE  FurnaceTick(f) \in Ovens
<1> DEFINE less == IF f.lit > 0 THEN f.lit - 1 ELSE 0
           burnt == [f EXCEPT !.lit = less]
           hot == IF burnt.lit = 0 /\ CanBurn(f) THEN Light(burnt) ELSE burnt
<1>1. f.lit \in Fire /\ f.cooking \in 0..CookTicks - 1 /\ f.input \in Sized /\ f.fuel \in Sized /\ f.output \in Sized
  BY OvenIs
<1>2. less \in Fire
  BY <1>1, FireIs
<1> HIDE DEF less
<1>3. burnt \in Ovens /\ burnt.lit = less /\ burnt.fuel = f.fuel /\ burnt.input = f.input
      /\ burnt.output = f.output /\ burnt.cooking = f.cooking
  BY <1>2, OvenIs
<1> HIDE DEF burnt
<1>4. hot \in Ovens /\ hot.input = f.input /\ hot.output = f.output /\ hot.cooking = f.cooking
  <2>1. CASE burnt.lit = 0 /\ CanBurn(f) /\ ~(f.fuel = Empty \/ f.fuel.kind \notin Burning)
    <3>1. PICK l, g : l = Burn[f.fuel.kind] /\ g = IF f.fuel.count > 1 THEN Less(f.fuel, 1)
                                                  ELSE IF Remainder[f.fuel.kind] = NoKind THEN Empty
                                                  ELSE One(Remainder[f.fuel.kind])
      OBVIOUS
    <3>2. f.fuel.kind \in Kinds
      BY <1>1, <2>1, SizedFacts
    <3>3. l \in Fire
      BY <1>1, <3>1, <3>2, FireIs
    <3>4. g \in Sized
      <4>1. Less(f.fuel, 1) \in Sized
        BY <1>1, LessSized
      <4>2. Remainder[f.fuel.kind] # NoKind => One(Remainder[f.fuel.kind]) \in Sized
        BY <3>2, StacksAssumption, OneSized
      <4> QED BY <3>1, <4>1, <4>2, SizedFacts
    <3>5. hot = [burnt EXCEPT !.lit = l, !.fuel = g]
      BY <1>3, <2>1, <3>1 DEF Light
    <3>6. [burnt EXCEPT !.lit = l, !.fuel = g] \in Ovens
      BY <1>3, <3>3, <3>4, OvenIs
    <3> QED BY <1>3, <3>5, <3>6, OvenIs
  <2>2. CASE ~(burnt.lit = 0 /\ CanBurn(f) /\ ~(f.fuel = Empty \/ f.fuel.kind \notin Burning))
    BY <1>3, <2>2 DEF Light
  <2> QED BY <2>1, <2>2
<1>5. FurnaceTick(f) \in {Cool(burnt), [hot EXCEPT !.cooking = 0],
                          IF hot.cooking + 1 < CookTicks THEN [hot EXCEPT !.cooking = hot.cooking + 1]
                          ELSE IF CanBurn(f) THEN Smelt([hot EXCEPT !.cooking = 0]) ELSE hot}
  BY DEF FurnaceTick, burnt, less
<1> HIDE DEF hot
<1>6. Cool(burnt) \in Ovens
  <2>1. PICK c : c = IF burnt.cooking <= CoolSpeed THEN 0 ELSE burnt.cooking - CoolSpeed
    OBVIOUS
  <2>2. c \in 0..CookTicks - 1
    BY <1>1, <1>3, <2>1, StacksAssumption DEF CoolSpeed
  <2>3. Cool(burnt) = [burnt EXCEPT !.cooking = c]
    BY <2>1 DEF Cool
  <2> QED BY <1>3, <2>2, <2>3, OvenIs
<1>7. [hot EXCEPT !.cooking = 0] \in Ovens
  BY <1>4, StacksAssumption, OvenIs
<1>8. hot.cooking + 1 < CookTicks => [hot EXCEPT !.cooking = hot.cooking + 1] \in Ovens
  BY <1>1, <1>4, StacksAssumption, OvenIs
<1>9. CanBurn(f) => Smelt([hot EXCEPT !.cooking = 0]) \in Ovens
  <2>1. SUFFICES ASSUME CanBurn(f) PROVE Smelt([hot EXCEPT !.cooking = 0]) \in Ovens
    OBVIOUS
  <2>2. PICK cold : cold = [hot EXCEPT !.cooking = 0]
    OBVIOUS
  <2>3. cold \in Ovens /\ cold.input = f.input /\ cold.output = f.output
    BY <1>4, <1>7, <2>2, OvenIs
  <2>4. PICK made : made = Cooked[f.input.kind]
    OBVIOUS
  <2>5. f.input.kind \in Kinds /\ made # Empty /\ made \in Stack
    BY <1>1, <2>1, <2>4, SizedFacts, StacksAssumption DEF CanBurn, HasRecipe
  <2>6. PICK n : n = f.output.count + made.count
    OBVIOUS
  <2>7. n \in Nat /\ n > 0 /\ n <= StackSize[made.kind] /\ made.kind \in Kinds
    <3>1. f.output.count \in Nat
      BY <1>1, SizedFacts
    <3>2. n <= StackSize[made.kind]
      BY <2>1, <2>4, <2>6 DEF CanBurn
    <3> QED BY <2>5, <2>6, <3>1, <3>2 DEF Stack
  <2>8. [made EXCEPT !.count = n] \in Sized
    <3>1. [made EXCEPT !.count = n] = [kind |-> made.kind, count |-> n]
      BY <2>5 DEF Stack
    <3> QED BY <2>7, <3>1, SizedFacts
  <2>9. Less(f.input, 1) \in Sized
    BY <1>1, LessSized
  <2>10. PICK o, l : o = [made EXCEPT !.count = n] /\ l = Less(f.input, 1)
    OBVIOUS
  <2>11. Smelt(cold) = [cold EXCEPT !.output = o, !.input = l, !.banked = TRUE]
    BY <2>3, <2>4, <2>6, <2>10 DEF Smelt
  <2> QED BY <2>2, <2>3, <2>8, <2>9, <2>10, <2>11, OvenIs
<1> QED BY <1>4, <1>5, <1>6, <1>7, <1>8, <1>9

\* A furnace with the slots of a screen put into it.
LEMMA OvenRefilled ==
  ASSUME NEW f \in Ovens, NEW a \in Sized, NEW b \in Sized, NEW c \in Sized
  PROVE  Refilled(f, a, b, c) \in Ovens
<1>1. PICK n : n = IF a.kind = f.input.kind THEN f.cooking ELSE 0
  OBVIOUS
<1>2. n \in 0..CookTicks - 1
  BY <1>1, StacksAssumption, OvenIs
<1>3. PICK p \in BOOLEAN : p = (f.banked /\ c.count >= f.output.count)
  OBVIOUS
<1>4. Refilled(f, a, b, c) = [f EXCEPT !.input = a, !.fuel = b, !.output = c, !.cooking = n, !.banked = p]
  BY <1>1, <1>3 DEF Refilled
<1> QED BY <1>2, <1>4, OvenIs
-----------------------------------------------------------------------------
(***************************************************************************)
(* Between two turns of the session's loop every bench shows what it makes,*)
(* nobody is to be told, and the record would be come back to like that.   *)
(***************************************************************************)
PocketsInv ==
  /\ inv \in Showing({}, {}) /\ inv.changed = {}
  /\ screen \in Windows /\ scene \in Scenes
  /\ cell \in Ovens
  /\ ground \in [Kinds -> Nat]
  /\ recorded \in Records

\* The invariant holds at a player's first join.
LEMMA PocketsInitInv ==
  ASSUME PocketsInit
  PROVE  PocketsInv
<1>1. inv = Fresh /\ screen = "player" /\ scene \in Scenes /\ cell = NewFurnace /\ ground = scene.ground
      /\ recorded = Record(Fresh)
  BY DEF PocketsInit
<1>2. inv \in Showing({}, {}) /\ inv.changed = {} /\ recorded \in Records
  BY <1>1, FreshShows, RecordsWhatShows
<1>3. screen \in Windows
  BY <1>1, SlotFacts DEF Benches
<1>4. cell \in Ovens /\ ground \in [Kinds -> Nat]
  BY <1>1, NewFurnaceIs, PocketsAssumption
<1> QED BY <1>1, <1>2, <1>3, <1>4 DEF PocketsInv

LEMMA ClicksAre ==
  ASSUME NEW w, NEW click \in Clicks(w)
  PROVE  Clicked(w, click)
BY DEF Clicks, Clicked, Modes

LEMMA BareIs ==
  ASSUME NEW i \in Showing({}, {})
  PROVE  Bare(i) \in Showing({}, {}) /\ Bare(i).changed = {}
BY BareShows, BareFacts DEF Showing

\* What every arm of the loop does last: tell, forget what was told, record.
LEMMA BecomesKeeps ==
  ASSUME PocketsInv, NEW i \in Showing({}, {}), Becomes(i)
  PROVE  inv' \in Showing({}, {}) /\ inv'.changed = {} /\ recorded' \in Records
<1>1. inv' = Bare(i)
  BY DEF Becomes, Bare
<1>2. recorded' \in {recorded, Record(i)}
  BY DEF Becomes
<1> QED BY <1>1, <1>2, BareIs, RecordsWhatShows DEF PocketsInv

LEMMA CellSlotsSized ==
  ASSUME cell \in Ovens, NEW slots,
         slots = [furnace_input |-> cell.input, furnace_fuel |-> cell.fuel, furnace_output |-> cell.output]
  PROVE  \A s \in Fuels : slots[s] \in Sized
BY OvenIs DEF Fuels

\* A click in a furnace's screen: mirrored, clicked, mirrored (click_at_furnace).
LEMMA AtFurnaceShows ==
  ASSUME PocketsInv, NEW click, Clicked("furnace", click)
  PROVE  AtFurnace(inv, click) \in Showing({}, {})
<1>1. PICK slots : slots = [furnace_input |-> cell.input, furnace_fuel |-> cell.fuel,
                            furnace_output |-> cell.output]
  OBVIOUS
<1>2. PICK seen : seen = MirrorFurnace(inv, slots)
  OBVIOUS
<1>3. seen \in Showing({}, {})
  BY <1>1, <1>2, CellSlotsSized, MirrorShows DEF PocketsInv
<1>4. PICK after : after = Click(seen, "furnace", click)
  OBVIOUS
<1>5. after \in Showing({}, {})
  BY <1>3, <1>4, SlotFacts, ClickShows
<1>6. PICK ch : ch = after.changed \cup seen.changed
  OBVIOUS
<1>7. ch \in SUBSET (Storage \cup {"cursor"}) /\ after \in Inventory
  BY <1>3, <1>5, <1>6, InventoryIs DEF Showing
<1>8. PICK j : j = [after EXCEPT !.changed = ch]
  OBVIOUS
<1>9. j \in Inventory /\ j.slots = after.slots /\ j.choice = after.choice
  BY ONLY <1>7, <1>8, InventoryIs
<1>10. j \in Showing({}, {})
  BY <1>5, <1>9, Unshown
<1>11. AtFurnace(inv, click) = j
  BY <1>1, <1>2, <1>4, <1>6, <1>8 DEF AtFurnace
<1> QED BY <1>10, <1>11

\* The steps of the session, one by one.
LEMMA DoClickKeeps ==
  ASSUME PocketsInv, NEW click \in Clicks(screen), DoClick(click)
  PROVE  PocketsInv'
<1>1. PICK after : after = IF screen = "furnace" THEN AtFurnace(inv, click) ELSE Click(inv, screen, click)
  OBVIOUS
<1>2. after \in Showing({}, {})
  BY <1>1, ClicksAre, ClickShows, AtFurnaceShows DEF PocketsInv
<1>3. Becomes(after) /\ cell' = (IF screen = "furnace" THEN Left(after) ELSE cell)
      /\ scene' = scene /\ screen' = screen /\ ground' = ground
  BY <1>1 DEF DoClick
<1>4. Left(after) \in Ovens
  <2>1. after.slots["furnace_input"] \in Sized /\ after.slots["furnace_fuel"] \in Sized
        /\ after.slots["furnace_output"] \in Sized
    BY <1>2, InventoryIs, CarriedFacts DEF Showing, Fuels
  <2> QED BY <2>1, OvenRefilled DEF Left, PocketsInv
<1>5. inv' \in Showing({}, {}) /\ inv'.changed = {} /\ recorded' \in Records
  BY <1>2, <1>3, BecomesKeeps
<1>6. cell' \in Ovens
  BY <1>3, <1>4 DEF PocketsInv
<1> QED BY <1>3, <1>5, <1>6 DEF PocketsInv

LEMMA DoButtonKeeps ==
  ASSUME PocketsInv, NEW k \in Kinds, NEW index \in DOMAIN Cuts[k], DoButton(index)
  PROVE  PocketsInv'
<1>1. index \in Nat
  <2>1. Cuts[k] \in Seq(Sized)
    BY InventoryAssumption
  <2> QED BY <2>1
<1>2. PICK after : after = ChooseCut(inv, index)
  OBVIOUS
<1>3. after \in Showing({}, {})
  BY <1>1, <1>2, ChooseCutShows DEF PocketsInv
<1>4. Becomes(after) /\ UNCHANGED <<scene, screen, cell, ground>>
  BY <1>2 DEF DoButton
<1>5. inv' \in Showing({}, {}) /\ inv'.changed = {} /\ recorded' \in Records
  BY <1>3, <1>4, BecomesKeeps
<1> QED BY <1>4, <1>5 DEF PocketsInv

LEMMA OpenKeeps ==
  ASSUME PocketsInv, NEW w \in Windows, Open(w)
  PROVE  PocketsInv'
<1>1. PICK shut, slots : shut = (IF screen = "player" THEN inv ELSE Closed(inv, screen))
        /\ slots = [furnace_input |-> cell.input, furnace_fuel |-> cell.fuel, furnace_output |-> cell.output]
  OBVIOUS
<1>2. shut \in Showing({}, {})
  BY <1>1, ClosedShows DEF PocketsInv
<1>3. PICK bare : bare = ClearFurnaceMirror(shut)
  OBVIOUS
<1>4. bare \in Showing({}, {})
  BY <1>2, <1>3, ClearShows
<1>5. PICK seen : seen = IF w # "furnace" THEN bare ELSE MirrorFurnace(bare, slots)
  OBVIOUS
<1>6. seen \in Showing({}, {})
  <2>1. \A s \in Fuels : slots[s] \in Sized
    BY <1>1, CellSlotsSized DEF PocketsInv
  <2>2. MirrorFurnace(bare, slots) \in Showing({}, {})
    BY <1>4, <2>1, MirrorShows
  <2> QED BY <1>4, <1>5, <2>2
<1>7. inv' = Bare(seen) /\ screen' = w /\ UNCHANGED <<scene, cell, ground, recorded>>
  BY <1>1, <1>3, <1>5 DEF Open, Bare
<1>8. inv' \in Showing({}, {}) /\ inv'.changed = {}
  BY <1>6, <1>7, BareIs
<1> QED BY <1>7, <1>8 DEF PocketsInv

LEMMA CloseKeeps ==
  ASSUME PocketsInv, Close
  PROVE  PocketsInv'
<1>1. PICK after : after = ClearFurnaceMirror(Closed(inv, screen))
  OBVIOUS
<1>2. after \in Showing({}, {})
  BY <1>1, ClosedShows, ClearShows DEF PocketsInv
<1>3. Becomes(after) /\ screen' = "player" /\ UNCHANGED <<scene, cell, ground>>
  BY <1>1 DEF Close
<1>4. inv' \in Showing({}, {}) /\ inv'.changed = {} /\ recorded' \in Records
  BY <1>2, <1>3, BecomesKeeps
<1>5. screen' \in Windows
  BY <1>3, SlotFacts DEF Benches
<1> QED BY <1>3, <1>4, <1>5 DEF PocketsInv

LEMMA SelectKeeps ==
  ASSUME PocketsInv, NEW slot \in DOMAIN Hotbar, Select(slot)
  PROVE  PocketsInv'
<1>1. PICK j : j = [inv EXCEPT !.selected = slot]
  OBVIOUS
<1>2. inv' = j /\ recorded' = Record(j) /\ UNCHANGED <<scene, screen, cell, ground>>
  BY <1>1 DEF Select
<1>3. inv \in Showing({}, {}) /\ inv \in Inventory /\ inv.changed = {}
  BY DEF PocketsInv, Showing
<1>4. j \in Inventory /\ j.slots = inv.slots /\ j.choice = inv.choice /\ j.changed = inv.changed
  BY ONLY <1>1, <1>3, slot \in DOMAIN Hotbar, InventoryIs
<1>5. j \in Showing({}, {})
  BY <1>3, <1>4, Unshown
<1>6. Record(j) \in Records
  BY <1>5, RecordsWhatShows
<1> QED BY <1>2, <1>3, <1>4, <1>5, <1>6 DEF PocketsInv

LEMMA CreativeKeeps ==
  ASSUME PocketsInv, NEW slot \in Range(Owned) \ {"crafting_output"}, NEW stack \in scene.written,
         Creative(slot, stack)
  PROVE  PocketsInv'
<1>1. stack \in Sized
  BY PocketsAssumption DEF PocketsInv
<1>2. PICK after : after = SetCreative(inv, slot, stack)
  OBVIOUS
<1>3. after \in Showing({}, {})
  BY <1>1, <1>2, SetCreativeShows DEF PocketsInv
<1>4. Becomes(after) /\ UNCHANGED <<scene, screen, cell, ground>>
  BY <1>2 DEF Creative
<1>5. inv' \in Showing({}, {}) /\ inv'.changed = {} /\ recorded' \in Records
  BY <1>3, <1>4, BecomesKeeps
<1> QED BY <1>4, <1>5 DEF PocketsInv

LEMMA PickUpKeeps ==
  ASSUME PocketsInv, NEW k \in Kinds, NEW n \in 1..StackSize[k],
         NEW stack, stack = [kind |-> k, count |-> n], PickUp(stack)
  PROVE  PocketsInv'
<1>1. stack \in Sized /\ n \in Nat /\ stack.kind = k /\ stack.count = n
  BY SizedFacts
<1>2. PICK end : end = Place(Bare(inv), stack)
  OBVIOUS
<1>3. Bare(inv) \in Showing({}, {}) /\ Bare(inv) \in Inventory
  BY BareShows DEF PocketsInv, Showing
<1>4. end \in Moving(Bare(inv), Pocket)
  BY <1>1, <1>2, <1>3, PlaceMoves
<1>5. end.left \in Sized /\ Writes(Bare(inv), end.inv, Pocket)
  BY <1>4 DEF Moving
<1>6. end.inv \in Showing({}, {})
  BY <1>3, <1>5, PocketShows
<1>7. /\ ground[k] >= n /\ inv' = Bare(end.inv) /\ recorded' = Record(end.inv)
      /\ ground' = [ground EXCEPT ![k] = ground[k] - n + end.left.count]
      /\ UNCHANGED <<scene, screen, cell>>
  BY <1>1, <1>2 DEF PickUp, Collect, Bare
<1>8. ground' \in [Kinds -> Nat]
  <2>1. ground \in [Kinds -> Nat] /\ ground[k] \in Nat
    BY DEF PocketsInv
  <2>2. end.left.count \in Nat
    BY <1>5, SizedFacts
  <2>3. ground[k] - n + end.left.count \in Nat
    BY <1>1, <1>7, <2>1, <2>2
  <2> QED BY <1>7, <2>1, <2>3
<1>9. inv' \in Showing({}, {}) /\ inv'.changed = {} /\ recorded' \in Records
  BY <1>6, <1>7, BareIs, RecordsWhatShows
<1> QED BY <1>7, <1>8, <1>9 DEF PocketsInv

LEMMA RejoinKeeps ==
  ASSUME PocketsInv, Rejoin
  PROVE  PocketsInv'
<1>1. inv' = Restored(recorded.slots, recorded.selected) /\ screen' = "player"
      /\ UNCHANGED <<scene, cell, ground, recorded>>
  BY DEF Rejoin
<1>2. inv' \in Showing({}, {}) /\ inv'.changed = {}
  BY <1>1, RestoredShows DEF PocketsInv
<1>3. screen' \in Windows
  BY <1>1, SlotFacts DEF Benches
<1> QED BY <1>1, <1>2, <1>3 DEF PocketsInv

LEMMA FurnaceKeeps ==
  ASSUME PocketsInv, Burn1 \/ BreakFurnace \/ BuildFurnace
  PROVE  PocketsInv'
<1>1. CASE Burn1
  <2>1. cell' = FurnaceTick(cell) /\ UNCHANGED <<scene, inv, screen, ground, recorded>>
    BY <1>1 DEF Burn1
  <2>2. cell' \in Ovens
    BY <2>1, OvenTicks DEF PocketsInv
  <2> QED BY <2>1, <2>2 DEF PocketsInv
<1>2. CASE BreakFurnace
  <2>1. ground' = [k \in Kinds |-> ground[k] + In(cell, k)] /\ cell' = NewFurnace
        /\ UNCHANGED <<scene, inv, screen, recorded>>
    BY <1>2 DEF BreakFurnace
  <2>2. ground' \in [Kinds -> Nat]
    <3>1. cell.input \in Sized /\ cell.fuel \in Sized /\ cell.output \in Sized
      BY DEF PocketsInv, Ovens
    <3>2. cell.input.count \in Nat /\ cell.fuel.count \in Nat /\ cell.output.count \in Nat
      BY <3>1, SizedFacts
    <3>3. \A k \in Kinds : In(cell, k) \in Nat
      BY <3>2 DEF In, Count
    <3>4. \A k \in Kinds : ground[k] + In(cell, k) \in Nat
      BY <3>3 DEF PocketsInv
    <3> QED BY <2>1, <3>4
  <2> QED BY <2>1, <2>2, NewFurnaceIs DEF PocketsInv
<1>3. CASE BuildFurnace
  BY <1>3 DEF BuildFurnace, PocketsInv
<1> QED BY <1>1, <1>2, <1>3

\* The invariant is kept by every step.
LEMMA PocketsInvStep ==
  ASSUME PocketsInv, [PocketsNext]_pocketVars
  PROVE  PocketsInv'
<1>1. CASE \E click \in Clicks(screen) : DoClick(click)
  BY <1>1, DoClickKeeps
<1>2. CASE \E k \in Kinds : \E index \in DOMAIN Cuts[k] : DoButton(index)
  BY <1>2, DoButtonKeeps
<1>3. CASE \E w \in Windows : Open(w)
  BY <1>3, OpenKeeps
<1>4. CASE Close
  BY <1>4, CloseKeeps
<1>5. CASE \E slot \in DOMAIN Hotbar : Select(slot)
  BY <1>5, SelectKeeps
<1>6. CASE \E slot \in Range(Owned) \ {"crafting_output"} : \E stack \in scene.written : Creative(slot, stack)
  BY <1>6, CreativeKeeps
<1>7. CASE \E k \in Kinds : \E n \in 1..StackSize[k] : PickUp([kind |-> k, count |-> n])
  BY <1>7, PickUpKeeps
<1>8. CASE Rejoin
  BY <1>8, RejoinKeeps
<1>9. CASE Burn1 \/ BreakFurnace \/ BuildFurnace
  BY <1>9, FurnaceKeeps
<1>10. CASE UNCHANGED pocketVars
  BY <1>10 DEF PocketsInv, pocketVars
<1> QED BY <1>1, <1>2, <1>3, <1>4, <1>5, <1>6, <1>7, <1>8, <1>9, <1>10 DEF PocketsNext

\* A session's inventory, the furnace and the ground are well formed: no slot
\* holds more than a stack, whatever is clicked, given or burnt.
THEOREM PocketsTyped == PocketsSpec => []PocketsTypeOK
<1>1. PocketsInv => PocketsTypeOK
  BY OvenIs DEF PocketsInv, PocketsTypeOK, Showing, Ovens
<1> QED BY <1>1, PocketsInitInv, PocketsInvStep, PTL DEF PocketsSpec

\* Every result shown is what its cells make.
THEOREM ResultsAreMade == PocketsSpec => []ResultsArePictures
<1>1. PocketsInv => ResultsArePictures
  BY DEF PocketsInv, ResultsArePictures, Showing, Pictured, Benches
<1> QED BY <1>1, PocketsInitInv, PocketsInvStep, PTL DEF PocketsSpec
=============================================================================
