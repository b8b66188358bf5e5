----------------------------- MODULE Residency -----------------------------
(***************************************************************************)
(* The columns the server keeps (net/residency.rs): one reference-counted  *)
(* map shared by every session and every ticker, the guard objects that    *)
(* hold claims on it, and the rule by which columns nobody holds are       *)
(* dropped -- never one at a time, always all of them at once.             *)
(*                                                                         *)
(* Everything between one acquisition of the map's write lock and its      *)
(* release is one step.  `Residence::move_to` acquires it twice, so it is  *)
(* two steps and any other holder may run in between.                      *)
(***************************************************************************)
EXTENDS Integers, FiniteSets

CONSTANTS
  Columns,      \* column positions
  Centres,      \* columns a player can be known to stand in
  Ring,         \* Ring[p]: the columns within RESIDENT_RADIUS of p
  Sessions,     \* the owners of a Residence (a ring that follows a player)
  Holders,      \* the owners of a ColumnClaim: sessions, tickers
  RetiredCap,   \* RETIRED_CAP
  None          \* Option::None, for a Residence that was never placed

ASSUME ResidencyAssumption ==
  /\ IsFiniteSet(Columns)
  /\ Ring \in [Centres -> SUBSET Columns]
  /\ IsFiniteSet(Sessions) /\ IsFiniteSet(Holders)
  /\ RetiredCap \in Nat
  /\ None \notin Centres

VARIABLES
  kept,      \* the map behind the lock, with its carried count
  centre,    \* centre[s]: Residence::centre
  leaving,   \* leaving[s]: the ring move_to has yet to release, or None
  held       \* held[h]: ColumnClaim::held

residencyVars == <<kept, centre, leaving, held>>

-----------------------------------------------------------------------------
(***************************************************************************)
(* Kept: the keys of the map, the keys whose chunk is Some, each key's     *)
(* holder count (0 where there is no key) and the carried number of keys   *)
(* with no holder.  An underflow of the code's usize is a value outside    *)
(* Kept.                                                                   *)
(***************************************************************************)
Kept == [ columns : SUBSET Columns,
          built   : SUBSET Columns,
          holders : [Columns -> Nat],
          retired : Nat ]

Empty == [ columns |-> {},
           built   |-> {},
           holders |-> [c \in Columns |-> 0],
           retired |-> 0 ]

\* The keys nobody holds: what the code counts in `retired`.
Unheld(k) == {c \in k.columns : k.holders[c] = 0}

\* A slip: a column that was never a key is un-retired too.
TakeUnderflowing(k, S) ==
  [ columns |-> k.columns \cup S,
    built   |-> k.built,
    holders |-> [c \in Columns |-> IF c \in S THEN k.holders[c] + 1
                                              ELSE k.holders[c]],
    retired |-> k.retired - Cardinality({c \in S : k.holders[c] = 0}) ]

\* Residency::take, for a set of distinct columns.
Take(k, S) ==
  [ columns |-> k.columns \cup S,
    built   |-> k.built,
    holders |-> [c \in Columns |-> IF c \in S THEN k.holders[c] + 1
                                              ELSE k.holders[c]],
    retired |-> k.retired - Cardinality(S \cap Unheld(k)) ]

\* Residency::give_back, for a set of distinct columns: a key that is not
\* there, or that has no holder, is left alone.
GiveBack(k, S) ==
  LET given == {c \in S \cap k.columns : k.holders[c] > 0}
  IN [ columns |-> k.columns,
       built   |-> k.built,
       holders |-> [c \in Columns |-> IF c \in given THEN k.holders[c] - 1
                                                     ELSE k.holders[c]],
       retired |-> k.retired
                     + Cardinality({c \in given : k.holders[c] = 1}) ]

\* Residency::retire: past the cap every unheld column goes at once.
Retire(k) ==
  IF k.retired > RetiredCap
  THEN [ columns |-> k.columns \ Unheld(k),
         built   |-> k.built \ Unheld(k),
         holders |-> k.holders,
         retired |-> 0 ]
  ELSE k

\* Residency::exchange: additions, then removals, then the cap.
Exchange(k, added, dropped) == Retire(GiveBack(Take(k, added), dropped))

\* Residency::release and release_columns.
Release(k, S) == Retire(GiveBack(k, S))

\* Residency::fill and fill_many: only a key that is there is filled.
Fill(k, S) ==
  [ columns |-> k.columns,
    built   |-> k.built \cup (S \cap k.columns),
    holders |-> k.holders,
    retired |-> k.retired ]

\* Residency::cold_columns and cold: the keys of S with nothing to read yet.
Cold(k, S) == S \cap (k.columns \ k.built)

-----------------------------------------------------------------------------
Init ==
  /\ kept = Empty
  /\ centre = [s \in Sessions |-> None]
  /\ leaving = [s \in Sessions |-> None]
  /\ held = [h \in Holders |-> {}]

\* The ring of a place, if it is one.
RingAt(p) == IF p = None THEN {} ELSE Ring[p]

\* A slip: the old ring is given up before the new one is claimed.
HoldAfterRelease(s, p) ==
  /\ leaving[s] = None
  /\ centre[s] # p
  /\ kept' = Take(Release(kept, RingAt(centre[s])), Ring[p])
  /\ centre' = [centre EXCEPT ![s] = p]
  /\ UNCHANGED <<leaving, held>>

\* Residence::move_to, first acquisition: the new ring is claimed.  A session
\* that was never placed has nothing to give up afterwards.
Hold(s, p) ==
  /\ leaving[s] = None
  /\ centre[s] # p
  /\ kept' = Take(kept, Ring[p])
  /\ centre' = [centre EXCEPT ![s] = p]
  /\ leaving' = [leaving EXCEPT ![s] = centre[s]]
  /\ UNCHANGED held

\* Residence::move_to, second acquisition: the previous ring is given up.
LeaveOld(s) ==
  /\ leaving[s] # None
  /\ kept' = Release(kept, Ring[leaving[s]])
  /\ leaving' = [leaving EXCEPT ![s] = None]
  /\ UNCHANGED <<centre, held>>

\* Drop for Residence: however the session ends.
DropResidence(s) ==
  /\ leaving[s] = None
  /\ centre[s] # None
  /\ kept' = Release(kept, Ring[centre[s]])
  /\ centre' = [centre EXCEPT ![s] = None]
  /\ UNCHANGED <<leaving, held>>

\* A slip: what was held already is taken once more.
SetClaimRetaking(h, wanted) ==
  /\ wanted # held[h]
  /\ kept' = Exchange(kept, wanted, held[h] \ wanted)
  /\ held' = [held EXCEPT ![h] = wanted]
  /\ UNCHANGED <<centre, leaving>>

\* ColumnClaim::set: an unchanged set costs a comparison and nothing else.
SetClaim(h, wanted) ==
  /\ wanted # held[h]
  /\ kept' = Exchange(kept, wanted \ held[h], held[h] \ wanted)
  /\ held' = [held EXCEPT ![h] = wanted]
  /\ UNCHANGED <<centre, leaving>>

\* Drop for ColumnClaim.
DropClaim(h) ==
  /\ held[h] # {}
  /\ kept' = Release(kept, held[h])
  /\ held' = [held EXCEPT ![h] = {}]
  /\ UNCHANGED <<centre, leaving>>

\* fill_many from whichever thread built S.
FillMany(S) ==
  /\ S # {}
  /\ kept' = Fill(kept, S)
  /\ UNCHANGED <<centre, leaving, held>>

Next ==
  \/ \E s \in Sessions :
       \/ \E p \in Centres : Hold(s, p)
       \/ LeaveOld(s)
       \/ DropResidence(s)
  \/ \E h \in Holders :
       \/ \E wanted \in SUBSET Columns : SetClaim(h, wanted)
       \/ DropClaim(h)
  \/ \E S \in SUBSET Columns : FillMany(S)

Spec == Init /\ [][Next]_residencyVars

-----------------------------------------------------------------------------
(***************************************************************************)
(* Every claim there is on the map, as a set of slots.  A session mid-move *)
(* holds two rings.                                                        *)
(***************************************************************************)
Slots == ({"ring", "old"} \X Sessions) \cup ({"claim"} \X Holders)

\* Covers[slot]: the columns a claim is a claim on.
Covers ==
  [ slot \in Slots |-> IF slot[1] = "claim" THEN held[slot[2]]
                       ELSE IF slot[1] = "ring" THEN RingAt(centre[slot[2]])
                       ELSE RingAt(leaving[slot[2]]) ]

\* The slots of f that cover c, and the claims on c there are now.
SlotsOn(f, c) == {slot \in Slots : c \in f[slot]}
ClaimsOn(c) == SlotsOn(Covers, c)

TypeOK ==
  /\ kept \in Kept
  /\ centre \in [Sessions -> Centres \cup {None}]
  /\ leaving \in [Sessions -> Centres \cup {None}]
  /\ held \in [Holders -> SUBSET Columns]

\* `holders` is exactly the number of live claims that cover a column, whatever
\* moves, drops and wholesale retirements came before (residency.rs, take and
\* give_back): no claim is counted twice, forgotten, or given back twice.
RefcountExact ==
  \A c \in Columns : kept.holders[c] = Cardinality(ClaimsOn(c))

\* A column some claim covers is in the map: a wholesale retirement never takes
\* a column from under its holder (residency.rs, retire).
HeldIsKept ==
  \A slot \in Slots : Covers[slot] \subseteq kept.columns

\* A map whose carried count is right, and which says nothing of absent keys.
CountExact(k) ==
  /\ k.retired = Cardinality(Unheld(k))
  /\ k.built \subseteq k.columns
  /\ \A c \in Columns \ k.columns : k.holders[c] = 0

\* The carried `retired` is the number of keys with no holder: the count that
\* replaced a scan of the map cannot drift or underflow (residency.rs, Kept).
RetiredExact == CountExact(kept)

\* Columns nobody holds never outlast a release in numbers past the cap, so a
\* walk that does not come back costs a bounded amount of memory.
RetiredBounded == Cardinality(Unheld(kept)) <= RetiredCap

\* The inductive invariant: none of its parts is inductive without the others.
\* A give_back is exact only where the count is not zero already, which is what
\* RefcountExact says of a claim about to be given up; and the count of unheld
\* keys moves by what CountExact says of the counts.
IInv == TypeOK /\ RefcountExact /\ RetiredExact /\ RetiredBounded

\* A step never takes a built column away from somebody who held it before the
\* step and holds it after: a player who steps across a boundary does not have
\* the columns of both rings rebuilt (residency.rs, move_to and exchange).
HeldStaysBuilt ==
  [][ \A c \in kept.built :
        (ClaimsOn(c) # {} /\ ClaimsOn(c)' # {}) => c \in kept'.built
    ]_residencyVars
=============================================================================
