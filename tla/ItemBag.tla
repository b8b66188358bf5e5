------------------------------ MODULE ItemBag ------------------------------
(***************************************************************************)
(* What a player may rely on of their items, whatever slots there are: how *)
(* many of each kind there may be after an operation, given how many there *)
(* were.  Nothing is made but by a recipe, a copy or a creative write, and *)
(* nothing goes but by being spent, thrown, or having no room.             *)
(***************************************************************************)
EXTENDS Integers, Functions

CONSTANTS
  Kinds,
  Trades,     \* [spent, made, left: bags]: what one craft or one burn does
  MostTrades  \* no operation does more of one trade than this

VARIABLES
  bag,        \* bag[k]: how many k there are
  room,       \* the kinds the player's pockets could take one more of
  op          \* the operation that led here

vars == <<bag, room, op>>
Size(b) == SumFunction(b)

\* All of `from` but what there was no room for.
Kept(from) ==
  \A k \in Kinds : bag'[k] <= from[k] /\ (bag'[k] < from[k] => k \notin room')

SameBut(S) == \A k \in Kinds \ S : bag'[k] = bag[k]

\* What may come of one trade, and of any number up to n.  What a trade makes
\* may be thrown away.
After(b, keeping) ==
  { [k \in Kinds |-> b[k] - t.spent[k] + t.left[k] + IF keeping THEN t.made[k] ELSE 0] :
      t \in {u \in Trades : \A k \in Kinds : u.spent[k] <= b[k]} }

UpTo(n) ==
  LET Bags[i \in 0..n] ==
        IF i = 0 THEN {bag}
        ELSE Bags[i - 1] \cup UNION {After(b, TRUE) : b \in Bags[i - 1]}
  IN Bags[n]

-----------------------------------------------------------------------------
Init == bag \in [Kinds -> Nat] /\ room \in SUBSET Kinds /\ op = "join"

Move == op' = "move" /\ bag' = bag
Stow == op' = "stow" /\ Kept(bag)
Craft == op' = "craft" /\ \E b \in UpTo(MostTrades) : Kept(b)
Waste == op' = "waste" /\ \E b \in {bag} \cup After(bag, FALSE) : Kept(b)
Fire == op' = "fire" /\ bag' \in UpTo(2)
Discard == op' = "discard" /\ \E j \in Kinds : bag'[j] <= bag[j] /\ SameBut({j})
Copy == op' = "copy" /\ \E j \in Kinds : bag'[j] \in bag[j]..(IF bag[j] > 0 THEN bag'[j] ELSE 0) /\ SameBut({j})
Conjure == op' = "conjure" /\ \E i, j \in Kinds : bag'[i] <= bag[i] /\ SameBut({i, j})

\* A drag over slots that filled meanwhile: what they held becomes more of
\* what is dragged.
Blur ==
  /\ op' = "blur"
  /\ Size(bag') >= Size(bag)
  /\ \E j \in Kinds : \A k \in Kinds \ {j} : bag'[k] <= bag[k]

\* Leaving and coming back duplicates nothing.
Leave == op' = "leave" /\ \A k \in Kinds : bag'[k] <= bag[k]

Next ==
  \/ Move \/ Stow \/ Craft \/ Waste \/ Fire
  \/ Discard \/ Copy \/ Conjure \/ Blur \/ Leave

Spec == Init /\ [][Next]_vars
=============================================================================
