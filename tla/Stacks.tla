------------------------------- MODULE Stacks -------------------------------
(***************************************************************************)
(* Stacks of items, and what the tables the server was started with say of *)
(* them: how high they stack, what burns, what cooks, what crafting leaves.*)
(*                                                                         *)
(* A kind is an item with its components, so that two stacks join exactly  *)
(* when their kinds are equal (Stack::stacks_with, net/inventory.rs).      *)
(***************************************************************************)
EXTENDS Integers, Sequences

CONSTANTS
  Kinds,
  StackSize,      \* StackSize[k]: Item::max_stack_size
  Remainder,      \* Remainder[k]: what crafting or burning leaves of it
  Burn,           \* Burn[k]: the ticks it burns in a furnace, 0 if it does not
  Cooked,         \* Cooked[k]: the stack it is smelted into, or Empty
  CookTicks       \* how long that takes

NoKind == "nothing"
Empty == [kind |-> NoKind, count |-> 0]
Stack == [kind : Kinds, count : Nat \ {0}]

ASSUME StacksAssumption ==
  /\ NoKind \notin Kinds
  /\ StackSize \in [Kinds -> Nat \ {0}]
  /\ Remainder \in [Kinds -> Kinds \cup {NoKind}]
  /\ Burn \in [Kinds -> Nat]
  /\ Cooked \in [Kinds -> Stack \cup {Empty}]
  /\ CookTicks \in Nat \ {0}

Burning == {k \in Kinds : Burn[k] > 0}

One(kind) == [kind |-> kind, count |-> 1]
More(stack, n) == [stack EXCEPT !.count = @ + n]
Less(stack, n) == IF stack.count <= n THEN Empty ELSE [stack EXCEPT !.count = @ - n]
Lower(a, b) == IF a < b THEN a ELSE b

\* FoldLeft of SequencesExt, which is cubic as TLC evaluates it: every click
\* goes through several runs of slots.
Through(Op(_, _), base, run) ==
  LET upTo[n \in 0..Len(run)] == IF n = 0 THEN base ELSE Op(upTo[n - 1], run[n])
  IN upTo[Len(run)]
=============================================================================
