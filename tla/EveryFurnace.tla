---------------------------- MODULE EveryFurnace ----------------------------
(***************************************************************************)
(* What the furnaces promise, with no indices, no lists and no forgetting: *)
(* there is a furnace at every block, every one of them burns at every     *)
(* tick, and nothing else moves but what a session does at one block or a  *)
(* pickaxe takes away.                                                     *)
(***************************************************************************)
EXTENDS Furnace

CONSTANT Blocks

VARIABLE furnaces

Init == furnaces = [b \in Blocks |-> NewFurnace]

\* A session's turn at one: stacks come and go, and only the stacks.
Serve(b) ==
  LET f == furnaces'[b]
  IN furnaces' = [furnaces EXCEPT ![b] = Refilled(@, f.input, f.fuel, f.output)]

Forget(b) == furnaces' = [furnaces EXCEPT ![b] = NewFurnace]

BurnAll == furnaces' = [b \in Blocks |-> FurnaceTick(furnaces[b])]

Next == (\E b \in Blocks : Serve(b) \/ Forget(b)) \/ BurnAll

Spec == Init /\ [][Next]_furnaces
=============================================================================
