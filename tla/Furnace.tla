------------------------------ MODULE Furnace ------------------------------
(***************************************************************************)
(* One furnace (struct Furnace, net/furnaces.rs): three stacks, the ticks  *)
(* its fire has left, the ticks its input has cooked, and whether it has   *)
(* experience to pay (how much is left out).  Pure operators: Furnaces has *)
(* the world of them and Pockets the player at one.                        *)
(***************************************************************************)
EXTENDS Stacks

\* How long a fire may have left: what its fuel gave it, or less.
Fire == {0} \cup UNION {0..Burn[k] : k \in Kinds}

\* `total` is a constant once cooking has begun, and `lit_total` is drawing.
FurnaceState ==
  [ input : Stack \cup {Empty}, fuel : Stack \cup {Empty}, output : Stack \cup {Empty},
    lit : Fire, cooking : 0..CookTicks - 1, banked : BOOLEAN ]

NewFurnace == [input |-> Empty, fuel |-> Empty, output |-> Empty, lit |-> 0, cooking |-> 0,
               banked |-> FALSE]

HasRecipe(f) == f.input # Empty /\ Cooked[f.input.kind] # Empty

\* Nothing in it, no fire and nothing to pay: what is forgotten of a furnace.
IsBare(f) == f = NewFurnace

\* A slip: a cold furnace that could be lit has nothing to do.
IsActiveOnceLit(f) == f.lit > 0 \/ f.cooking > 0

IsActive(f) ==
  \/ f.lit > 0
  \/ f.cooking > 0
  \/ HasRecipe(f) /\ f.fuel # Empty /\ f.fuel.kind \in Burning

CanBurn(f) ==
  /\ HasRecipe(f)
  /\ LET made == Cooked[f.input.kind]
     IN /\ f.output.kind \in {NoKind, made.kind}
        /\ f.output.count + made.count <= StackSize[made.kind]

Light(f) ==
  IF f.fuel = Empty \/ f.fuel.kind \notin Burning THEN f
  ELSE [f EXCEPT !.lit = Burn[f.fuel.kind],
                 !.fuel = IF f.fuel.count > 1 THEN Less(f.fuel, 1)
                          ELSE IF Remainder[f.fuel.kind] = NoKind THEN Empty
                          ELSE One(Remainder[f.fuel.kind])]

\* Every recipe is worth some experience.
Smelt(f) ==
  LET made == Cooked[f.input.kind]
  IN [f EXCEPT !.output = [made EXCEPT !.count = f.output.count + made.count],
               !.input = Less(f.input, 1),
               !.banked = TRUE]

\* One tick: the fire burns down, another piece of fuel is lit for an input
\* that has somewhere to go, and that input cooks; what does not cook cools.
CoolSpeed == 2

Cool(f) ==
  [f EXCEPT !.cooking = IF f.cooking <= CoolSpeed THEN 0 ELSE f.cooking - CoolSpeed]

FurnaceTick(f) ==
  LET burnt == [f EXCEPT !.lit = IF @ > 0 THEN @ - 1 ELSE 0]
      tended == burnt.lit > 0 \/ (f.fuel # Empty /\ f.input # Empty)
      hot == IF burnt.lit = 0 /\ CanBurn(f) THEN Light(burnt) ELSE burnt
  IN IF ~tended THEN Cool(burnt)
     ELSE IF hot.lit = 0 \/ ~CanBurn(f) THEN [hot EXCEPT !.cooking = 0]
     ELSE IF hot.cooking + 1 < CookTicks THEN [hot EXCEPT !.cooking = @ + 1]
     ELSE Smelt([hot EXCEPT !.cooking = 0])

\* What a session leaves in the slots: an input of another kind starts over,
\* and taking any of the output pays all that was banked.
Refilled(f, input, fuel, output) ==
  [f EXCEPT !.input = input, !.fuel = fuel, !.output = output,
            !.cooking = IF input.kind = f.input.kind THEN @ ELSE 0,
            !.banked = @ /\ output.count >= f.output.count]
=============================================================================
