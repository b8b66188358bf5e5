----------------------------- MODULE MCFurnaces -----------------------------
(***************************************************************************)
(* One thing that cooks in four ticks, on a fuel that burns for three: the *)
(* second piece has to be put in before it has cooled.                     *)
(***************************************************************************)
EXTENDS Furnaces

MCKinds == {"ore", "coal", "bar"}
MCStackSize == [ore |-> 2, coal |-> 1, bar |-> 1]
MCRemainder == [ore |-> NoKind, coal |-> NoKind, bar |-> NoKind]
MCBurn == [ore |-> 0, coal |-> 3, bar |-> 0]
MCCooked == [ore |-> One("bar"), coal |-> Empty, bar |-> Empty]
MCInputs == {One("ore")}
MCFuels == {One("coal")}
=============================================================================
