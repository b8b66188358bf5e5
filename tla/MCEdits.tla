------------------------------ MODULE MCEdits ------------------------------
(***************************************************************************)
(* Every cell is beside every other: a fence in one reads the others.      *)
(***************************************************************************)
EXTENDS Edits

SideBySide == [c \in Cells |-> SetToSeq(Cells \ {c})]

OpenAir == [Cells -> {"air"}]
AnyGround == [Cells -> {"air", "stone"}]
=============================================================================
