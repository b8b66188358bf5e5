---------------------------- MODULE MCResidency ----------------------------
(***************************************************************************)
(* Residency on a strip of four columns.  Standing in p reaches the column *)
(* on either side of p, so the rings of neighbouring centres overlap, as   *)
(* six of the nine columns do in the code.                                 *)
(***************************************************************************)
EXTENDS Residency

MCColumns == 1..4
MCCentres == {2, 3}
MCRing == [p \in MCCentres |-> {p - 1, p, p + 1}]
=============================================================================
