--------------------------- MODULE MCColumnStore ---------------------------
(***************************************************************************)
(* The column store on a short strip of columns, where the ring of a       *)
(* centre is the centre and its right-hand neighbour.                      *)
(***************************************************************************)
EXTENDS ColumnStore

MCRing == [p \in Centres |-> {p, p + 1} \cap Columns]
=============================================================================
