------------------------------ MODULE MCItems ------------------------------
(***************************************************************************)
(* Two neighbouring columns: an item may fall from one into the other.     *)
(***************************************************************************)
EXTENDS Items
=============================================================================
