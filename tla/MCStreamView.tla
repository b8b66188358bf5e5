---------------------------- MODULE MCStreamView ----------------------------
(***************************************************************************)
(* A player who walks one step, with a view of one or two columns.  Half,  *)
(* nearly all and all of the narrow square may be ready, and all of the    *)
(* wide one.                                                               *)
(***************************************************************************)
EXTENDS StreamView

OneStep == {<<0, 0>>, <<1, 0>>}
Requests == {-1, 0, 1, 3}
Prefixes == {0, 4, 8, 25}
=============================================================================
