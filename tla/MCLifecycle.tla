---------------------------- MODULE MCLifecycle ----------------------------
(***************************************************************************)
(* One player and one thread that asks for the stop, in a process that may *)
(* be started again on the same disk: a second of either adds no new way   *)
(* for two steps to meet, since sessions meet only in what they change and *)
(* the second to ask goes away at once.                                    *)
(***************************************************************************)
EXTENDS Lifecycle
=============================================================================
