------------------------------ MODULE ChunkMap ------------------------------
(***************************************************************************)
(* What a file of chunks promises to whoever opens it after an accident at *)
(* any moment: for each chunk, what was last stored or something that was  *)
(* tried since; and once a call has answered well, what it stored.  A call *)
(* that spoils what is there before it replaces it says so as it begins.   *)
(***************************************************************************)
CONSTANTS Chunks, Payloads, None,
          Garbage       \* what reads as no payload at all

VARIABLES
  stored,   \* stored[c]: what is read of c by whoever opens the file now
  tried,    \* tried[c]: what calls that have not answered well would store
  doing     \* the call under way, or None

vars == <<stored, tried, doing>>

Value == Payloads \cup {None}

Init ==
  /\ stored = [c \in Chunks |-> None]
  /\ tried = [c \in Chunks |-> {}]
  /\ doing = None

Begin(c, v, spoils) ==
  /\ doing = None
  /\ doing' = [chunk |-> c, value |-> v]
  /\ tried' = [tried EXCEPT ![c] = @ \cup {v} \cup (IF spoils THEN {Garbage} ELSE {})]
  /\ UNCHANGED stored

Changes == \A c \in Chunks : stored'[c] \in {stored[c]} \cup tried[c]

Work == doing # None /\ Changes /\ UNCHANGED <<tried, doing>>

Succeed ==
  /\ doing # None /\ doing' = None
  /\ stored[doing.chunk] = doing.value
  /\ tried' = [tried EXCEPT ![doing.chunk] = {}]
  /\ UNCHANGED stored

\* An error, or the power: what was begun may be there or not.
GiveUp == doing' = None /\ Changes /\ UNCHANGED tried

\* Once the file is open again, what was tried before is over.
Settle ==
  /\ doing = None
  /\ tried' = [c \in Chunks |-> {}]
  /\ UNCHANGED <<stored, doing>>

Next ==
  \/ \E c \in Chunks : \E v \in Value : \E spoils \in BOOLEAN : Begin(c, v, spoils)
  \/ Work \/ Succeed \/ GiveUp \/ Settle

Spec == Init /\ [][Next]_vars
=============================================================================
