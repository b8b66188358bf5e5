--------------------------- MODULE MCWorldUpdates ---------------------------
(***************************************************************************)
(* Columns of six cells.  Three are at rest: sand on stone with more sand  *)
(* on top of it, sand with a torch on it, and a small tree; one was        *)
(* generated with sand over a cave and a leaf far from its log.            *)
(***************************************************************************)
EXTENDS WorldUpdates

Stone == Plain("stone")
SandBlock == Plain("sand")
Torch == Plain("torch")
Log == Plain("log")
Leaf(far) == [kind |-> "leaf", far |-> far, kept |-> FALSE]
Hedge(far) == [kind |-> "leaf", far |-> far, kept |-> TRUE]

Column(s) == [c \in Cells |-> IF c < Len(s) THEN s[c + 1] ELSE Air]

SandHeldTwice == Column(<<Stone, Stone, SandBlock, Stone, SandBlock>>)
SandAndTorch == Column(<<Stone, Stone, SandBlock, SandBlock, Torch>>)
Tree == Column(<<Stone, Log, Leaf(1), Leaf(2), Leaf(3)>>)

Overhang == Column(<<Stone, Air, SandBlock, Torch, Leaf(2)>>)

MCWorlds == {SandHeldTwice, SandAndTorch, Tree, Overhang}
MCHeld == {SandBlock, Hedge(Reach)}
=============================================================================
