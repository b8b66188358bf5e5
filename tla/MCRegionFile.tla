---------------------------- MODULE MCRegionFile ----------------------------
(***************************************************************************)
(* Two chunks and two payloads, of two sectors and too big for the header  *)
(* to describe: one that stays beside has a stub of one sector.            *)
(*                                                                         *)
(* No read can see what a sector holds that no entry and no call names, so *)
(* states that differ there alone are one state to TLC.  The schemes are   *)
(* told apart only by comparing them, so they are alike.                   *)
(***************************************************************************)
EXTENDS RegionFile, TLC

MCPayloads == {"large", "huge"}
MCSize == [large |-> 2, huge |-> 3]
Alike == Permutations(Schemes)

Named ==
  UNION {Run(disk.locs[c]) \cup Run(file.locs[c]) : c \in Chunks}
    \cup IF op.at = "sectors" THEN NewRun ELSE {}

MCView ==
  << disk.locs, disk.beside, file, op, tried, failed,
     [s \in Sectors |-> IF s \in Named \/ disk.data[s] = Blank THEN disk.data[s]
                        ELSE Garbage] >>
=============================================================================
