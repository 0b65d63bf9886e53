------------------------------ MODULE MCProfiling ------------------------------
(***************************************************************************)
(* Instances of AxfsProfiling: three nodes, of which inode 2 has the first *)
(* one, and inode 1, in a directory, the others.  Faults on inode 2 may    *)
(* lie behind its end, and are then counted for inode 1's first page.  The *)
(* largest buffer takes two rows of the largest size.                      *)
(***************************************************************************)
EXTENDS AxfsProfiling, TLC

CONSTANTS t1, t2

MCPages == 1 :> 2 @@ 2 :> 1
MCArrayIndex == 0 :> 1 @@ 1 :> 1 @@ 2 :> 0
MCFaultPages == 1 :> {0} @@ 2 :> {0, 1}

(* Without faults behind the ends of files, for RowsOwn.                   *)
MCOwnPages == 1 :> {0, 1} @@ 2 :> {0}

(* The hypotheses of the theorem about RowsRight.                          *)
ASSUME MCRoomAssumption == RoomForRow /\ RowsFit
=============================================================================
