-------------------------------- MODULE MCMmap --------------------------------
(***************************************************************************)
(* Instances of AxfsMmap: a mount with files of pages of all types, and    *)
(* one whose physical address is not known; two tasks that map, one that   *)
(* reads the log, and a log of two records.                                *)
(*                                                                         *)
(* Pages have two bytes.  File 0 has the nodes 0 .. 2, of which it fills   *)
(* the last in half, file 1 the nodes 3 and 4; one node follows.           *)
(***************************************************************************)
EXTENDS AxfsMmap, TLC

CONSTANTS m1, m2, t1, t2, r1

MCsbi ==
  [m \in {m1, m2} |->
    [inode_file_size |-> (0 :> 5 @@ 1 :> 4),
     inode_array_index |-> (0 :> 0 @@ 1 :> 3),
     node_type |-> (0 :> 0 @@ 1 :> 1 @@ 2 :> 0 @@ 3 :> 0 @@ 4 :> 2 @@ 5 :> 0),
     node_index |-> (0 :> 0 @@ 1 :> 0 @@ 2 :> 2 @@ 3 :> 1 @@ 4 :> 0 @@ 5 :> 3),
     cnode_offset |-> (0 :> 0),
     cnode_index |-> (0 :> 0),
     banode_offset |-> (0 :> 0),
     byte_aligned_size |-> 2,
     cblock_size |-> 2,
     cblock_len |-> (0 :> 2),
     bad_cblocks |-> {}]]

(* The XIP region is in the kernel's linear mapping, two pages into a      *)
(* device that starts one page into the memory.                            *)
MCphys == (m1 :> 2 @@ m2 :> 0)
MCfsoffset == (m1 :> 4 @@ m2 :> 4)
MCvirt == (m1 :> 106 @@ m2 :> 106)

Request(m, ino, pgoff, pages) ==
  [m |-> m, ino |-> ino, pgoff |-> pgoff, pages |-> pages,
   write |-> FALSE, shared |-> FALSE, maywrite |-> TRUE]
Shared(q) == [q EXCEPT !.shared = TRUE, !.maywrite = FALSE]

(* t1 maps more than a file, and tries the ways out of axfs_mmap; t2 maps  *)
(* a portion that ends beyond its file.                                    *)
MCRequests ==
  (t1 :> {Request(m1, 1, 0, 3), Shared(Request(m2, 0, 0, 1)),
          [Request(m1, 1, 0, 1) EXCEPT !.write = TRUE],
          [Request(m1, 1, 0, 1) EXCEPT !.shared = TRUE]}) @@
  (t2 :> {Shared(Request(m1, 0, 2, 2))})

ASSUME MCRoomAssumption == RoomForHeading
ASSUME MCMapsAssumption == FilesInTable /\ RegionLinear
=============================================================================
