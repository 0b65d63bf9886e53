------------------------------ MODULE MCReadpage ------------------------------
(***************************************************************************)
(* Instances of AxfsReadpage: two mounts of one small image.  A page has 2 *)
(* bytes, a decompression buffer 3.  Cblock 0 holds the first two pages of *)
(* file 0 (the second page has one byte, and starts in the middle of the   *)
(* cblock), cblock 1, which is shorter, the page of file 1.  File 2 lies   *)
(* at the end of the byte aligned region, file 3 in the XIP region, file 4 *)
(* in cblock 2, which does not inflate.                                    *)
(***************************************************************************)
EXTENDS AxfsReadpage, Sequences

CONSTANTS m1, m2, t1, t2, t3

(* A table of the image: an array that starts at index 0.                  *)
Array(s) == [i \in 0 .. Len(s) - 1 |-> s[i + 1]]

Image == [
  inode_file_size   |-> Array(<<3, 2, 1, 2, 1>>),
  inode_array_index |-> Array(<<0, 2, 3, 4, 5>>),
  node_type   |-> Array(<<Compressed, Compressed, Compressed, Byte_Aligned,
                          XIP, Compressed>>),
  node_index  |-> Array(<<0, 1, 2, 0, 0, 3>>),
  cnode_offset |-> Array(<<0, 2, 0, 0>>),
  cnode_index  |-> Array(<<0, 0, 1, 2>>),
  banode_offset |-> Array(<<1>>),
  byte_aligned_size |-> 2,
  cblock_size |-> 3,
  cblock_len  |-> Array(<<3, 2, 2>>),
  bad_cblocks |-> {2}]

MCSbi == [m \in Mounts |-> Image]

Page(m, ino, index) == [m |-> m, ino |-> ino, index |-> index]

(* Both cblocks of one mount, one of them and the one that does not        *)
(* inflate of the other, and pages that need no cblock: byte aligned, XIP, *)
(* and beyond the end of the file.                                         *)
MCRequests ==
  {Page(m1, 0, 0), Page(m1, 1, 0), Page(m1, 2, 0), Page(m1, 0, 2),
   Page(m2, 0, 1), Page(m2, 4, 0), Page(m2, 3, 0)}
=============================================================================
