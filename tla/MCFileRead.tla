------------------------------ MODULE MCFileRead ------------------------------
(***************************************************************************)
(* Instances of AxfsFileRead: one image whose pages have 2 bytes.  File 0  *)
(* is all XIP, file 1 all compressed, file 2 mixed (XIP, compressed, byte  *)
(* aligned, XIP); their last pages are whole, half full and half full.     *)
(* File 3 is empty, and the last of the node table.                        *)
(***************************************************************************)
EXTENDS AxfsFileRead, Sequences

CONSTANT m1

Array(s) == [i \in 0 .. Len(s) - 1 |-> s[i + 1]]

Image == [
  inode_file_size   |-> Array(<<6, 3, 7, 0>>),
  inode_array_index |-> Array(<<0, 3, 5, 9>>),
  node_type  |-> Array(<<XIP, XIP, XIP, Compressed, Compressed,
                         XIP, Compressed, Byte_Aligned, XIP>>),
  node_index |-> Array(<<2, 0, 1, 0, 1, 3, 2, 0, 4>>),
  cnode_offset |-> Array(<<0, 2, 1>>),
  cnode_index  |-> Array(<<0, 0, 1>>),
  banode_offset |-> Array(<<1>>),
  byte_aligned_size |-> 3,
  cblock_size |-> 3,
  cblock_len  |-> Array(<<3, 3>>),
  bad_cblocks |-> {}]

MCSbi == [m \in Mounts |-> Image]

MaxLen == 9

Reads(inos, offsets) ==
  {[m |-> m1, ino |-> ino, pos |-> p, len |-> n] :
     ino \in inos, p \in offsets, n \in 0 .. MaxLen}

InBounds(c) == c.pos <= Image.inode_file_size[c.ino]

(* A piece that starts inside an XIP page and runs into a page of another  *)
(* type: what the passing run leaves out.                                  *)
CrossesOut(c) ==
  c.pos % PAGE_CACHE_SIZE # 0 /\ c.ino = 2

(* Any aligned read, and any read of a file of one type.                   *)
MCCalls == {c \in Reads({0, 1, 2, 3}, 0 .. 7) : InBounds(c) /\ ~CrossesOut(c)}

(* They are calls of the kind that the theorems speak of.                  *)
ASSUME MCCallsAssumption ==
  Calls = MCCalls =>
    \A c \in Calls : Stored(c) /\ Uncrossed(c) /\ c.pos <= TotalFileSize(c)

(* Any read of the mixed file.                                             *)
MCCallsMixed == {c \in Reads({2}, 0 .. 7) : InBounds(c)}

(* Reads that start beyond the end of the file as well.                    *)
MCCallsBeyond == Reads({1, 3}, 0 .. 5)
=============================================================================
