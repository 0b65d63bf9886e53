------------------------------ MODULE AxfsImage ------------------------------
(***************************************************************************)
(* What a mounted AXFS image holds, as the read paths see it: the metadata *)
(* tables that axfs_fs.h reads through its AXFS_GET_ macros, and the three *)
(* kinds of node a page of a file can be stored in (XIP, compressed, byte  *)
(* aligned).                                                               *)
(*                                                                         *)
(* The tables are functions from an index to a value; the media is not a   *)
(* byte array but a name for each byte (ImageByte), so that two bytes are  *)
(* equal exactly when they are the same byte of the same image.            *)
(***************************************************************************)
EXTENDS Integers

CONSTANTS
  Mounts,          \* the mounted images, each with its own superblock
  PAGE_CACHE_SIZE, \* bytes in a page
  sbi              \* sbi[m]: the in-core superblock of mount m

(* enum axfs_node_types *)
XIP          == 0
Compressed   == 1
Byte_Aligned == 2

(***************************************************************************)
(* sbi[m] is a record:                                                     *)
(*   inode_file_size, inode_array_index   tables over the inode numbers    *)
(*   node_type, node_index                tables over the node numbers     *)
(*   cnode_offset, cnode_index            tables over the compressed nodes *)
(*   banode_offset                        table over byte aligned nodes    *)
(*   byte_aligned_size                    bytes in the byte aligned region *)
(*   cblock_size                          bytes in a decompression buffer  *)
(*   cblock_len                           bytes cblock c decompresses to   *)
(*   bad_cblocks                          cblocks that do not inflate      *)
(* The image builder is not in the repository: TablesOK says what the code *)
(* relies on.                                                              *)
(***************************************************************************)
SuperFields == {"inode_file_size", "inode_array_index", "node_type",
                "node_index", "cnode_offset", "cnode_index", "banode_offset",
                "byte_aligned_size", "cblock_size", "cblock_len",
                "bad_cblocks"}

(* A page of a file: page->mapping->host and page->index.                  *)
IsPage(r) ==
  /\ r.m \in Mounts
  /\ r.ino \in DOMAIN sbi[r.m].inode_file_size
  /\ r.index \in Nat

-----------------------------------------------------------------------------
(* The AXFS_GET_ macros, for page r.                                       *)

FileSize(r)   == sbi[r.m].inode_file_size[r.ino]
ArrayIndex(r) == sbi[r.m].inode_array_index[r.ino] + r.index
NodeType(r)   == sbi[r.m].node_type[ArrayIndex(r)]
NodeIndex(r)  == sbi[r.m].node_index[ArrayIndex(r)]
CnodeIndex(r)  == sbi[r.m].cnode_index[NodeIndex(r)]
CnodeOffset(r) == sbi[r.m].cnode_offset[NodeIndex(r)]
BanodeOffset(r) == sbi[r.m].banode_offset[NodeIndex(r)]

(* The number of pages of the file, rounded up: axfs_readpage's maxblock.  *)
MaxBlock(r) == (FileSize(r) + PAGE_CACHE_SIZE - 1) \div PAGE_CACHE_SIZE

InFile(r) == r.index < MaxBlock(r)

(* How many bytes of page r are bytes of the file.                         *)
FileBytes(r) ==
  LET rest == FileSize(r) - r.index * PAGE_CACHE_SIZE
  IN  IF rest < PAGE_CACHE_SIZE THEN rest ELSE PAGE_CACHE_SIZE

-----------------------------------------------------------------------------
(* Names of bytes.                                                         *)

ImageByte(region, m, block, i) == <<region, m, block, i>>
Zero == <<"zero", 0, 0, 0>>
Junk == <<"junk", 0, 0, 0>>

CBlockByte(m, c, i) == ImageByte("cblock", m, c, i)
BAByte(m, i)        == ImageByte("byte_aligned", m, 0, i)
XIPByte(m, i)       == ImageByte("xip", m, 0, i)

(* Byte i of the node that stores page r.                                  *)
NodeByte(r, i) ==
  CASE NodeType(r) = Compressed ->
         CBlockByte(r.m, CnodeIndex(r), CnodeOffset(r) + i)
    [] NodeType(r) = Byte_Aligned -> BAByte(r.m, BanodeOffset(r) + i)
    [] OTHER -> XIPByte(r.m, NodeIndex(r) * PAGE_CACHE_SIZE + i)

-----------------------------------------------------------------------------
(* What the code relies on of the tables of image s.                       *)
TablesOK(s) ==
  /\ DOMAIN s = SuperFields
  /\ s.cblock_size \in Nat \ {0}
  /\ s.byte_aligned_size \in Nat
  /\ s.inode_array_index \in [DOMAIN s.inode_file_size -> Nat]
  /\ s.inode_file_size \in [DOMAIN s.inode_file_size -> Nat]
  /\ s.node_type \in [DOMAIN s.node_type -> {XIP, Compressed, Byte_Aligned}]
  /\ s.node_index \in [DOMAIN s.node_type -> Nat]
  /\ s.cnode_index \in [DOMAIN s.cnode_offset -> DOMAIN s.cblock_len]
  /\ s.cnode_offset \in [DOMAIN s.cnode_offset -> Nat]
  /\ s.banode_offset \in [DOMAIN s.banode_offset -> Nat]
  /\ DOMAIN s.cblock_len \subseteq Nat
  /\ s.cblock_len \in [DOMAIN s.cblock_len -> 1 .. s.cblock_size]
  /\ s.bad_cblocks \subseteq DOMAIN s.cblock_len

(* Page r is stored in a node that holds all of its bytes.                 *)
StoredOK(r) ==
  /\ ArrayIndex(r) \in DOMAIN sbi[r.m].node_type
  /\ NodeType(r) = Compressed =>
       /\ NodeIndex(r) \in DOMAIN sbi[r.m].cnode_offset
       /\ CnodeOffset(r) + FileBytes(r) <= sbi[r.m].cblock_len[CnodeIndex(r)]
  /\ NodeType(r) = Byte_Aligned =>
       /\ NodeIndex(r) \in DOMAIN sbi[r.m].banode_offset
       /\ BanodeOffset(r) + FileBytes(r) <= sbi[r.m].byte_aligned_size

-----------------------------------------------------------------------------
(* Pages in memory.                                                        *)

Offsets == 0 .. PAGE_CACHE_SIZE - 1
Blank == [i \in Offsets |-> Junk]

(* pg holds page r: each of its bytes that lies in the file is the byte the *)
(* image stores there, and a page beyond the end of the file is all zero.  *)
PageFilled(r, pg) ==
  IF InFile(r) THEN \A i \in Offsets : i < FileBytes(r) => pg[i] = NodeByte(r, i)
               ELSE \A i \in Offsets : pg[i] = Zero

(* Page r is stored in a cblock that does not inflate.                     *)
Corrupt(r) ==
  /\ InFile(r)
  /\ NodeType(r) = Compressed
  /\ CnodeIndex(r) \in sbi[r.m].bad_cblocks

ASSUME ImageAssumption ==
  /\ PAGE_CACHE_SIZE \in Nat \ {0}
  /\ \A m \in Mounts : TablesOK(sbi[m])
=============================================================================
