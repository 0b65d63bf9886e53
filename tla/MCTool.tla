------------------------------- MODULE MCTool -------------------------------
(***************************************************************************)
(* Instances of AxfsTool.  Pages have 2 bytes.  The tree:                  *)
(*   0 /  1 /d  2 /link  3 /file  4 /d/e  5 /d/device  6 /d/e/small        *)
(* The file has two whole pages and a byte, the small file a byte and the  *)
(* link up to three.  An image is a choice of types for the three pages of *)
(* the file and for the link, of the length of the link, of the planes of  *)
(* its tables, of a cblock that does not inflate, and of what the tool     *)
(* does not implement.                                                     *)
(***************************************************************************)
EXTENDS AxfsTool

Array(s) == [i \in 0 .. Len(s) - 1 |-> s[i + 1]]

Images(first, last, blocks) ==
  [types : first \X first \X last, target : {<<Compressed, 1>>}, depth : {2, 3},
   bad : {{}, {0}}, big : blocks, odd : {"no"}]

Plain == [types |-> <<Compressed, XIP, Compressed>>, target |-> <<Compressed, 1>>,
          depth |-> 2, bad |-> {}, big |-> FALSE, odd |-> "no"]

Odd == {[Plain EXCEPT !.odd = o] : o \in {"none", "magic", "lzo", "compressed"}}

(* Links of the types t, empty, shorter than linkName, as long and longer. *)
Links(t) == {[Plain EXCEPT !.target = <<k, n>>] : k \in t, n \in 0 .. 3}

All == {XIP, Compressed, Byte_Aligned}

(* Files that end in pages of every type, and no cblock bigger than a      *)
(* page.                                                                   *)
MCImages == Images(All, All, {FALSE}) \cup Links(All) \cup Odd

(* A last page that is an XIP page.                                        *)
MCImagesXip == Images({XIP}, {XIP}, {FALSE})

(* A link that fills linkName.                                             *)
MCImagesLink == {[Plain EXCEPT !.target = <<Compressed, 2>>]}

(* Cblocks that hold the first two pages of a file.                        *)
MCImagesBig == Images({Compressed}, {Compressed}, {TRUE})

(* Nodes: 0 the link, 1-3 the file, 4 the small file; the second page of a *)
(* link of three bytes is node 1, and is never read.  Cnodes and cblocks:  *)
(* cblock 0 holds the first page of the file, 1 the second, 2 the link and *)
(* the end of the file, which may be one byte, 3, which is short, the      *)
(* small file; if they are big, cblock 1 is behind the first page in       *)
(* cblock 0.                                                               *)
Types(m) == Array(<<m.target[1], m.types[1], m.types[2], m.types[3], Compressed>>)

Sbi(m) == [
  inode_file_size   |-> Array(<<0, 0, m.target[2], 5, 0, 0, 1>>),
  inode_array_index |-> Array(<<1, 4, 0, 1, 6, 9, 4>>),
  node_type   |-> Types(m),
  node_index  |-> [n \in 0 .. 4 |->
                     CASE Types(m)[n] = Compressed -> n
                       [] n = 0 -> 1
                       [] Types(m)[n] = XIP -> 4 - n
                       [] OTHER -> n - 1],
  cnode_offset |-> Array(<<0, 0, IF m.big THEN 2 ELSE 0, 1, 0>>),
  cnode_index  |-> Array(<<2, 0, IF m.big THEN 0 ELSE 1, 2, 3>>),
  banode_offset |-> Array(<<3, 0, 2>>),
  byte_aligned_size |-> 5,
  cblock_size |-> IF m.big THEN 4 ELSE 2,
  cblock_len  |-> Array(<<IF m.big THEN 4 ELSE 2, 2, 2, 1>>),
  bad_cblocks |-> m.bad]

MCSbi == [m \in Mounts |-> Sbi(m)]

MCTree == [m \in Mounts |->
  [kind |-> Array(<<"dir", "dir", "link", "file", "dir", "other", "file">>),
   num_entries |-> Array(<<3, 2, 0, 0, 1, 0, 0>>),
   level |-> Array(<<0, 1, 1, 1, 2, 2, 3>>)]]

MCPacked == [m \in Mounts |-> Array(<<0, 2, 3, 5, 6>>)]

(* Table f in planes of bytes, as the kernel reads it (AXFS_U64_STITCH).   *)
Laid(f, depth) ==
  LET n == Cardinality(DOMAIN f)
  IN  [size |-> n * depth, compressed_size |-> 0, max_index |-> n,
       table_byte_depth |-> depth,
       data |-> [j \in 0 .. n * depth - 1 |->
                   (f[j % n] \div BYTE^(j \div n)) % BYTE]]

Raw(size, byte(_)) ==
  [size |-> size, compressed_size |-> 0, max_index |-> size,
   table_byte_depth |-> 1, data |-> [j \in 0 .. size - 1 |-> byte(j)]]

(* Modes are shared by inodes of a kind: 0 dir, 1 file, 2 link, 3 other.   *)
ModeIndex == Array(<<0, 0, 2, 1, 0, 3, 1>>)
Modes == Array(<<4 * PERM + 1, 8 * PERM, 10 * PERM + 1, 2 * PERM>>)

RegionsOf(m) ==
  LET s == Sbi(m)
      xip(i) == XIPByte(m, i)
      ba(i)  == BAByte(m, i)
      text(i) == i
      shrunk == IF m.odd = "compressed" THEN 1 ELSE 0
  IN  [xip |-> Raw(8, xip), strings |-> Raw(7, text),
       compressed |-> Raw(6, text), byte_aligned |-> Raw(5, ba),
       node_type |-> Laid(s.node_type, 1),
       node_index |-> Laid(s.node_index, m.depth),
       cnode_offset |-> Laid(s.cnode_offset, m.depth),
       cnode_index |-> Laid(s.cnode_index, m.depth),
       banode_offset |-> Laid(s.banode_offset, m.depth),
       cblock_offset |-> Laid(MCPacked[m], m.depth),
       inode_file_size |-> [Laid(s.inode_file_size, m.depth) EXCEPT
                              !.compressed_size = shrunk],
       inode_name_offset |-> Laid([i \in 0 .. 6 |-> i], m.depth),
       inode_num_entries |-> Laid(MCTree[m].num_entries, m.depth),
       inode_mode_index |-> Laid(ModeIndex, m.depth),
       inode_array_index |-> Laid(s.inode_array_index, m.depth),
       modes |-> Laid(Modes, 3), uids |-> Laid(Modes, 3), gids |-> Laid(Modes, 3)]

MCRegion == [m \in Mounts |-> RegionsOf(m)]

MCSuper == [m \in Mounts |->
  [there |-> m.odd # "none",
   magic |-> IF m.odd = "magic" THEN "other" ELSE "AXFS",
   compression_type |-> IF m.odd = "lzo" THEN "lzo" ELSE "zlib"]]

(* What the theorems of AxfsToolProofs assume of the images.               *)
ASSUME MCImagesAssumption ==
  Mounts = MCImages => \A m \in Mounts : LaidOut(m) /\ IsTree(m) /\ Complete(m)
=============================================================================
