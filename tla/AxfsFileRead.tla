----------------------------- MODULE AxfsFileRead -----------------------------
(***************************************************************************)
(* axfs_file_read (axfs_inode.c): read(2) on an AXFS file.  It splits the  *)
(* request into pieces of at most a page and hands each piece to           *)
(* xip_file_read or do_sync_read, by the type of the node in which the     *)
(* piece starts.                                                           *)
(*                                                                         *)
(* The two VFS functions are external: they copy min(count, i_size - pos)  *)
(* bytes to the user and advance the position.  do_sync_read goes through  *)
(* readpage, which AxfsReadpage shows to bring back the right bytes of any *)
(* node; xip_file_read asks axfs_get_xip_mem for the address of each page. *)
(* The user's buffer is mapped, so that neither of them fails.             *)
(***************************************************************************)
EXTENDS AxfsImage

CONSTANTS
  SIZE_MAX_1, \* 2^w, for a size_t (and a u64) of w bits
  Calls       \* the calls made: records of m, ino, pos (*ppos) and len

VARIABLES
  running,         \* TRUE inside axfs_file_read
  call,            \* the arguments of the current call, or of the last one
  pos,             \* *ppos
  size,            \* what is left to read
  readlength,      \* the size of the next piece
  total_size_read,
  buf              \* the user's buffer

readvars == <<running, call, pos, size, readlength, total_size_read, buf>>

ASSUME FileReadAssumption ==
  /\ SIZE_MAX_1 \in Nat \ {0}
  /\ \A c \in Calls :
       /\ c.m \in Mounts
       /\ c.ino \in DOMAIN sbi[c.m].inode_file_size
       /\ c.pos \in Nat /\ c.len \in 0 .. SIZE_MAX_1 - 1
       /\ sbi[c.m].inode_file_size[c.ino] < SIZE_MAX_1

-----------------------------------------------------------------------------
TotalFileSize(c) == sbi[c.m].inode_file_size[c.ino]

(* The page of call c's file that holds byte p, and byte p itself.         *)
PageAt(c, p) == [m |-> c.m, ino |-> c.ino, index |-> p \div PAGE_CACHE_SIZE]
FileByte(c, p) == NodeByte(PageAt(c, p), p % PAGE_CACHE_SIZE)

Wrap(n) == n % SIZE_MAX_1

(* Mutant: what is left of the file is taken to be all of it.              *)
ActualSizeFromStart(c) ==
  IF c.len > TotalFileSize(c) THEN TotalFileSize(c) ELSE c.len

(* The difference is signed, the comparison is not.                        *)
ActualSize(c) ==
  LET rest == Wrap(TotalFileSize(c) - c.pos)
  IN  IF c.len > rest THEN rest ELSE c.len

(* The size of the first piece.                                            *)
FirstLength(c) ==
  IF ActualSize(c) < PAGE_CACHE_SIZE THEN ActualSize(c) ELSE PAGE_CACHE_SIZE

Empty(c) == [i \in 0 .. c.len - 1 |-> Junk]

FileReadInit ==
  /\ running = FALSE
  /\ call \in Calls
  /\ pos = 0 /\ size = 0 /\ readlength = 0 /\ total_size_read = 0
  /\ buf = Empty(call)

Call(c) ==
  /\ ~running
  /\ running' = TRUE
  /\ call' = c
  /\ pos' = c.pos
  /\ size' = ActualSize(c)
  /\ readlength' = FirstLength(c)
  /\ total_size_read' = 0
  /\ buf' = Empty(c)

-----------------------------------------------------------------------------
(* How much either VFS function reads of a piece that starts at pos.       *)
Piece ==
  IF pos >= TotalFileSize(call) THEN 0
  ELSE IF readlength < TotalFileSize(call) - pos THEN readlength
  ELSE TotalFileSize(call) - pos

(* What axfs_get_xip_mem makes of byte p: an address in the XIP region,    *)
(* whatever the type of the node.                                          *)
GetXipMem(c, p) ==
  XIPByte(c.m, NodeIndex(PageAt(c, p)) * PAGE_CACHE_SIZE + (p % PAGE_CACHE_SIZE))

(* The size of the piece after the one that made the total.                *)
NextLength(total) ==
  LET left == Wrap(call.len - total)
  IN  IF left < PAGE_CACHE_SIZE /\ total # call.len THEN left ELSE readlength

Took(read) ==
  /\ pos' = pos + Piece
  /\ size' = Wrap(size - Piece)
  /\ total_size_read' = total_size_read + Piece
  /\ readlength' = NextLength(total_size_read + Piece)
  /\ buf' = [i \in DOMAIN buf |->
               IF i \in total_size_read .. total_size_read + Piece - 1
               THEN read[i - total_size_read] ELSE buf[i]]
  /\ UNCHANGED <<running, call>>

(* Mutant: the type is looked up once, before the loop.                    *)
TypeAtStart(type) ==
  ArrayIndex(PageAt(call, call.pos)) \in DOMAIN sbi[call.m].node_type =>
    type = NodeType(PageAt(call, call.pos))

(* The type is looked up in the node table, whose end is not checked: past *)
(* the end of the table it is whatever memory holds there.                 *)
TypeAt(type) ==
  ArrayIndex(PageAt(call, pos)) \in DOMAIN sbi[call.m].node_type =>
    type = NodeType(PageAt(call, pos))

XipFileRead ==
  /\ running /\ size > 0
  /\ TypeAt(XIP)
  /\ Took([i \in 0 .. Piece - 1 |-> GetXipMem(call, pos + i)])

DoSyncRead ==
  /\ running /\ size > 0
  /\ \E type \in {Compressed, Byte_Aligned} : TypeAt(type)
  /\ Took([i \in 0 .. Piece - 1 |-> FileByte(call, pos + i)])

(* Mutant: the loop only reads whole pages.                                *)
ReturnPages ==
  /\ running
  /\ size < PAGE_CACHE_SIZE
  /\ running' = FALSE
  /\ UNCHANGED <<call, pos, size, readlength, total_size_read, buf>>

Return ==
  /\ running
  /\ size = 0
  /\ running' = FALSE
  /\ UNCHANGED <<call, pos, size, readlength, total_size_read, buf>>

FileReadNext == (\E c \in Calls : Call(c)) \/ XipFileRead \/ DoSyncRead \/ Return

FileReadSpec == FileReadInit /\ [][FileReadNext]_readvars

(* A task inside the system call keeps running.                            *)
FileReadFairSpec == FileReadSpec /\ WF_readvars(XipFileRead \/ DoSyncRead \/ Return)

-----------------------------------------------------------------------------
(* Types: a piece is at most a page, and the sum of the pieces stays in    *)
(* the user's buffer.                                                      *)
FileReadTypeOK ==
  /\ running \in BOOLEAN
  /\ call \in Calls
  /\ pos \in Nat
  /\ size \in 0 .. SIZE_MAX_1 - 1
  /\ readlength \in 0 .. PAGE_CACHE_SIZE
  /\ total_size_read \in 0 .. call.len
  /\ DOMAIN buf = 0 .. call.len - 1

(* No piece is longer than what is left of the user's buffer, although the *)
(* loop counts down size and shortens the last piece by len.               *)
NoOverrun ==
  running /\ size > 0 => readlength \in 1 .. call.len - total_size_read

(* Whatever is read so far is the file from *ppos on, and none of the rest *)
(* of the buffer is touched ("buf - user buffer that is filled with the    *)
(* data that we read", whichever of the two functions reads each piece).   *)
FilledRight ==
  running =>
    \A i \in DOMAIN buf :
      buf[i] = IF i < total_size_read THEN FileByte(call, call.pos + i) ELSE Junk

(* The return value is "actual size of data read": all that was asked for, *)
(* or all there is before the end of the file, and *ppos moves by as much. *)
ExactRead ==
  [][Return =>
       /\ total_size_read = IF call.len < TotalFileSize(call) - call.pos
                            THEN call.len ELSE TotalFileSize(call) - call.pos
       /\ pos = call.pos + total_size_read]_readvars

(* Every read returns.                                                     *)
ReadReturns == running ~> ~running

(* The node of byte p of call c's file is in the node table.               *)
Stored(c) ==
  \A p \in 0 .. TotalFileSize(c) - 1 :
    ArrayIndex(PageAt(c, p)) \in DOMAIN sbi[c.m].node_type

(* No piece of the call crosses from an XIP page into another or back: it  *)
(* begins at a page, or the file is of one kind.                           *)
Uncrossed(c) ==
  \/ c.pos % PAGE_CACHE_SIZE = 0
  \/ \A p, q \in 0 .. TotalFileSize(c) - 1 :
       NodeType(PageAt(c, p)) = XIP <=> NodeType(PageAt(c, q)) = XIP

(* Pieces of any lengths and of both functions join up to the bytes of the *)
(* file, in the user's buffer and nowhere else.                            *)
ReadRight == FileReadTypeOK /\ NoOverrun /\ FilledRight
=============================================================================
