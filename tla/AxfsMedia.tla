------------------------------- MODULE AxfsMedia -------------------------------
(***************************************************************************)
(* How bytes of the image reach memory: axfs_copy_data and                 *)
(* axfs_copy_block_data (axfs_inode.c), which serve readpage, and          *)
(* axfs_fetch_data (axfs_super.c), which serves mount.                     *)
(*                                                                         *)
(* An image may lie on two media: its first mmap_size bytes in memory that *)
(* the processor can address, the rest on a block device.  Or the block    *)
(* device holds all of it.  A copy that begins in the one and ends in the  *)
(* other is split, and the block device is read block by block.            *)
(*                                                                         *)
(* A region of the image is mapped, copied to RAM at mount, or neither     *)
(* (AxfsRegions).  Regions are not compressed here: an image with one does *)
(* not mount (AxfsMount).                                                  *)
(*                                                                         *)
(* The bytes of the image are named by their offset.  The kernel's memory  *)
(* allocations and mappings succeed.                                       *)
(***************************************************************************)
EXTENDS AxfsRegions

CONSTANTS
  Mounts,       \* records of mapped, mmap_size, s_blocksize and size
  MediaRegions, \* records of fsoffset, size, compressed, incore, force_va
  NoByte        \* a byte that is not of the image

VARIABLES
  mpc,     \* "idle", "mmap", "block", "done", or "oops"
  sb,      \* the mounted image
  op,      \* the call: fn ("copy" or "fetch"), region, offset and len
  dst,     \* the destination buffer
  mmapped, \* how much of it came from addressable memory
  boffset, \* where on the block device the rest starts
  copied   \* how much of the rest is copied

mediavars == <<mpc, sb, op, dst, mmapped, boffset, copied>>

ASSUME MediaAssumption ==
  /\ \A m \in Mounts :
       /\ m.mapped \in BOOLEAN
       /\ m.size \in Nat /\ m.mmap_size \in Nat
       /\ m.s_blocksize \in Nat \ {0}
       /\ m.mapped => m.mmap_size <= m.size
  /\ \A r \in MediaRegions :
       /\ r.fsoffset \in Nat /\ r.size \in Nat
       /\ ~r.compressed /\ r.incore \in BOOLEAN /\ r.force_va \in BOOLEAN

-----------------------------------------------------------------------------
(* Byte b of the block device of mount m.                                  *)
DeviceByte(m, b) == IF m.mapped THEN m.mmap_size + b ELSE b
DeviceSize(m)    == IF m.mapped THEN m.size - m.mmap_size ELSE m.size

-----------------------------------------------------------------------------
(* The calls: any part of any region (readpage), any part of the image     *)
(* (mount).                                                                *)
Fits(m, r) == r.fsoffset + r.size <= m.size

WholeImage(m) == [fsoffset |-> 0, size |-> m.size, compressed |-> FALSE,
                  incore |-> FALSE, force_va |-> FALSE]

Parts(fn, r) ==
  {[fn |-> fn, region |-> r, offset |-> o, len |-> n] :
     o \in 0 .. r.size, n \in 0 .. r.size}

Ops(m) ==
  {o \in (UNION {Parts("copy", r) : r \in {s \in MediaRegions : Fits(m, s)}})
          \cup Parts("fetch", WholeImage(m)) :
     o.offset + o.len <= o.region.size}

(* The offset of the call from the beginning of the file system.           *)
Begin(o) == o.region.fsoffset + o.offset

NoOp(m) == [fn |-> "fetch", region |-> WholeImage(m), offset |-> 0, len |-> 0]

MediaInit ==
  /\ mpc = "idle"
  /\ sb \in Mounts
  /\ op = NoOp(sb)
  /\ dst = [i \in 0 .. -1 |-> NoByte]
  /\ mmapped = 0 /\ boffset = 0 /\ copied = 0

(* How much of call o comes from addressable memory.                       *)
Mmapped(o) ==
  LET end == Begin(o) + o.len IN
  IF o.fn = "copy"
  THEN IF Addressable(sb, o.region) = 0 THEN 0
       ELSE IF sb.mmap_size > end THEN o.len
       ELSE IF sb.mmap_size > Begin(o) THEN sb.mmap_size - Begin(o)
       ELSE 0
  ELSE IF ~IsOffsetMmapable(sb, Begin(o)) THEN 0
       ELSE IF IsOffsetMmapable(sb, end) THEN o.len
       ELSE sb.mmap_size - Begin(o)

MediaCall(o) ==
  /\ op' = o
  /\ dst' = [i \in 0 .. o.len - 1 |-> NoByte]
  /\ mpc' = IF o.len = 0 THEN "done" ELSE "mmap"
  /\ mmapped' = Mmapped(o)
  /\ copied' = 0
  /\ UNCHANGED <<sb, boffset>>

(* memcpy from the mapping or the RAM copy of the region, or (fetch) from  *)
(* a mapping made for the purpose.                                         *)
CopyMmapped ==
  /\ mpc = "mmap"
  /\ dst' = [i \in DOMAIN dst |-> IF i < mmapped THEN Begin(op) + i ELSE dst[i]]
  /\ boffset' = IF op.fn = "copy"
                THEN Fsoffset2Blockoffset(sb, op.region.fsoffset)
                       + op.offset + mmapped
                ELSE IF IsOffsetMmapable(sb, Begin(op)) THEN 0
                ELSE Fsoffset2Blockoffset(sb, Begin(op))
  /\ mpc' = IF mmapped = op.len THEN "done" ELSE "block"
  /\ UNCHANGED <<sb, op, mmapped, copied>>

-----------------------------------------------------------------------------
(* axfs_copy_block_data, of the len - mmapped bytes at boffset.            *)

Rest == op.len - mmapped
MediaBlock == (boffset + copied) \div sb.s_blocksize

(* Mutant: the copy starts at the start of the block.                      *)
FromZero == 0

(* Where in the block the copy starts.                                     *)
From == IF copied = 0 THEN boffset % sb.s_blocksize ELSE 0

(* Mutant: the first block is taken to be whole.                           *)
BytesWhole ==
  IF Rest - copied < sb.s_blocksize THEN Rest - copied ELSE sb.s_blocksize

(* How many bytes of the block are copied.                                 *)
Bytes ==
  LET room == sb.s_blocksize - From
  IN  IF Rest - copied < room THEN Rest - copied ELSE room

CopyBlock ==
  /\ mpc = "block"
  /\ dst' = [i \in DOMAIN dst |->
               LET k == i - mmapped - copied IN
               IF k \in 0 .. Bytes - 1
               THEN DeviceByte(sb, MediaBlock * sb.s_blocksize + From + k)
               ELSE dst[i]]
  /\ copied' = copied + Bytes
  /\ mpc' = IF copied + Bytes < Rest THEN "block" ELSE "done"
  /\ UNCHANGED <<sb, op, mmapped, boffset>>

(* sb_bread returns NULL when the device does not answer, and the code     *)
(* follows the pointer.                                                    *)
BreadFails ==
  /\ mpc = "block"
  /\ mpc' = "oops"
  /\ UNCHANGED <<sb, op, dst, mmapped, boffset, copied>>

(* The copy returns, and the bytes that were fetched are the caller's.     *)
MediaReturn ==
  /\ mpc = "done"
  /\ mpc' = "idle"
  /\ op' = NoOp(sb)
  /\ dst' = [i \in 0 .. -1 |-> NoByte]
  /\ mmapped' = 0 /\ boffset' = 0 /\ copied' = 0
  /\ UNCHANGED sb

Calls == mpc = "idle" /\ \E o \in Ops(sb) : MediaCall(o)

MediaNext == Calls \/ CopyMmapped \/ CopyBlock \/ BreadFails \/ MediaReturn

MediaSpec == MediaInit /\ [][MediaNext]_mediavars

-----------------------------------------------------------------------------
(* Types: what is copied from memory, and from the block device, is never  *)
(* more than what was asked for.                                           *)
MediaTypeOK ==
  /\ mpc \in {"idle", "mmap", "block", "done", "oops"}
  /\ sb \in Mounts
  /\ op.len \in Nat /\ DOMAIN dst = 0 .. op.len - 1
  /\ mmapped \in 0 .. op.len
  /\ mpc = "block" => copied \in 0 .. Rest

(* Every address that is read exists: the memory part lies in the bytes    *)
(* that the region has at virt_addr, and each piece of the rest lies in    *)
(* one block, and on the device (axfs_copy_data computes boffset with      *)
(* fsoffset - mmap_size, which is negative for a region that begins below  *)
(* mmap_size).                                                             *)
ReadsInBounds ==
  /\ mpc = "mmap" /\ mmapped > 0 =>
       IF op.fn = "copy" THEN op.offset + mmapped <= Addressable(sb, op.region)
                         ELSE Begin(op) + mmapped <= sb.mmap_size
  /\ mpc = "block" =>
       /\ boffset >= 0
       /\ Bytes >= 1 /\ From + Bytes <= sb.s_blocksize
       /\ boffset + copied + Bytes <= DeviceSize(sb)

(* When the call is over, the destination holds the bytes of the image     *)
(* that were asked for, wherever mmap_size, the region's boundaries and    *)
(* the block boundaries fall.                                              *)
CopiedRight ==
  mpc = "done" => \A i \in DOMAIN dst : dst[i] = Begin(op) + i

(* No part of a copy is longer than the copy, and each is read from where  *)
(* there is something.                                                     *)
InBounds == MediaTypeOK /\ ReadsInBounds
=============================================================================
