-------------------------- MODULE AxfsSuperProofs ---------------------------
(***************************************************************************)
(* Proofs about axfs_super.c and what it reads an image with: AxfsMedia,   *)
(* AxfsMount and AxfsGetSb.                                                *)
(***************************************************************************)
EXTENDS AxfsMount, AxfsMedia, AxfsGetSb, TLAPS

(***************************************************************************)
(* Proofs about AxfsMedia, for any image, any place of the boundary        *)
(* between the two media, any regions and any block size.                  *)
(***************************************************************************)

(* Byte b of the call lies at that offset of the block device.             *)
OnDevice(b) == IF sb.mapped THEN b - sb.mmap_size ELSE b

(* The call in progress is one that can be made.                           *)
Asked ==
  /\ sb \in Mounts
  /\ mpc # "idle" => op \in Ops(sb)
  /\ mpc \in {"idle", "mmap"} => copied = 0

(* How far the call has got.  The rest starts on the block device where    *)
(* the memory part ends, and every block after the first is read from its  *)
(* beginning.                                                              *)
Progress ==
  /\ mpc = "mmap" => mmapped = Mmapped(op)
  /\ mpc = "block" =>
       /\ mmapped < op.len
       /\ boffset = OnDevice(Begin(op) + mmapped) /\ boffset \in Nat
       /\ copied < Rest
       /\ copied > 0 => (boffset + copied) % sb.s_blocksize = 0
       /\ \A i \in DOMAIN dst : i < mmapped + copied => dst[i] = Begin(op) + i

MediaInv == MediaTypeOK /\ Asked /\ Progress /\ CopiedRight

-----------------------------------------------------------------------------
LEMMA DivMod ==
  ASSUME NEW a \in Nat, NEW b \in Nat \ {0}
  PROVE  /\ a \div b \in Nat /\ a % b \in 0 .. b - 1
         /\ a = (a \div b) * b + (a % b)
         /\ (a \div b) * b \in Nat
OBVIOUS

LEMMA Distributes ==
  ASSUME NEW a \in Int, NEW b \in Int, NEW c \in Int
  PROVE  (a - b) * c = a * c - b * c
OBVIOUS

LEMMA Multiple ==
  ASSUME NEW n \in Nat, NEW b \in Nat \ {0}
  PROVE  (n * b) % b = 0
<1> DEFINE c == n * b
           q == c \div b
           r == c % b
<1>1. c \in Nat
  OBVIOUS
<1>2. q \in Nat /\ r \in 0 .. b - 1 /\ n * b = q * b + r
  BY <1>1, DivMod
<1> HIDE DEF q, r
<1>3. (n - q) * b = r
  <2>1. (n - q) * b = n * b - q * b
    BY <1>2, Distributes
  <2> QED
    BY <1>2, <2>1
<1>4. ~(n - q >= 1)
  <2>1. n - q >= 1 => (n - q) * b >= b
    BY <1>2
  <2> QED
    BY <1>2, <1>3, <2>1
<1>5. ~(n - q <= -1)
  <2>1. n - q <= -1 => (n - q) * b <= -b
    BY <1>2
  <2> QED
    BY <1>2, <1>3, <2>1
<1>6. n - q = 0
  BY <1>2, <1>4, <1>5
<1> QED
  BY <1>2, <1>3, <1>6 DEF q, r

LEMMA NextBlock ==
  ASSUME NEW a \in Nat, NEW b \in Nat \ {0}, NEW n \in Nat, n = b - (a % b)
  PROVE  (a + n) % b = 0
<1>1. a + n = (a \div b) * b + b
  BY DivMod
<1>2. a + n = (a \div b + 1) * b
  BY <1>1, DivMod
<1>3. a \div b + 1 \in Nat
  BY DivMod
<1> QED
  BY <1>2, <1>3, Multiple

-----------------------------------------------------------------------------
(* The calls that can be made: a part of a region that the image holds.    *)
LEMMA OpFacts ==
  ASSUME NEW m \in Mounts, NEW o \in Ops(m)
  PROVE  /\ o.fn \in {"copy", "fetch"}
         /\ o.offset \in Nat /\ o.len \in Nat
         /\ o.offset + o.len <= o.region.size
         /\ o.region.fsoffset \in Nat /\ o.region.size \in Nat
         /\ o.region.fsoffset + o.region.size <= m.size
         /\ Begin(o) \in Nat /\ Begin(o) + o.len <= m.size
         /\ ~o.region.compressed
         /\ o.fn = "fetch" => Begin(o) = o.offset
<1>1. m.size \in Nat
  BY MediaAssumption
<1>2. o.offset + o.len <= o.region.size
  BY DEF Ops
<1>3. CASE o \in Parts("fetch", WholeImage(m))
  <2>1. /\ o.fn = "fetch" /\ o.region = WholeImage(m)
        /\ o.offset \in 0 .. WholeImage(m).size
        /\ o.len \in 0 .. WholeImage(m).size
    BY <1>3 DEF Parts
  <2>2. /\ WholeImage(m).size = m.size
        /\ o.region.fsoffset = 0 /\ o.region.size = m.size
        /\ ~o.region.compressed
    BY <2>1 DEF WholeImage
  <2> QED
    BY <1>1, <1>2, <2>1, <2>2 DEF Begin
<1>4. CASE \E r \in MediaRegions : Fits(m, r) /\ o \in Parts("copy", r)
  <2>1. PICK r \in MediaRegions : Fits(m, r) /\ o \in Parts("copy", r)
    BY <1>4
  <2>2. r.fsoffset \in Nat /\ r.size \in Nat /\ ~r.compressed
    BY MediaAssumption
  <2>3. /\ o.fn = "copy" /\ o.region = r
        /\ o.offset \in 0 .. r.size /\ o.len \in 0 .. r.size
    BY <2>1 DEF Parts
  <2> QED
    BY <1>1, <1>2, <2>1, <2>2, <2>3 DEF Fits, Begin
<1> QED
  BY <1>3, <1>4 DEF Ops

(* A region has addressable bytes below mmap_size, or all of them.         *)
LEMMA MemoryPart ==
  ASSUME sb \in Mounts, NEW o \in Ops(sb)
  PROVE  /\ Mmapped(o) \in 0 .. o.len
         /\ Mmapped(o) > 0 =>
              IF o.fn = "copy" THEN o.offset + Mmapped(o) <= Addressable(sb, o.region)
                               ELSE Begin(o) + Mmapped(o) <= sb.mmap_size
         /\ Mmapped(o) < o.len /\ sb.mapped => Begin(o) + Mmapped(o) >= sb.mmap_size
<1>1. /\ sb.mmap_size \in Nat
      /\ o.offset \in Nat /\ o.len \in Nat
      /\ o.region.fsoffset \in Nat /\ o.region.size \in Nat
      /\ o.offset + o.len <= o.region.size
      /\ Begin(o) = o.region.fsoffset + o.offset
  BY MediaAssumption, OpFacts DEF Begin
<1>2. CASE o.fn = "fetch"
  BY <1>1, <1>2, OpFacts DEF Mmapped, IsOffsetMmapable
<1>3. CASE o.fn = "copy" /\ Addressable(sb, o.region) = 0
  <2>1. o.len > 0 => o.region.size > 0
    BY OpFacts
  <2>2. o.len > 0 /\ sb.mapped => o.region.fsoffset >= sb.mmap_size
    BY <1>1, <1>3, <2>1, OpFacts
    DEF Addressable, Obtained, IsRegionXip, IsOffsetMmapable, End
  <2> QED
    BY <1>1, <1>3, <2>2, OpFacts DEF Mmapped, Begin
<1>4. CASE o.fn = "copy" /\ Addressable(sb, o.region) # 0
  <2>1. \/ Addressable(sb, o.region) = o.region.size
        \/ /\ Addressable(sb, o.region) = sb.mmap_size - o.region.fsoffset
           /\ sb.mmap_size <= o.region.fsoffset + o.region.size
    <3>1. Obtained(sb, o.region) \in {"vmalloc", "ioremap", "null"}
      BY DEF Obtained
    <3>2. CASE Obtained(sb, o.region) = "vmalloc"
      BY <3>2 DEF Addressable
    <3>3. CASE Obtained(sb, o.region) = "ioremap"
      BY <1>1, <3>3 DEF Addressable, End
    <3>4. CASE Obtained(sb, o.region) = "null"
      BY <1>4, <3>4 DEF Addressable
    <3> QED
      BY <3>1, <3>2, <3>3, <3>4
  <2> QED
    BY <1>1, <1>4, <2>1, OpFacts DEF Mmapped, Begin
<1> QED
  BY <1>2, <1>3, <1>4, OpFacts

(* The rest of a call starts where the memory part ends.                   *)
LEMMA RestStarts ==
  ASSUME MediaTypeOK, Asked, Progress, CopyMmapped, mmapped < op.len
  PROVE  boffset' = OnDevice(Begin(op) + mmapped) /\ boffset' \in Nat
<1>1. /\ sb.mmap_size \in Nat
      /\ op \in Ops(sb) /\ mmapped = Mmapped(op) /\ mmapped \in Nat
  BY MediaAssumption DEF Asked, Progress, CopyMmapped, MediaTypeOK
<1>2. sb.mapped => Begin(op) + mmapped >= sb.mmap_size
  BY <1>1, MemoryPart DEF MediaTypeOK
<1>3. CASE op.fn = "copy"
  <2>1. /\ op.region.fsoffset \in Nat /\ op.offset \in Nat
        /\ Begin(op) = op.region.fsoffset + op.offset
    BY <1>1, OpFacts DEF MediaTypeOK, Begin
  <2>2. boffset' = Fsoffset2Blockoffset(sb, op.region.fsoffset) + op.offset + mmapped
    BY <1>3 DEF CopyMmapped
  <2> QED
    BY <1>1, <1>2, <2>1, <2>2 DEF Fsoffset2Blockoffset, OnDevice
<1>4. CASE op.fn # "copy"
  <2>1. Begin(op) \in Nat /\ Begin(op) + op.len \in Nat
    BY <1>1, OpFacts DEF MediaTypeOK
  <2>2. mmapped = 0 \/ mmapped = sb.mmap_size - Begin(op)
    BY <1>1, <1>4, <2>1 DEF Mmapped
  <2> QED
    BY <1>1, <1>2, <1>4, <2>1, <2>2
    DEF CopyMmapped, Fsoffset2Blockoffset, OnDevice, IsOffsetMmapable, Mmapped
<1> QED
  BY <1>3, <1>4

(* What one round of the loop copies: to the end of the block, or of the   *)
(* call.                                                                   *)
LEMMA Round ==
  ASSUME MediaTypeOK, Asked, Progress, mpc = "block"
  PROVE  /\ Bytes \in Nat /\ Bytes >= 1 /\ From \in Nat
         /\ From + Bytes <= sb.s_blocksize
         /\ Bytes <= Rest - copied
         /\ MediaBlock * sb.s_blocksize + From = boffset + copied
         /\ copied + Bytes < Rest =>
              (boffset + copied + Bytes) % sb.s_blocksize = 0
<1>1. /\ sb.s_blocksize \in Nat \ {0} /\ boffset \in Nat
      /\ copied \in Nat /\ Rest \in Nat /\ copied < Rest
  BY MediaAssumption DEF MediaTypeOK, Progress, Rest
<1>2. From = (boffset + copied) % sb.s_blocksize
  BY <1>1 DEF From, Progress
<1>3. /\ From \in 0 .. sb.s_blocksize - 1
      /\ MediaBlock * sb.s_blocksize + From = boffset + copied
  <2>1. boffset + copied \in Nat
    BY <1>1
  <2> QED
    BY <1>1, <1>2, <2>1, DivMod DEF MediaBlock
<1>4. copied + Bytes < Rest => Bytes = sb.s_blocksize - From
  BY <1>1, <1>3 DEF Bytes
<1>5. Bytes \in Nat /\ Bytes >= 1
  BY <1>1, <1>3 DEF Bytes
<1>6. copied + Bytes < Rest => (boffset + copied + Bytes) % sb.s_blocksize = 0
  BY <1>1, <1>2, <1>4, <1>5, NextBlock
<1> QED
  BY <1>1, <1>3, <1>5, <1>6 DEF Bytes

-----------------------------------------------------------------------------
LEMMA MediaInvInit == MediaInit => MediaInv
<1> SUFFICES ASSUME MediaInit PROVE MediaInv
  OBVIOUS
<1> QED
  BY DEF MediaInit, MediaInv, MediaTypeOK, Asked, Progress, CopiedRight, NoOp, Rest

LEMMA MediaInvNext == MediaInv /\ [MediaNext]_mediavars => MediaInv'
<1> SUFFICES ASSUME MediaInv, [MediaNext]_mediavars PROVE MediaInv'
  OBVIOUS
<1> USE DEF MediaInv
<1>1. ASSUME NEW o \in Ops(sb), mpc = "idle", MediaCall(o)
      PROVE  MediaInv'
  <2>1. Mmapped(o) \in 0 .. o.len /\ o.len \in Nat
    BY MemoryPart, OpFacts DEF MediaTypeOK
  <2>2. mmapped' = Mmapped(o)' /\ Mmapped(o)' = Mmapped(o)
    BY <1>1 DEF MediaCall, Mmapped
  <2>3. MediaTypeOK' /\ Asked' /\ Progress'
    BY <1>1, <2>1, <2>2 DEF MediaCall, MediaTypeOK, Asked, Progress, Mmapped
  <2>4. CopiedRight'
    BY <1>1, <2>1 DEF MediaCall, CopiedRight, MediaTypeOK
  <2> QED
    BY <2>3, <2>4
<1>2. CASE CopyMmapped
  <2>1. mmapped = Mmapped(op) /\ op \in Ops(sb) /\ sb \in Mounts /\ copied = 0
    BY <1>2 DEF CopyMmapped, Asked, Progress
  <2>2. Begin(op) \in Nat /\ Begin(op)' = Begin(op)
    BY <1>2, <2>1, OpFacts DEF CopyMmapped, Begin
  <2>3. MediaTypeOK' /\ Asked'
    BY <1>2, <2>1 DEF CopyMmapped, MediaTypeOK, Asked, Rest
  <2>4. Progress'
    BY <1>2, <2>1, <2>2, RestStarts DEF CopyMmapped, MediaTypeOK, Progress, Rest, OnDevice
  <2>5. CopiedRight'
    BY <1>2, <2>1, <2>2 DEF CopyMmapped, MediaTypeOK, CopiedRight
  <2> QED
    BY <2>3, <2>4, <2>5
<1>3. CASE CopyBlock
  <2>1. /\ op \in Ops(sb) /\ sb \in Mounts /\ mpc = "block"
        /\ mmapped \in Nat /\ copied \in Nat /\ op.len \in Nat
        /\ Begin(op) \in Nat /\ Begin(op)' = Begin(op) /\ Rest' = Rest
        /\ sb.mmap_size \in Nat
    BY <1>3, OpFacts, MediaAssumption DEF CopyBlock, Asked, MediaTypeOK, Begin, Rest
  <2>2. \A i \in DOMAIN dst : i < mmapped + copied + Bytes => dst'[i] = Begin(op) + i
    <3> SUFFICES ASSUME NEW i \in DOMAIN dst, i < mmapped + copied + Bytes
                 PROVE  dst'[i] = Begin(op) + i
      OBVIOUS
    <3> DEFINE n == i - mmapped - copied
    <3>1. i \in Nat
      BY DEF MediaTypeOK
    <3>2. CASE i < mmapped + copied
      BY <1>3, <2>1, <3>1, <3>2, Round DEF CopyBlock, Progress
    <3>3. CASE i >= mmapped + copied
      <4>1. n \in 0 .. Bytes - 1
        BY <2>1, <3>1, <3>3, Round
      <4>2. dst'[i] = DeviceByte(sb, MediaBlock * sb.s_blocksize + From + n)
        BY <1>3, <4>1 DEF CopyBlock
      <4>3. MediaBlock * sb.s_blocksize + From + n = boffset + copied + n
        BY <2>1, Round
      <4>4. boffset = OnDevice(Begin(op) + mmapped) /\ boffset \in Nat
        BY <2>1 DEF Progress
      <4> QED
        BY <2>1, <3>1, <4>2, <4>3, <4>4 DEF DeviceByte, OnDevice
    <3> QED
      BY <2>1, <3>1, <3>2, <3>3
  <2>3. MediaTypeOK' /\ Asked'
    BY <1>3, <2>1, Round DEF CopyBlock, MediaTypeOK, Asked, Rest
  <2>4. Progress'
    BY <1>3, <2>1, <2>2, Round DEF CopyBlock, Progress, OnDevice, Rest
  <2>5. CopiedRight'
    <3>1. /\ Bytes \in Nat /\ Bytes <= Rest - copied
          /\ mpc' = IF copied + Bytes < Rest THEN "block" ELSE "done"
          /\ DOMAIN dst' = DOMAIN dst
      BY <1>3, <2>1, Round DEF CopyBlock
    <3>2. mpc' = "done" => mmapped + copied + Bytes = op.len
      BY <2>1, <3>1 DEF Rest
    <3>3. \A i \in DOMAIN dst : i < op.len
      BY <2>1 DEF MediaTypeOK
    <3> QED
      BY <2>1, <2>2, <3>1, <3>2, <3>3 DEF CopiedRight
  <2> QED
    BY <2>3, <2>4, <2>5
<1>4. CASE BreadFails
  BY <1>4 DEF BreadFails, MediaTypeOK, Asked, Progress, CopiedRight, Rest
<1>5. CASE MediaReturn
  <2>1. sb \in Mounts
    BY DEF MediaTypeOK
  <2> QED
    BY <1>5, <2>1 DEF MediaReturn, MediaTypeOK, Asked, Progress, CopiedRight, NoOp, Rest
<1>6. CASE UNCHANGED mediavars
  BY <1>6
  DEF mediavars, MediaTypeOK, Asked, Progress, CopiedRight, Rest, OnDevice, Begin, Mmapped
<1> QED
  BY <1>1, <1>2, <1>3, <1>4, <1>5, <1>6 DEF MediaNext, Calls

LEMMA Bounds == MediaInv => ReadsInBounds
<1> SUFFICES ASSUME MediaInv PROVE ReadsInBounds
  OBVIOUS
<1> USE DEF MediaInv
<1>1. ASSUME mpc = "mmap", mmapped > 0
      PROVE  IF op.fn = "copy" THEN op.offset + mmapped <= Addressable(sb, op.region)
                               ELSE Begin(op) + mmapped <= sb.mmap_size
  BY <1>1, MemoryPart DEF Asked, Progress
<1>2. ASSUME mpc = "block"
      PROVE  /\ boffset >= 0
             /\ Bytes >= 1 /\ From + Bytes <= sb.s_blocksize
             /\ boffset + copied + Bytes <= DeviceSize(sb)
  <2>1. /\ sb \in Mounts /\ op \in Ops(sb) /\ boffset \in Nat
        /\ mmapped \in Nat /\ copied \in Nat /\ op.len \in Nat
        /\ sb.mmap_size \in Nat /\ sb.size \in Nat
    BY <1>2, MediaAssumption DEF Asked, Progress, MediaTypeOK
  <2>2. Begin(op) \in Nat /\ Begin(op) + op.len <= sb.size
    BY <2>1, OpFacts
  <2> QED
    BY <1>2, <2>1, <2>2, Round DEF Progress, OnDevice, DeviceSize, Rest
<1> QED
  BY <1>1, <1>2 DEF ReadsInBounds

-----------------------------------------------------------------------------
LEMMA MediaInvariance == MediaSpec => []MediaInv
  BY MediaInvInit, MediaInvNext, PTL DEF MediaSpec

(* No address is read that does not exist: the memory part stays within    *)
(* what the region has at virt_addr, each piece of the rest within a block *)
(* and within the device, although axfs_copy_data computes where the rest  *)
(* starts from the region's offset, which may be below mmap_size.          *)
THEOREM NoWildRead == MediaSpec => []InBounds
<1>1. MediaInv => InBounds
  BY Bounds DEF MediaInv, InBounds
<1> QED
  BY <1>1, MediaInvariance, PTL

(* A copy brings the bytes that were asked for, wherever mmap_size, the    *)
(* region and the blocks begin and end.                                    *)
THEOREM CopyRight == MediaSpec => []CopiedRight
<1>1. MediaInv => CopiedRight
  BY DEF MediaInv
<1> QED
  BY <1>1, MediaInvariance, PTL

-----------------------------------------------------------------------------
(***************************************************************************)
(* Proofs about AxfsMount, for any images of any number of regions, and    *)
(* any calls that can fail.                                                *)
(***************************************************************************)

States ==
  {"idle", "sbi", "metadata", "magic", "fill", "check", "root", "dentry",
   "profiling", "buffers", "done", "mounted", "out", "failed", "oops"}

(* A region has been filled as it should be, or its mapping has failed.    *)
FilledRight(j) ==
  \/ virt[j] = Obtained(image, Regions[j])
  \/ /\ virt[j] = "null" /\ "ioremap" \in fault
     /\ Obtained(image, Regions[j]) = "ioremap"

Types ==
  /\ pc \in States /\ image \in Images
  /\ k \in 1 .. Len(Regions) + 1
  /\ fault \subseteq MayFail
  /\ DOMAIN virt = DOMAIN Regions
  /\ \A j \in DOMAIN Regions : virt[j] \in {"null", Obtained(image, Regions[j])}

(* What is allocated when the mount has got to pc.                         *)
Base == {"fsi", "onmedia"}
Tables == Base \cup {"sbi", "metadata"}
Buffers == {"cblock_buffer_0", "cblock_buffer_1"}

Had(at) ==
  CASE at = "sbi" -> Base
    [] at = "metadata" -> Base \cup {"sbi"}
    [] at \in {"magic", "fill", "check", "root"} -> Tables
    [] at = "dentry" -> Tables \cup {"root"}
    [] at \in {"profiling", "buffers"} -> Tables \cup {"root", "dentry"}
    [] at = "done" -> Tables \cup {"root", "dentry"} \cup Buffers
    [] at = "mounted" -> {"sbi", "metadata", "root", "dentry"} \cup Buffers

Going == States \ {"idle", "out", "failed", "oops"}

MemRight ==
  /\ pc \in Going => mem \ {"manager"} = Had(pc)
  /\ pc \in {"sbi", "metadata", "magic"} => mem = Had(pc)

(* Up to region k, the regions are filled; before, none is.                *)
VirtRight ==
  /\ pc \in {"sbi", "metadata", "magic"} => k = 1 /\ \A j \in DOMAIN Regions : virt[j] = "null"
  /\ pc = "fill" => \A j \in DOMAIN Regions : j < k => FilledRight(j)
  /\ pc \in Going \ {"sbi", "metadata", "magic", "fill"} =>
       \A j \in DOMAIN Regions :
         FilledRight(j) /\ (Regions[j].table => virt[j] = Obtained(image, Regions[j]))

(* The checks of the image that the mount has passed.                      *)
Checked ==
  /\ pc \in Going \ {"sbi", "metadata", "magic"} => image.magic
  /\ pc \in Going \ {"sbi", "metadata", "magic", "fill", "check"} =>
       image.root_is_dir \/ Garbled # {}

MountInv == Types /\ MemRight /\ VirtRight /\ Checked

-----------------------------------------------------------------------------
LEMMA RegionsAre ==
  ASSUME image \in Images
  PROVE  /\ Len(Regions) \in Nat /\ DOMAIN Regions = 1 .. Len(Regions)
         /\ \A j \in DOMAIN Regions : Regions[j].size \in Nat
  BY MountAssumption DEF Regions

LEMMA MountInit == Init => MountInv
<1> SUFFICES ASSUME Init PROVE MountInv
  OBVIOUS
<1>1. 1 \in 1 .. Len(Regions) + 1
  BY RegionsAre DEF Init
<1> QED
  BY <1>1 DEF Init, MountInv, Types, States, NoVirt, MemRight, VirtRight, Checked, Going

LEMMA TypesNext == MountInv /\ [Next]_vars => Types'
<1> SUFFICES ASSUME MountInv, [Next]_vars PROVE Types'
  OBVIOUS
<1>i. image' = image
  BY DEF Next, Start, AllocSbi, AllocMetadata, CheckMagic, Fill, FillPlain,
         FillIoremapFails, FillVmallocFails, FillInflated, Filled, FillMetadata,
         CheckSuper, CreateRoot, AllocRoot, InitProfiling, AllocBuffers, Mounted, Out,
         Deactivate, PutSuper, Works, Fails, vars
<1>t. /\ pc \in States /\ image \in Images /\ fault \subseteq MayFail
      /\ DOMAIN virt = DOMAIN Regions
      /\ \A j \in DOMAIN Regions : virt[j] \in {"null", Obtained(image, Regions[j])}
      /\ k \in 1 .. Len(Regions) + 1
  BY DEF MountInv, Types
<1>r. Len(Regions) \in Nat /\ DOMAIN Regions = 1 .. Len(Regions) /\ Regions' = Regions
  BY <1>i, <1>t, RegionsAre DEF Regions
<1>1. pc' \in States
  BY <1>t
  DEF Next, Start, AllocSbi, AllocMetadata, CheckMagic, Fill, FillPlain,
      FillIoremapFails, FillVmallocFails, FillInflated, Filled, FillMetadata,
      CheckSuper, CreateRoot, AllocRoot, InitProfiling, AllocBuffers, Mounted, Out,
      Deactivate, PutSuper, Works, Fails, vars, States
<1>2. fault' \subseteq MayFail
  BY <1>t
  DEF Next, Start, AllocSbi, AllocMetadata, CheckMagic, Fill, FillPlain,
      FillIoremapFails, FillVmallocFails, FillInflated, Filled, FillMetadata,
      CheckSuper, CreateRoot, AllocRoot, InitProfiling, AllocBuffers, Mounted, Out,
      Deactivate, PutSuper, Works, Fails, vars
<1>3. \/ virt' = virt
      \/ virt' = NoVirt
      \/ Filling /\ Filled("null")
      \/ Filling /\ Filled(Obtained(image, Regions[k]))
  BY DEF Next, Start, AllocSbi, AllocMetadata, CheckMagic, Fill, FillPlain,
      FillIoremapFails, FillVmallocFails, FillInflated, FillMetadata,
      CheckSuper, CreateRoot, AllocRoot, InitProfiling, AllocBuffers, Mounted, Out,
      Deactivate, PutSuper, Works, Fails, vars
<1>4. k' = k \/ k' = 1 \/ (Filling /\ k' = k + 1)
  BY DEF Next, Start, AllocSbi, AllocMetadata, CheckMagic, Fill, FillPlain,
      FillIoremapFails, FillVmallocFails, FillInflated, Filled, FillMetadata,
      CheckSuper, CreateRoot, AllocRoot, InitProfiling, AllocBuffers, Mounted, Out,
      Deactivate, PutSuper, Works, Fails, vars
<1>5. k' \in 1 .. Len(Regions) + 1
  BY <1>4, <1>t, <1>r DEF Filling
<1>6. /\ DOMAIN virt' = DOMAIN Regions
      /\ \A j \in DOMAIN Regions : virt'[j] \in {"null", Obtained(image, Regions[j])}
  <2>1. CASE virt' = virt \/ virt' = NoVirt
    BY <1>t, <2>1 DEF NoVirt
  <2>2. CASE \E from \in {"null", Obtained(image, Regions[k])} : Filling /\ Filled(from)
    BY <1>t, <2>2 DEF Filled
  <2> QED
    BY <1>3, <2>1, <2>2
<1> QED
  BY <1>i, <1>t, <1>r, <1>1, <1>2, <1>5, <1>6 DEF Types

LEMMA MemNext == MountInv /\ [Next]_vars => MemRight'
<1> SUFFICES ASSUME MountInv, [Next]_vars PROVE MemRight'
  OBVIOUS
<1>t. /\ pc \in Going => mem \ {"manager"} = Had(pc)
      /\ pc \in {"sbi", "metadata", "magic"} => mem = Had(pc)
      /\ pc \in States
  BY DEF MountInv, MemRight, Types
<1> USE DEF Going, States
<1>1. CASE Start
  BY <1>1 DEF Start, MemRight, Had, Base
<1>2. CASE AllocSbi
  BY <1>2, <1>t DEF AllocSbi, Works, Fails, MemRight, Had, Base
<1>3. CASE AllocMetadata
  BY <1>3, <1>t DEF AllocMetadata, Works, Fails, MemRight, Had, Base, Tables
<1>4. CASE CheckMagic \/ CheckSuper \/ Fill \/ FillMetadata
  <2>1. /\ mem' = mem
        /\ \/ pc' \in {"out", "oops"}
           \/ pc \in {"magic", "fill", "check"} /\ pc' \in {"fill", "check", "root"}
    BY <1>4 DEF CheckMagic, CheckSuper, Fill, FillMetadata, FillPlain, FillIoremapFails,
       FillVmallocFails, FillInflated, Filling, Filled, Fails
  <2> QED
    BY <1>t, <2>1 DEF MemRight, Had
<1>5. CASE CreateRoot
  BY <1>5, <1>t DEF CreateRoot, Works, Fails, MemRight, Had
<1>6. CASE AllocRoot
  BY <1>6, <1>t DEF AllocRoot, Works, MemRight, Had
<1>7. CASE InitProfiling
  BY <1>7, <1>t DEF InitProfiling, Works, MemRight, Had
<1>8. CASE AllocBuffers
  BY <1>8, <1>t DEF AllocBuffers, Works, MemRight, Had, Buffers
<1>9. CASE Mounted
  <2>1. /\ mem \ {"manager"} = Tables \cup {"root", "dentry"} \cup Buffers
        /\ mem' = mem \ {"fsi", "onmedia"} /\ pc' = "mounted"
    BY <1>9, <1>t DEF Mounted, Had
  <2>2. mem' \ {"manager"} = {"sbi", "metadata", "root", "dentry"} \cup Buffers
    BY <2>1 DEF Tables, Base, Buffers
  <2> QED
    BY <2>1, <2>2 DEF MemRight, Had
<1>10. CASE Out \/ Deactivate \/ PutSuper
  BY <1>10 DEF Out, Deactivate, PutSuper, MemRight
<1>11. CASE UNCHANGED vars
  BY <1>11, <1>t DEF vars, MemRight
<1> QED
  BY <1>1, <1>2, <1>3, <1>4, <1>5, <1>6, <1>7, <1>8, <1>9, <1>10, <1>11 DEF Next

LEMMA KeepsFilled ==
  ASSUME NEW j, UNCHANGED <<image, virt>>, fault \subseteq fault', FilledRight(j)
  PROVE  FilledRight(j)'
BY DEF FilledRight, Regions

(* A region is filled, or its mapping fails.                               *)
LEMMA FilledOne ==
  ASSUME MountInv, Filling, NEW from, Filled(from), fault \subseteq fault',
         \/ from = Obtained(image, Regions[k])
         \/ /\ from = "null" /\ "ioremap" \in fault'
            /\ Obtained(image, Regions[k]) = "ioremap"
  PROVE  VirtRight'
<1>1. /\ DOMAIN virt = DOMAIN Regions /\ VirtRight
      /\ Len(Regions) \in Nat /\ DOMAIN Regions = 1 .. Len(Regions)
      /\ k \in Nat /\ k \in 1 .. Len(Regions) + 1 /\ k <= Len(Regions) /\ pc = "fill"
  BY RegionsAre DEF MountInv, Types, Filling
<1>2. /\ Regions' = Regions /\ image' = image /\ k' = k + 1 /\ k \in DOMAIN Regions
      /\ virt'[k] = from /\ \A j \in DOMAIN Regions \ {k} : virt'[j] = virt[j]
      /\ pc' = "fill"
  BY <1>1 DEF Filled, Regions
<1>3. ASSUME NEW j \in DOMAIN Regions, j < k + 1
      PROVE  FilledRight(j)'
  <2>1. CASE j = k
    BY <1>2, <2>1 DEF FilledRight
  <2>2. CASE j # k
    <3>1. j < k
      BY <1>1, <1>3, <2>2
    <3>2. FilledRight(j)
      BY <1>1, <3>1 DEF VirtRight
    <3> QED
      BY <1>2, <2>2, <3>2 DEF FilledRight
  <2> QED
    BY <2>1, <2>2
<1> QED
  BY <1>2, <1>3 DEF VirtRight

LEMMA VirtNext == MountInv /\ [Next]_vars => VirtRight'
<1> SUFFICES ASSUME MountInv, [Next]_vars PROVE VirtRight'
  OBVIOUS
<1>t. /\ pc \in States /\ image \in Images /\ DOMAIN virt = DOMAIN Regions
      /\ k \in 1 .. Len(Regions) + 1 /\ VirtRight
      /\ \A j \in DOMAIN Regions : virt[j] \in {"null", Obtained(image, Regions[j])}
  BY DEF MountInv, Types
<1>r. /\ Len(Regions) \in Nat /\ DOMAIN Regions = 1 .. Len(Regions) /\ k \in Nat
      /\ \A j \in DOMAIN Regions : Regions[j].size \in Nat
  BY <1>t, RegionsAre
<1> USE DEF Going, States
<1>1. CASE Start
  BY <1>1, <1>t DEF Start, Leftover, VirtRight, Regions
<1>2. CASE AllocSbi \/ AllocMetadata
  BY <1>2, <1>t DEF AllocSbi, AllocMetadata, Works, Fails, VirtRight, Regions
<1>3. CASE CheckMagic
  <2>1. k = 1 /\ \A j \in DOMAIN Regions : ~(j < k)
    BY <1>3, <1>t, <1>r DEF CheckMagic, VirtRight
  <2>2. k' = k /\ Regions' = Regions /\ pc' \in {"fill", "out"}
    BY <1>3 DEF CheckMagic, Regions
  <2> QED
    BY <2>1, <2>2 DEF VirtRight
<1>4. CASE FillPlain \/ FillIoremapFails
  BY <1>4, FilledOne DEF FillPlain, FillIoremapFails
<1>5. CASE FillVmallocFails \/ FillInflated
  <2>1. CASE pc' = "out"
    BY <2>1 DEF VirtRight
  <2>2. CASE pc' # "out"
    <3>1. Filling /\ Filled(Obtained(image, Regions[k])) /\ fault' = fault
      BY <1>5, <2>2 DEF FillVmallocFails, FillInflated, Fails
    <3> QED
      BY <3>1, FilledOne
  <2> QED
    BY <2>1, <2>2
<1>6. CASE FillMetadata
  <2>1. /\ pc = "fill" /\ k > Len(Regions) /\ UNCHANGED <<image, virt, fault>>
        /\ pc' \in {"oops", "check"} /\ Regions' = Regions
    BY <1>6 DEF FillMetadata, Regions
  <2> SUFFICES ASSUME pc' = "check", NEW j \in DOMAIN Regions
               PROVE  /\ FilledRight(j)'
                      /\ Regions[j].table => virt[j] = Obtained(image, Regions[j])
    BY <2>1 DEF VirtRight
  <2>2. j < k
    BY <1>r, <2>1
  <2>3. FilledRight(j)
    BY <1>t, <2>1, <2>2 DEF VirtRight
  <2>4. FilledRight(j)'
    BY <2>1, <2>3, KeepsFilled
  <2>5. ~(Regions[j].table /\ Regions[j].size > 0 /\ virt[j] = "null")
    BY <1>6 DEF FillMetadata
  <2>6. Obtained(image, Regions[j]) = "ioremap" => Regions[j].size > 0
    <3>1. Regions[j].size \in Nat
      BY <1>r
    <3>2. Regions[j].size = 0 => Obtained(image, Regions[j]) = "null"
      BY DEF Obtained
    <3> QED
      BY <3>1, <3>2
  <2> QED
    BY <2>3, <2>4, <2>5, <2>6 DEF FilledRight
<1>7. CASE CheckSuper \/ CreateRoot \/ AllocRoot \/ InitProfiling \/ AllocBuffers \/ Mounted
  <2>1. /\ UNCHANGED <<image, virt>> /\ fault \subseteq fault'
        /\ pc \in Going \ {"sbi", "metadata", "magic", "fill"}
        /\ pc' \in {"out", "root", "dentry", "profiling", "buffers", "done", "mounted"}
    BY <1>7 DEF CheckSuper, CreateRoot, AllocRoot, InitProfiling, AllocBuffers, Mounted,
       Works, Fails
  <2>2. Regions' = Regions
    BY <2>1 DEF Regions
  <2>3. \A j \in DOMAIN Regions :
          FilledRight(j) /\ (Regions[j].table => virt[j] = Obtained(image, Regions[j]))
    BY <1>t, <2>1 DEF VirtRight
  <2>4. \A j \in DOMAIN Regions : FilledRight(j)'
    BY <2>1, <2>3, KeepsFilled
  <2> QED
    BY <2>1, <2>2, <2>3, <2>4 DEF VirtRight
<1>8. CASE Out \/ Deactivate \/ PutSuper
  BY <1>8 DEF Out, Deactivate, PutSuper, VirtRight
<1>9. CASE UNCHANGED vars
  BY <1>9, <1>t DEF vars, VirtRight, FilledRight, Regions
<1> QED
  BY <1>1, <1>2, <1>3, <1>4, <1>5, <1>6, <1>7, <1>8, <1>9 DEF Next, Fill

LEMMA KeepsGarbled ==
  ASSUME UNCHANGED <<image, virt>>
  PROVE  Garbled' = Garbled
BY DEF Garbled, Regions

LEMMA CheckedNext == MountInv /\ [Next]_vars => Checked'
<1> SUFFICES ASSUME MountInv, [Next]_vars PROVE Checked'
  OBVIOUS
<1> USE DEF MountInv, Types, Checked, Going, States
<1>1. CASE CheckSuper
  <2>1. pc' = "root" => image.root_is_dir \/ Garbled # {}
    BY <1>1 DEF CheckSuper, RootIsDir
  <2>2. UNCHANGED <<image, virt>> /\ pc' \in {"root", "out"} /\ pc = "check"
    BY <1>1 DEF CheckSuper
  <2> QED
    BY <2>1, <2>2, KeepsGarbled
<1>2. CASE CreateRoot \/ AllocRoot \/ InitProfiling \/ AllocBuffers \/ Mounted
  <2>1. /\ UNCHANGED <<image, virt>>
        /\ pc \in Going \ {"sbi", "metadata", "magic", "fill", "check"}
        /\ pc' \in {"dentry", "profiling", "buffers", "done", "mounted", "out"}
    BY <1>2 DEF CreateRoot, AllocRoot, InitProfiling, AllocBuffers, Mounted, Works, Fails
  <2> QED
    BY <2>1, KeepsGarbled
<1>3. CASE Start \/ AllocSbi \/ AllocMetadata \/ CheckMagic \/ Fill \/ FillMetadata
  BY <1>3 DEF Start, AllocSbi, AllocMetadata, CheckMagic, Fill, FillPlain,
     FillIoremapFails, FillVmallocFails, FillInflated, Filling, Filled, FillMetadata,
     Works, Fails
<1>4. CASE Out \/ Deactivate \/ PutSuper
  BY <1>4 DEF Out, Deactivate, PutSuper
<1>5. CASE UNCHANGED vars
  BY <1>5, KeepsGarbled DEF vars
<1> QED
  BY <1>1, <1>2, <1>3, <1>4, <1>5 DEF Next

LEMMA MountInvariant == Spec => []MountInv
<1>1. MountInv /\ [Next]_vars => MountInv'
  BY TypesNext, MemNext, VirtNext, CheckedNext DEF MountInv
<1> QED
  BY <1>1, MountInit, PTL DEF Spec

-----------------------------------------------------------------------------
(* A mount of a sound image fails only where something did, if no          *)
(* compressed region makes it.                                             *)
Unfailed == pc \in {"out", "failed"} => fault # {} \/ ~Sound(image)

LEMMA UnfailedNext ==
  ASSUME NoneInflating(Images), MountInv, Unfailed, [Next]_vars
  PROVE  Unfailed'
<1>t. image \in Images /\ pc \in States /\ VirtRight
  BY DEF MountInv, Types
<1> SUFFICES ASSUME pc' \in {"out", "failed"} PROVE fault' # {} \/ ~Sound(image')
  BY DEF Unfailed
<1>1. CASE Out \/ UNCHANGED vars
  BY <1>1 DEF Out, vars, Unfailed
<1>2. CASE fault' # {}
  BY <1>2
<1>3. CASE CheckMagic \/ CheckSuper
  <2>1. Sound(image) => RootIsDir = {image.root_is_dir}
    BY DEF Sound, RootIsDir, Garbled, Regions
  <2> QED
    BY <1>3, <2>1 DEF CheckMagic, CheckSuper, Sound
<1>4. CASE FillInflated
  <2>1. k \in DOMAIN image.regions /\ image.regions[k].compressed /\ image' = image
    <3>1. /\ Len(Regions) \in Nat /\ DOMAIN Regions = 1 .. Len(Regions)
          /\ k \in 1 .. Len(Regions) + 1
      BY <1>t, RegionsAre DEF MountInv, Types
    <3>2. k \in DOMAIN Regions
      BY <1>4, <3>1 DEF FillInflated, Filling
    <3> QED
      BY <1>4, <3>2 DEF FillInflated, Filling, Filled, Regions
  <2>2. ~Sound(image)
    BY <1>t, <2>1 DEF NoneInflating, Inflating
  <2> QED
    BY <2>1, <2>2
<1> QED
  BY <1>1, <1>2, <1>3, <1>4
  DEF Next, Start, AllocSbi, AllocMetadata, Fill, FillPlain, FillIoremapFails,
      FillVmallocFails, Filling, Filled, FillMetadata, CreateRoot, AllocRoot,
      InitProfiling, AllocBuffers, Mounted, Deactivate, PutSuper, Works, Fails

(* Region j is one that axfs_uncompress_block makes something of, which    *)
(* ends the mount: none has been met on the way.                           *)
Makes(j) == Regions[j].compressed /\ Regions[j].size > 0 /\ Regions[j].inflates

NoneMade ==
  /\ pc = "fill" => \A j \in DOMAIN Regions : j < k => ~Makes(j)
  /\ pc \in Going \ {"sbi", "metadata", "magic", "fill"} =>
       \A j \in DOMAIN Regions : ~Makes(j)

LEMMA MadeNext ==
  ASSUME MountInv, NoneMade, [Next]_vars
  PROVE  NoneMade'
<1>t. /\ pc \in States /\ image \in Images /\ VirtRight
      /\ Len(Regions) \in Nat /\ DOMAIN Regions = 1 .. Len(Regions)
      /\ k \in 1 .. Len(Regions) + 1 /\ k \in Nat
  BY RegionsAre DEF MountInv, Types
<1> USE DEF Going, States
<1>1. CASE Start \/ AllocSbi \/ AllocMetadata \/ Out \/ Deactivate \/ PutSuper
  BY <1>1, <1>t DEF Start, AllocSbi, AllocMetadata, Works, Fails, Out, Deactivate,
     PutSuper, NoneMade
<1>2. CASE CheckMagic
  <2>1. k = 1 /\ \A j \in DOMAIN Regions : ~(j < k)
    BY <1>2, <1>t DEF CheckMagic, VirtRight
  <2>2. k' = k /\ Regions' = Regions /\ pc' \in {"fill", "out"}
    BY <1>2 DEF CheckMagic, Regions
  <2> QED
    BY <2>1, <2>2 DEF NoneMade
<1>3. CASE Fill
  <2>1. CASE pc' = "out"
    BY <2>1 DEF NoneMade
  <2>2. CASE pc' # "out"
    <3>1. /\ pc = "fill" /\ pc' = "fill" /\ k' = k + 1 /\ Regions' = Regions
          /\ k \in DOMAIN Regions
      BY <1>3, <1>t, <2>2
      DEF Fill, FillPlain, FillIoremapFails, FillVmallocFails, FillInflated, Filling,
          Filled, Fails, Regions
    <3>2. ~Makes(k)
      <4> SUFFICES ASSUME Makes(k) PROVE FALSE
        OBVIOUS
      <4>1. Obtained(image, Regions[k]) = "vmalloc"
        <5>1. Regions[k].size # 0 /\ Regions[k].compressed
          BY DEF Makes
        <5> QED
          BY <5>1 DEF Obtained, IsRegionXip
      <4> QED
        BY <1>3, <2>2, <4>1
        DEF Makes, Fill, FillPlain, FillIoremapFails, FillVmallocFails, FillInflated, Fails
    <3>3. ASSUME NEW j \in DOMAIN Regions, j < k + 1
          PROVE  ~Makes(j)
      BY <1>t, <3>1, <3>2, <3>3 DEF NoneMade
    <3>4. \A j : Makes(j)' <=> Makes(j)
      BY <3>1 DEF Makes
    <3> QED
      BY <3>1, <3>3, <3>4 DEF NoneMade
  <2> QED
    BY <2>1, <2>2
<1>4. CASE FillMetadata
  <2>1. /\ pc = "fill" /\ k > Len(Regions) /\ Regions' = Regions
        /\ pc' \in {"oops", "check"}
    BY <1>4 DEF FillMetadata, Regions
  <2>2. \A j \in DOMAIN Regions : j < k
    BY <1>t, <2>1
  <2> QED
    BY <2>1, <2>2 DEF NoneMade, Makes
<1>5. CASE CheckSuper \/ CreateRoot \/ AllocRoot \/ InitProfiling \/ AllocBuffers \/ Mounted
  <2>1. /\ Regions' = Regions
        /\ pc \in Going \ {"sbi", "metadata", "magic", "fill"}
        /\ pc' \in {"out", "root", "dentry", "profiling", "buffers", "done", "mounted"}
    BY <1>5 DEF CheckSuper, CreateRoot, AllocRoot, InitProfiling, AllocBuffers, Mounted,
       Works, Fails, Regions
  <2> QED
    BY <2>1 DEF NoneMade, Makes
<1>6. CASE UNCHANGED vars
  BY <1>6 DEF vars, NoneMade, Makes, Regions
<1> QED
  BY <1>1, <1>2, <1>3, <1>4, <1>5, <1>6 DEF Next

(* A mount that is given up holds a root dentry only where a buffer has    *)
(* failed, and finds a table without an address only where its mapping has.*)
Explained ==
  /\ pc \in {"out", "failed"} /\ "dentry" \in mem => "buffers" \in fault
  /\ OopsesKnown

LEMMA ExplainedNext ==
  ASSUME MountInv, Explained, [Next]_vars
  PROVE  Explained'
<1>t. /\ image \in Images /\ pc \in States /\ VirtRight
      /\ pc \in Going => mem \ {"manager"} = Had(pc)
      /\ Len(Regions) \in Nat /\ DOMAIN Regions = 1 .. Len(Regions)
      /\ k \in 1 .. Len(Regions) + 1 /\ k \in Nat
  BY RegionsAre DEF MountInv, Types, MemRight
<1> USE DEF Explained, OopsesKnown
<1>1. CASE FillMetadata
  <2>1. /\ pc = "fill" /\ k > Len(Regions) /\ fault' = fault /\ pc' \in {"oops", "check"}
    BY <1>1 DEF FillMetadata
  <2> SUFFICES ASSUME pc' = "oops" PROVE "ioremap" \in fault
    BY <2>1
  <2>2. PICK j \in DOMAIN Regions :
          Regions[j].table /\ Regions[j].size > 0 /\ virt[j] = "null"
    BY <1>1 DEF FillMetadata
  <2>3. FilledRight(j)
    <3>1. j < k
      BY <1>t, <2>1
    <3> QED
      BY <1>t, <2>1, <3>1 DEF VirtRight
  <2>4. Obtained(image, Regions[j]) # "null"
    <3>1. Regions[j].force_va /\ Regions[j].size # 0
      BY <1>t, <2>2, MountAssumption DEF Regions
    <3> QED
      BY <3>1 DEF Obtained
  <2> QED
    BY <2>2, <2>3, <2>4 DEF FilledRight
<1>2. CASE AllocSbi \/ AllocMetadata \/ CheckMagic \/ Fill \/ CheckSuper \/ CreateRoot \/ AllocRoot
  <2>1. /\ pc \in {"sbi", "metadata", "magic", "fill", "check", "root", "dentry"}
        /\ pc' # "oops" /\ pc' # "failed"
        /\ pc' = "out" => mem' \subseteq mem
    BY <1>2 DEF AllocSbi, AllocMetadata, CheckMagic, Fill, FillPlain, FillIoremapFails,
       FillVmallocFails, FillInflated, Filling, Filled, CheckSuper, CreateRoot, AllocRoot,
       Works, Fails
  <2>2. "dentry" \notin mem
    BY <1>t, <2>1 DEF Going, States, Had, Tables, Base
  <2> QED
    BY <2>1, <2>2
<1>3. CASE Start \/ InitProfiling \/ AllocBuffers \/ Mounted \/ PutSuper
  BY <1>3 DEF Start, InitProfiling, AllocBuffers, Mounted, PutSuper, Works
<1>4. CASE Out \/ Deactivate
  BY <1>4 DEF Out, Deactivate
<1>5. CASE UNCHANGED vars
  BY <1>5 DEF vars
<1> QED
  BY <1>1, <1>2, <1>3, <1>4, <1>5 DEF Next

(* A mount succeeds, if the image is sound and nothing fails, and only     *)
(* with all that reads and unmount need and with the image's own bytes in  *)
(* every region that is addressable; and if it does not it says so, unless *)
(* a buffer or a mapping failed.  Of images of which no sound one has a    *)
(* compressed region, and no other has only such as do not inflate.        *)
THEOREM MountsHold ==
  NoneInflating(Images) /\ NoneGarbling(Images) => (Spec => []MountsRight)
<1> SUFFICES ASSUME NoneInflating(Images), NoneGarbling(Images)
             PROVE  Spec => []MountsRight
  OBVIOUS
<1>1. Init => Unfailed /\ NoneMade /\ Explained
  BY DEF Init, Unfailed, NoneMade, Going, Explained, OopsesKnown
<1>2. MountInv /\ Unfailed /\ NoneMade /\ Explained /\ [Next]_vars
        => (Unfailed /\ NoneMade /\ Explained)'
  BY UnfailedNext, MadeNext, ExplainedNext
<1>3. MountInv /\ Unfailed /\ NoneMade /\ Explained => MountsRight
  <2> SUFFICES ASSUME MountInv, Unfailed, NoneMade, Explained PROVE MountsRight
    OBVIOUS
  <2>1. TypeOK
    BY DEF MountInv, Types, TypeOK, States
  <2>2. SoundImageMounts
    BY DEF Unfailed, SoundImageMounts
  <2>3. MountedWhole
    <3> SUFFICES ASSUME pc = "mounted" PROVE MountedWhole
      BY DEF MountedWhole
    <3>1. mem \ {"manager"} = {"sbi", "metadata", "root", "dentry"} \cup Buffers
      BY DEF MountInv, MemRight, Going, States, Had
    <3>2. \A j \in DOMAIN Regions :
            FilledRight(j) /\ (Regions[j].table => virt[j] = Obtained(image, Regions[j]))
      BY DEF MountInv, VirtRight, Going, States
    <3>3. image.magic /\ (image.root_is_dir \/ Garbled # {})
      BY DEF MountInv, Checked, Going, States
    <3>4. ASSUME NEW j \in DOMAIN Regions
          PROVE  \/ virt[j] = Obtained(image, Regions[j])
                 \/ /\ "ioremap" \in fault
                    /\ Obtained(image, Regions[j]) = "ioremap" /\ ~Regions[j].table
      BY <3>2 DEF FilledRight
    <3>5. Garbled = {}
      <4> SUFFICES ASSUME NEW j \in DOMAIN Regions, virt[j] = "vmalloc",
                          Regions[j].compressed, ~Regions[j].inflates
                   PROVE  FALSE
        BY DEF Garbled
      <4>0. image \in Images
        BY DEF MountInv, Types
      <4>1. Regions[j].size > 0
        <5>1. Regions[j].size \in Nat
          BY <4>0, RegionsAre
        <5>2. Obtained(image, Regions[j]) = "vmalloc"
          BY <3>2 DEF FilledRight
        <5>3. Regions[j].size # 0
          BY <5>2 DEF Obtained
        <5> QED
          BY <5>1, <5>3
      <4>2. Compressed(image, FALSE)
        BY <4>0, <4>1, MountAssumption DEF Compressed, Regions
      <4>3. Compressed(image, TRUE)
        BY <4>0, <4>2 DEF NoneGarbling, Garbling
      <4>4. PICK i \in DOMAIN Regions : Makes(i)
        BY <4>3 DEF Compressed, Makes, Regions
      <4> QED
        BY <4>4 DEF NoneMade, Going, States
    <3> QED
      BY <3>1, <3>3, <3>4, <3>5 DEF MountedWhole, Buffers
  <2>4. OopsesKnown
    BY DEF Explained
  <2> QED
    BY <2>1, <2>2, <2>3, <2>4 DEF MountsRight
<1> QED
  BY <1>1, <1>2, <1>3, MountInvariant, PTL DEF Spec

-----------------------------------------------------------------------------
(* Of a plain image, with no failure but those before the first region, no *)
(* mount gets to out once a region is filled.                              *)
Minor == Plain(image) /\ fault \subseteq {"sbi", "metadata", "ioremap"}

Clean ==
  Minor =>
    /\ pc = "out" => mem \subseteq Tables /\ \A j \in DOMAIN virt : virt[j] = "null"
    /\ pc \in {"failed", "idle"} => ~Leftover

LEMMA CleanNext ==
  ASSUME MountInv, Clean, [Next]_vars
  PROVE  Clean'
<1>t. /\ image \in Images /\ pc \in States /\ DOMAIN virt = DOMAIN Regions
      /\ VirtRight /\ MemRight
  BY DEF MountInv, Types
<1> SUFFICES ASSUME Minor'
             PROVE  /\ pc' = "out" => mem' \subseteq Tables
                                      /\ \A j \in DOMAIN virt' : virt'[j] = "null"
                    /\ pc' \in {"failed", "idle"} => ~Leftover'
  BY DEF Clean
<1>1. CASE Start \/ FillMetadata \/ InitProfiling \/ Mounted
  BY <1>1 DEF Start, FillMetadata, InitProfiling, Mounted, Works
<1>2. CASE AllocSbi \/ AllocMetadata \/ CheckMagic
  <2>1. /\ pc \in {"sbi", "metadata", "magic"} /\ UNCHANGED virt
        /\ pc' = "out" => mem' = mem
        /\ pc' \in {"metadata", "magic", "fill", "out"}
    BY <1>2 DEF AllocSbi, AllocMetadata, CheckMagic, Works, Fails
  <2>2. mem = Had(pc) /\ \A j \in DOMAIN virt : virt[j] = "null"
    BY <1>t, <2>1 DEF MemRight, VirtRight
  <2>3. Had(pc) \subseteq Tables
    BY <2>1 DEF Had, Tables, Base
  <2> QED
    BY <2>1, <2>2, <2>3
<1>3. CASE Fill
  <2>1. pc' = "fill" \/ pc' = "out"
    BY <1>3 DEF Fill, FillPlain, FillIoremapFails, FillVmallocFails, FillInflated,
       Filling, Filled, Fails
  <2>2. pc' # "out"
    <3> SUFFICES ASSUME pc' = "out" PROVE FALSE
      OBVIOUS
    <3>1. CASE FillVmallocFails
      BY <3>1 DEF FillVmallocFails, Fails, Minor
    <3>2. CASE FillInflated
      <4>1. /\ Len(Regions) \in Nat /\ DOMAIN Regions = 1 .. Len(Regions)
            /\ k \in 1 .. Len(Regions) + 1
        BY <1>t, RegionsAre DEF MountInv, Types
      <4>2. k \in DOMAIN Regions
        BY <3>2, <4>1 DEF FillInflated, Filling
      <4>3. k \in DOMAIN image.regions /\ image.regions[k].compressed /\ image' = image
        BY <3>2, <4>2 DEF FillInflated, Filling, Filled, Regions
      <4> QED
        BY <4>3 DEF Minor, Plain
    <3> QED
      BY <1>3, <3>1, <3>2 DEF Fill, FillPlain, FillIoremapFails, Filling, Filled
  <2> QED
    BY <2>1, <2>2
<1>4. CASE CheckSuper
  <2>1. Plain(image) => RootIsDir = {TRUE}
    <3>1. image.root_is_dir \in BOOLEAN
      BY <1>t, MountAssumption
    <3> QED
      BY <3>1 DEF Plain, RootIsDir, Garbled, Regions
  <2>2. Plain(image)
    BY <1>4 DEF CheckSuper, Minor
  <2>3. PICK is_dir \in RootIsDir : pc' = IF is_dir THEN "root" ELSE "out"
    BY <1>4 DEF CheckSuper
  <2>4. is_dir = TRUE
    BY <2>1, <2>2
  <2>5. pc' = "root"
    BY <2>3, <2>4
  <2> QED
    BY <2>5
<1>5. CASE CreateRoot \/ AllocRoot \/ AllocBuffers
  <2>1. \/ pc' \in {"dentry", "profiling", "done"}
        \/ fault' \cap {"root", "dentry", "buffers"} # {}
    BY <1>5 DEF CreateRoot, AllocRoot, AllocBuffers, Works, Fails
  <2> QED
    BY <2>1 DEF Minor
<1>6. CASE Out
  <2>1. /\ pc = "out" /\ pc' = "failed" /\ UNCHANGED <<image, virt, fault>>
        /\ mem' = mem \ {"fsi", "onmedia", "metadata", "sbi"}
    BY <1>6 DEF Out
  <2>2. mem \subseteq Tables /\ \A j \in DOMAIN virt : virt[j] = "null"
    BY <2>1 DEF Clean, Minor
  <2>3. mem' = {}
    BY <2>1, <2>2 DEF Tables, Base
  <2> QED
    BY <2>1, <2>2, <2>3 DEF Leftover
<1>7. CASE Deactivate
  BY <1>7 DEF Deactivate, Clean, Minor, Leftover
<1>8. CASE PutSuper
  BY <1>8 DEF PutSuper, Leftover, NoVirt
<1>9. CASE UNCHANGED vars
  BY <1>9 DEF vars, Clean, Minor, Leftover
<1> QED
  BY <1>1, <1>2, <1>3, <1>4, <1>5, <1>6, <1>7, <1>8, <1>9 DEF Next

(* An unmount leaves nothing allocated, nor does a mount of a plain image  *)
(* that fails before the first region is filled.                           *)
THEOREM NothingLeftHolds == Spec => []NothingLeft
<1>1. Init => Clean
  BY DEF Init, Clean, Leftover, NoVirt
<1>2. MountInv /\ Clean /\ [Next]_vars => Clean'
  BY CleanNext
<1>3. Clean => NothingLeft
  BY DEF Clean, NothingLeft, Minor
<1> QED
  BY <1>1, <1>2, <1>3, MountInvariant, PTL DEF Spec

-----------------------------------------------------------------------------
(* An unmount frees each region as the mount obtained it, if no region     *)
(* that must be addressable lies on both media.                            *)
THEOREM FreedHolds == NoneSplit(Images) => (Spec => []FreedAsObtained)
<1> SUFFICES ASSUME NoneSplit(Images) PROVE Spec => []FreedAsObtained
  OBVIOUS
<1>1. Init => FreedAsObtained
  BY DEF Init, FreedAsObtained
<1>2. ASSUME MountInv, FreedAsObtained, [Next]_vars
      PROVE  FreedAsObtained'
  <2>1. CASE PutSuper
    <3> SUFFICES ASSUME NEW j \in DOMAIN virt, virt[j] # "null"
                 PROVE  virt[j] = FreedBy(j)
      BY <2>1 DEF PutSuper, FreedAsObtained
    <3> DEFINE r == Regions[j]
    <3>1. /\ image \in Images /\ j \in DOMAIN Regions
          /\ virt[j] = Obtained(image, r)
      BY <1>2 DEF MountInv, Types
    <3>2. ~(r.force_va /\ IsRegionXip(image, r) /\ image.mmap_size < End(r) /\ r.size > 0)
      BY <3>1 DEF NoneSplit, HasSplit, Regions
    <3>3. r.size > 0
      <4>1. r.size \in Nat
        BY <3>1, RegionsAre
      <4>2. r.size # 0
        BY <3>1 DEF Obtained
      <4> QED
        BY <4>1, <4>2
    <3> HIDE DEF r
    <3>4. virt[j] = IF IsRegionXip(image, r) THEN "ioremap" ELSE "vmalloc"
      BY <3>1, <3>2, <3>3 DEF Obtained
    <3> QED
      BY <3>4 DEF FreedBy, r
  <2>2. CASE ~PutSuper
    BY <1>2, <2>2
    DEF FreedAsObtained, Next, Start, AllocSbi, AllocMetadata, CheckMagic, Fill,
        FillPlain, FillIoremapFails, FillVmallocFails, FillInflated, Filled,
        FillMetadata, CheckSuper, CreateRoot, AllocRoot, InitProfiling, AllocBuffers,
        Mounted, Out, Deactivate, Works, Fails, vars
  <2> QED
    BY <2>1, <2>2
<1> QED
  BY <1>1, <1>2, MountInvariant, PTL DEF Spec
-----------------------------------------------------------------------------
(***************************************************************************)
(* Proofs about AxfsGetSb, for any mount(2) calls.  The invariant says,    *)
(* for every place in the code, what has been tried by then, what the      *)
(* attempts brought and what is held.                                      *)
(***************************************************************************)

(* The options, once they are parsed.                                      *)
Given(q) ==
  /\ Accepted(q)
  /\ physaddr = IF q.given THEN q.physaddr ELSE "zero"
  /\ secondary_blk_dev = (q.given /\ q.block_dev)

(* The MTD device that the request tells is there and can be pointed at.   *)
GoodMtd(q) == q.config_mtd /\ IsMtd(q) /\ q.mtd = "good"

(* The places at which no call has begun, those inside the MTD attempt and *)
(* those inside the block device attempt.                                  *)
AtRest  == {"idle", "parse"}
InMtd   == {"mtdnr", "point", "mtd_put", "oops"}
InBlock == {"open", "read", "close", "path_out"}

(* What the attempts that are over have shown, and what is in hand.        *)
Tried ==
  /\ req \in Requests
  /\ gpc \in AtRest => physaddr = "zero" /\ secondary_blk_dev = FALSE
  /\ gpc \notin AtRest \cup {"return"} => Given(req)
  /\ gpc \in {"mtd", "block"} \cup InMtd \cup InBlock => physaddr # "good"
  /\ gpc \in InMtd => req.config_mtd
  /\ gpc \in {"mtdnr", "point"} => IsMtd(req)
  /\ gpc = "point" => req.mtd # "absent"
  /\ gpc \in {"block"} \cup InBlock \/ (gpc = "mtd_put" /\ output = "error")
       => ~GoodMtd(req)
  /\ gpc \in InBlock => req.path # "none"
  /\ gpc \in {"open", "read", "close"} =>
       IsBlk(req) /\ ~req.nodev /\ ~secondary_blk_dev
  /\ gpc \in {"read", "close"} => req.opens
  /\ output = "block" => gpc \in {"close", "path_out", "return"}

(* What the attempt in progress has brought.                               *)
Brought ==
  /\ gpc \in AtRest \cup {"physaddr", "mtd", "mtdnr", "point", "block", "open", "read"}
       => output = "error"
  /\ gpc = "mtd_put" => output = IF GoodMtd(req) THEN "mtd" ELSE "error"
  /\ gpc = "close" => output = IF req.reads THEN "block" ELSE "error"
  /\ gpc = "path_out" => output = Medium(req)
  /\ gpc = "out" => output = Medium(req) /\ output \in {"memory", "mtd"}
  /\ gpc # "return" => vfs = "none"
  /\ FirstMedium

(* The references in hand.  The buffer is kept once it was read; the path  *)
(* is given back by both attempts, although the first may not have it.     *)
InHand ==
  /\ held \in [Kinds -> {-1, 0, 1}]
  /\ held["path"] \in
       IF gpc \in InBlock \/ (gpc \in InMtd /\ req.path # "none") THEN {1}
       ELSE IF gpc \in {"block", "out", "return"} /\ Untaken(req) THEN {-1}
       ELSE IF gpc = "idle" THEN {-1, 0}
       ELSE {0}
  /\ held["mtd"] = IF gpc = "point" THEN 1 ELSE 0
  /\ held["bdev"] = IF gpc \in {"read", "close"} THEN 1 ELSE 0
  /\ held["bh"] \in
       IF gpc \in {"close", "path_out", "return"} /\ output = "block" THEN {1}
       ELSE IF gpc = "idle" THEN {0, 1}
       ELSE {0}

HandsInv == GetSbTypeOK /\ Tried /\ InHand

-----------------------------------------------------------------------------
LEMMA HandsInit == GetSbInit => HandsInv
  BY GetSbAssumption
  DEF GetSbInit, HandsInv, GetSbTypeOK, Tried, InHand, AtRest, InMtd, InBlock, Kinds,
      None, PhysAddrs

(* A request, as GetSbAssumption describes it.                             *)
Formed(q) ==
  /\ {q.config_mtd, q.given, q.block_dev, q.unknown, q.nodev, q.opens, q.reads}
       \subseteq BOOLEAN
  /\ q.physaddr \in PhysAddrs
  /\ q.mtd \in {"absent", "unpointable", "busy", "good"}

LEMMA HandsNext == HandsInv /\ [GetSbNext]_getsbvars => HandsInv'
<1> SUFFICES ASSUME HandsInv, [GetSbNext]_getsbvars PROVE HandsInv'
  OBVIOUS
<1>f. Formed(req)
  BY GetSbAssumption DEF Formed, HandsInv, Tried
<1> USE <1>f DEF HandsInv, GetSbTypeOK, Tried, Given, InHand, AtRest, InMtd, InBlock,
                 Kinds, Untaken, Goto, Formed
<1>1. CASE GetSbCall
  BY <1>1 DEF GetSbCall, None
<1>2. CASE ParseAxfsOptions
  BY <1>2 DEF ParseAxfsOptions, Accepted, PhysAddrs
<1>3. CASE GetSbPhysaddr
  BY <1>3 DEF GetSbPhysaddr
<1>4. CASE NoMtd
  BY <1>4 DEF NoMtd, GoodMtd
<1>5. CASE MtdPath
  BY <1>5 DEF MtdPath, Take, IsMtd, GoodMtd
<1>6. CASE MtdName
  BY <1>6 DEF MtdName, IsMtd, GoodMtd
<1>7. CASE MtdAbsent
  BY <1>7 DEF MtdAbsent
<1>8. CASE MtdGet
  BY <1>8 DEF MtdGet, Take
<1>9. CASE MtdPoint
  BY <1>9 DEF MtdPoint, Give, GoodMtd
<1>10. CASE MtdPut
  BY <1>10 DEF MtdPut, Give, GoodMtd
<1>11. CASE BlockNoPath
  BY <1>11 DEF BlockNoPath
<1>12. CASE BlockPath
  BY <1>12 DEF BlockPath, Take
<1>13. CASE BlockOpen
  BY <1>13 DEF BlockOpen, Take
<1>14. CASE BlockRead
  BY <1>14 DEF BlockRead, Take
<1>15. CASE BlockClose
  BY <1>15 DEF BlockClose, Give
<1>16. CASE BlockPathOut
  BY <1>16 DEF BlockPathOut, Give
<1>17. CASE GetSbOut
  BY <1>17 DEF GetSbOut
<1>18. CASE GetSbReturn
  BY <1>18 DEF GetSbReturn, PhysAddrs
<1>19. CASE UNCHANGED getsbvars
  BY <1>19 DEF getsbvars
<1> QED
  BY <1>1, <1>2, <1>3, <1>4, <1>5, <1>6, <1>7, <1>8, <1>9, <1>10, <1>11, <1>12, <1>13, <1>14, <1>15, <1>16, <1>17, <1>18, <1>19
  DEF GetSbNext, GetSbMtd, GetSbBlock

-----------------------------------------------------------------------------
(* What Medium(q) comes to, attempt by attempt.                            *)
LEMMA MediumCases ==
  ASSUME NEW q \in Requests
  PROVE  /\ ~Accepted(q) => Medium(q) = "error"
         /\ Accepted(q) /\ q.given /\ q.physaddr = "good" => Medium(q) = "memory"
         /\ Accepted(q) /\ ~(q.given /\ q.physaddr = "good") =>
              Medium(q) = IF GoodMtd(q) THEN "mtd"
                          ELSE IF IsBlk(q) /\ ~q.nodev /\ q.opens /\ q.reads
                                    /\ ~(q.given /\ q.block_dev)
                               THEN "block" ELSE "error"
<1>1. Formed(q)
  BY GetSbAssumption DEF Formed
<1>2. CASE q.given /\ (q.unknown \/ q.physaddr \in {"absent", "malformed", "zero"})
  BY <1>2 DEF Accepted, Medium
<1>3. CASE q.given /\ ~(q.unknown \/ q.physaddr \in {"absent", "malformed", "zero"})
  <2>1. CASE q.physaddr = "good"
    BY <1>3, <2>1 DEF Accepted, Medium
  <2>2. CASE q.physaddr # "good"
    BY <1>1, <1>3, <2>2 DEF Accepted, Medium, GoodMtd
  <2> QED
    BY <2>1, <2>2
<1>4. CASE ~q.given
  BY <1>1, <1>4 DEF Accepted, Medium, GoodMtd
<1> QED
  BY <1>2, <1>3, <1>4

LEMMA BroughtInit == GetSbInit => Brought
  BY DEF GetSbInit, Brought, AtRest, FirstMedium

LEMMA BroughtNext ==
  NoNull(Requests) /\ HandsInv /\ Brought /\ [GetSbNext]_getsbvars => Brought'
<1> SUFFICES ASSUME NoNull(Requests), HandsInv, Brought, [GetSbNext]_getsbvars
             PROVE  Brought'
  OBVIOUS
<1>f. /\ Formed(req) /\ req \in Requests
      /\ req.path \in {"mtdblock", "mtdchar", "block", "other", "none"}
      /\ req.name \in {"mtd:", "mtdN", "other"}
  BY GetSbAssumption DEF Formed, HandsInv, Tried
<1> USE <1>f, MediumCases
    DEF HandsInv, GetSbTypeOK, Tried, Brought, Given, FirstMedium, AtRest, InMtd,
        InBlock, Goto, Formed
<1>1. CASE GetSbCall
  BY <1>1 DEF GetSbCall
<1>2. CASE ParseAxfsOptions
  BY <1>2 DEF ParseAxfsOptions
<1>3. CASE GetSbPhysaddr
  BY <1>3 DEF GetSbPhysaddr
<1>4. CASE NoMtd
  BY <1>4 DEF NoMtd, GoodMtd
<1>5. CASE MtdPath
  BY <1>5 DEF MtdPath, NoNull, IsMtd, GoodMtd
<1>6. CASE MtdName
  BY <1>6 DEF MtdName, IsMtd, GoodMtd
<1>7. CASE MtdAbsent
  BY <1>7 DEF MtdAbsent
<1>8. CASE MtdGet
  BY <1>8 DEF MtdGet
<1>9. CASE MtdPoint
  BY <1>9 DEF MtdPoint, GoodMtd
<1>10. CASE MtdPut
  BY <1>10 DEF MtdPut, GoodMtd
<1>11. CASE BlockNoPath
  BY <1>11 DEF BlockNoPath, IsBlk
<1>12. CASE BlockPath
  BY <1>12 DEF BlockPath
<1>13. CASE BlockOpen
  BY <1>13 DEF BlockOpen
<1>14. CASE BlockRead
  BY <1>14 DEF BlockRead
<1>15. CASE BlockClose
  BY <1>15 DEF BlockClose
<1>16. CASE BlockPathOut
  BY <1>16 DEF BlockPathOut
<1>17. CASE GetSbOut
  BY <1>17 DEF GetSbOut
<1>18. CASE GetSbReturn
  BY <1>18 DEF GetSbReturn
<1>19. CASE UNCHANGED getsbvars
  BY <1>19 DEF getsbvars
<1> QED
  BY <1>1, <1>2, <1>3, <1>4, <1>5, <1>6, <1>7, <1>8, <1>9, <1>10, <1>11, <1>12, <1>13, <1>14, <1>15, <1>16, <1>17, <1>18, <1>19
  DEF GetSbNext, GetSbMtd, GetSbBlock

(* Whatever a mount(2) call meets on its way, the references that it took  *)
(* are given back once each by the time axfs_get_sb returns, except that   *)
(* of the buffer of a block device that was read; and nothing else is,     *)
(* except a path where a device was told by an MTD name.                   *)
THEOREM BalancedHolds == GetSbSpec => []Balanced
<1>1. HandsInv => Balanced
  <2> SUFFICES ASSUME HandsInv, gpc = "return", NEW x \in Kinds, held[x] # 0
               PROVE  \/ x = "path" /\ Untaken(req)
                      \/ x = "bh" /\ output = "block"
    BY DEF Balanced
  <2> QED
    BY DEF HandsInv, InHand, InBlock, InMtd, Kinds
<1> QED
  BY <1>1, HandsInit, HandsNext, PTL DEF GetSbSpec

(* A mount(2) call ends with the first medium that it asks for and that    *)
(* answers, and the VFS is told that one: for any calls of which none has  *)
(* the MTD attempt decline with a NULL pointer.                            *)
THEOREM MediumIsRight == NoNull(Requests) => (GetSbSpec => []MediumRight)
<1> SUFFICES ASSUME NoNull(Requests) PROVE GetSbSpec => []MediumRight
  OBVIOUS
<1>1. HandsInv /\ Brought => MediumRight
  BY DEF HandsInv, Brought, MediumRight
<1> QED
  BY <1>1, HandsInit, HandsNext, BroughtInit, BroughtNext, PTL DEF GetSbSpec
=============================================================================
