------------------------------- MODULE AxfsMount -------------------------------
(***************************************************************************)
(* One superblock from axfs_fill_super to axfs_put_super (axfs_super.c):   *)
(* what is allocated on the way, what each failure releases, and what an   *)
(* unmount releases.  AxfsGetSb chose the medium; AxfsMedia reads it.      *)
(*                                                                         *)
(* The regions of an image are filled in the order of axfs_do_fill_super.  *)
(* A failed mount is followed by the VFS's deactivate_super (external),    *)
(* which calls put_super if there is a root dentry.  The buffers that      *)
(* axfs_fetch_data allocates and the code uses unchecked are always had.   *)
(***************************************************************************)
EXTENDS AxfsRegions, Sequences

CONSTANTS
  Images,  \* records of mapped, mmap_size, magic, root_is_dir and regions
  MayFail  \* which of the calls named in Failures can fail

VARIABLES
  pc,
  image,    \* what is being mounted
  k,        \* the region to be filled next
  virt,     \* virt[k]: what virt_addr of region k was obtained from
  mem,      \* the rest of what is allocated
  fault,    \* the calls that have failed in this mount (history)
  misfreed  \* whether a region was freed in another way than it was obtained

vars == <<pc, image, k, virt, mem, fault, misfreed>>

Failures == {"sbi", "metadata", "vmalloc", "ioremap", "root", "dentry",
             "profiling", "buffers"}

(* A region is as AxfsRegions says; table: metadata pointers are made into *)
(* it; inflates: its compressed bytes are sound.                           *)
ASSUME MountAssumption ==
  /\ MayFail \subseteq Failures
  /\ \A im \in Images :
       /\ im.mapped \in BOOLEAN /\ im.mmap_size \in Nat
       /\ im.magic \in BOOLEAN /\ im.root_is_dir \in BOOLEAN
       /\ Len(im.regions) \in Nat /\ DOMAIN im.regions = 1 .. Len(im.regions)
       /\ \A j \in DOMAIN im.regions :
            LET r == im.regions[j] IN
            /\ r.fsoffset \in Nat /\ r.size \in Nat
            /\ {r.compressed, r.inflates, r.incore, r.force_va, r.table}
                 \subseteq BOOLEAN
            /\ r.table => r.force_va

Regions == image.regions
NoVirt == [j \in DOMAIN Regions |-> "null"]

Init ==
  /\ pc = "idle"
  /\ image \in Images
  /\ k = 1
  /\ virt = NoVirt
  /\ mem = {}
  /\ fault = {} /\ misfreed = FALSE

-----------------------------------------------------------------------------
(* A call either works and brings what, or fails: the code goes to out.    *)

Works(at, next, what) ==
  /\ pc = at /\ pc' = next
  /\ mem' = mem \cup what
  /\ UNCHANGED <<image, k, virt, fault, misfreed>>

Fails(at, call) ==
  /\ pc = at /\ pc' = "out"
  /\ call \in MayFail
  /\ fault' = fault \cup {call}
  /\ UNCHANGED <<image, k, virt, mem, misfreed>>

Leftover == mem # {} \/ \E j \in DOMAIN virt : virt[j] # "null"

(* axfs_get_sb hands over the superblock it read.  A mount that left       *)
(* something behind is the last one.                                       *)
Start ==
  /\ pc = "idle" /\ ~Leftover
  /\ pc' = "sbi" /\ k' = 1
  /\ mem' = {"fsi", "onmedia"}
  /\ fault' = {}
  /\ UNCHANGED <<image, virt, misfreed>>

AllocSbi      == Works("sbi", "metadata", {"sbi"}) \/ Fails("sbi", "sbi")
AllocMetadata == Works("metadata", "magic", {"metadata"}) \/ Fails("metadata", "metadata")

CheckMagic ==
  /\ pc = "magic"
  /\ pc' = IF image.magic THEN "fill" ELSE "out"
  /\ UNCHANGED <<image, k, virt, mem, fault, misfreed>>

(* axfs_do_fill_data_ptrs of the next region.                              *)
Filled(from) ==
  /\ virt' = [virt EXCEPT ![k] = from]
  /\ k' = k + 1
  /\ UNCHANGED <<pc, image, mem, misfreed>>

Filling == pc = "fill" /\ k <= Len(Regions)

FillPlain ==
  /\ Filling
  /\ ~(Obtained(image, Regions[k]) = "vmalloc" /\ Regions[k].compressed)
  /\ Filled(Obtained(image, Regions[k]))
  /\ UNCHANGED fault

(* A mapping that fails is not noticed.                                    *)
FillIoremapFails ==
  /\ Filling
  /\ Obtained(image, Regions[k]) = "ioremap"
  /\ "ioremap" \in MayFail
  /\ Filled("null")
  /\ fault' = fault \cup {"ioremap"}

FillVmallocFails ==
  /\ Filling
  /\ Obtained(image, Regions[k]) = "vmalloc"
  /\ Fails("fill", "vmalloc")

(* axfs_uncompress_block returns the length of what it made, or 0 when it  *)
(* could not; any other number than 0 is taken for an error.  A region of  *)
(* which it made nothing is kept as it is.                                 *)
FillInflated ==
  /\ Filling
  /\ Obtained(image, Regions[k]) = "vmalloc" /\ Regions[k].compressed
  /\ IF Regions[k].inflates
     THEN pc' = "out" /\ UNCHANGED <<image, k, virt, mem, misfreed>>
     ELSE Filled("vmalloc")
  /\ UNCHANGED fault

(* axfs_fill_metadata_ptrs: BUG() if a table has no address.               *)
FillMetadata ==
  /\ pc = "fill" /\ k > Len(Regions)
  /\ pc' = IF \E j \in DOMAIN Regions :
                Regions[j].table /\ Regions[j].size > 0 /\ virt[j] = "null"
           THEN "oops" ELSE "check"
  /\ UNCHANGED <<image, k, virt, mem, fault, misfreed>>

Fill == FillPlain \/ FillIoremapFails \/ FillVmallocFails \/ FillInflated

(* The regions whose memory does not hold what the image has for them.     *)
Garbled ==
  {j \in DOMAIN Regions :
     virt[j] = "vmalloc" /\ Regions[j].compressed /\ ~Regions[j].inflates}

(* What the mode of the root is, if a table it is looked up in is garbled, *)
(* nobody can say.                                                         *)
RootIsDir ==
  IF \E j \in Garbled : Regions[j].table THEN BOOLEAN ELSE {image.root_is_dir}

CheckSuper ==
  /\ pc = "check"
  /\ \E is_dir \in RootIsDir : pc' = IF is_dir THEN "root" ELSE "out"
  /\ UNCHANGED <<image, k, virt, mem, fault, misfreed>>

CreateRoot == Works("root", "dentry", {"root"}) \/ Fails("root", "root")

(* d_alloc_root; when it fails the root inode is released.                 *)
AllocRoot ==
  \/ Works("dentry", "profiling", {"dentry"})
  \/ /\ pc = "dentry" /\ pc' = "out"
     /\ "dentry" \in MayFail
     /\ fault' = fault \cup {"dentry"}
     /\ mem' = mem \ {"root"}
     /\ UNCHANGED <<image, k, virt, misfreed>>

(* init_axfs_profiling; its result is not looked at.                       *)
InitProfiling ==
  \/ Works("profiling", "buffers", {"manager"})
  \/ /\ pc = "profiling" /\ pc' = "buffers"
     /\ "profiling" \in MayFail
     /\ fault' = fault \cup {"profiling"}
     /\ UNCHANGED <<image, k, virt, mem, misfreed>>

(* Mutant: only the first buffer is looked at.                             *)
AllocBuffersOne ==
  \/ Works("buffers", "done", {"cblock_buffer_0", "cblock_buffer_1"})
  \/ Works("buffers", "done", {"cblock_buffer_0"})

(* Both buffers are asked for before either is looked at.  When one is not *)
(* had the root inode is released, which the root dentry holds.            *)
AllocBuffers ==
  \/ Works("buffers", "done", {"cblock_buffer_0", "cblock_buffer_1"})
  \/ \E got \in SUBSET {"cblock_buffer_0", "cblock_buffer_1"} :
       /\ pc = "buffers" /\ pc' = "out"
       /\ "buffers" \in MayFail
       /\ got # {"cblock_buffer_0", "cblock_buffer_1"}
       /\ fault' = fault \cup {"buffers"}
       /\ mem' = (mem \ {"root"}) \cup got
       /\ UNCHANGED <<image, k, virt, misfreed>>

Mounted ==
  /\ pc = "done" /\ pc' = "mounted"
  /\ mem' = mem \ {"fsi", "onmedia"}
  /\ UNCHANGED <<image, k, virt, fault, misfreed>>

-----------------------------------------------------------------------------
(* Mutant: the superblock that was read is left to the caller.             *)
OutKeepsFsi ==
  /\ pc = "out" /\ pc' = "failed"
  /\ mem' = mem \ {"metadata", "sbi"}
  /\ UNCHANGED <<image, k, virt, fault, misfreed>>

(* The label out of axfs_fill_super.  What the regions hold is not         *)
(* released.                                                               *)
Out ==
  /\ pc = "out" /\ pc' = "failed"
  /\ mem' = mem \ {"fsi", "onmedia", "metadata", "sbi"}
  /\ UNCHANGED <<image, k, virt, fault, misfreed>>

(* The VFS drops the superblock.  With a root dentry it calls put_super,   *)
(* which follows s_fs_info, now NULL.                                      *)
Deactivate ==
  /\ pc = "failed"
  /\ pc' = IF "dentry" \in mem THEN "oops" ELSE "idle"
  /\ UNCHANGED <<image, k, virt, mem, fault, misfreed>>

(* Mutant: a region is unmapped when it could have been mapped.            *)
FreedByMmapable(j) ==
  IF IsOffsetMmapable(image, Regions[j].fsoffset) THEN "ioremap" ELSE "vmalloc"

(* What axfs_free_region takes the address of region j to be obtained from.*)
FreedBy(j) == IF IsRegionXip(image, Regions[j]) THEN "ioremap" ELSE "vmalloc"

PutSuper ==
  /\ pc = "mounted" /\ pc' = "idle"
  /\ mem' = {}
  /\ virt' = NoVirt
  /\ misfreed' = \E j \in DOMAIN virt : virt[j] # "null" /\ virt[j] # FreedBy(j)
  /\ UNCHANGED <<image, k, fault>>

Next ==
  \/ Start \/ AllocSbi \/ AllocMetadata \/ CheckMagic \/ Fill \/ FillMetadata
  \/ CheckSuper \/ CreateRoot \/ AllocRoot \/ InitProfiling \/ AllocBuffers
  \/ Mounted \/ Out \/ Deactivate \/ PutSuper

Spec == Init /\ [][Next]_vars

-----------------------------------------------------------------------------
TypeOK ==
  /\ pc \in {"idle", "sbi", "metadata", "magic", "fill", "check", "root",
             "dentry", "profiling", "buffers", "done", "mounted", "out",
             "failed", "oops"}
  /\ k \in 1 .. Len(Regions) + 1
  /\ fault \subseteq MayFail
  /\ \A j \in DOMAIN Regions : virt[j] \in {"null", Obtained(image, Regions[j])}

(* A mounted image has all that reads and unmount rely on, and what was    *)
(* made addressable holds the image's bytes: no failure that matters to    *)
(* them is passed over on the way, except an XIP mapping's.                *)
MountedWhole ==
  pc = "mounted" =>
    /\ mem \ {"manager"} = {"sbi", "metadata", "root", "dentry",
                            "cblock_buffer_0", "cblock_buffer_1"}
    /\ image.magic /\ image.root_is_dir
    /\ Garbled = {}
    /\ \A j \in DOMAIN Regions :
         \/ virt[j] = Obtained(image, Regions[j])
         \/ /\ "ioremap" \in fault
            /\ Obtained(image, Regions[j]) = "ioremap" /\ ~Regions[j].table

(* No check of what the regions hold fails a mount of such an image.       *)
Plain(im) ==
  /\ im.root_is_dir
  /\ \A j \in DOMAIN im.regions : ~im.regions[j].compressed

(* An unmount leaves nothing allocated, nor does a mount that fails before *)
(* the first region is filled: of a plain image with no call failing but   *)
(* the first two, and ioremap, whose failure is not noticed.               *)
NothingLeft ==
  pc = "idle" /\ Plain(image) /\ fault \subseteq {"sbi", "metadata", "ioremap"}
    => ~Leftover

(* An unmount frees each region as it was obtained, although it decides by *)
(* other conditions than the mount did ("Unmaps or frees memory used by a  *)
(* region").                                                               *)
FreedAsObtained == ~misfreed

Sound(im) ==
  /\ im.magic /\ im.root_is_dir
  /\ \A j \in DOMAIN im.regions :
       im.regions[j].compressed => im.regions[j].inflates

(* A sound image mounts if nothing fails.                                  *)
SoundImageMounts == pc = "failed" => fault # {} \/ ~Sound(image)

(* A mount that cannot be completed returns an error number.               *)
ErrorReturned == pc # "oops"

(* The failures that end a mount otherwise: of a buffer, which leaves the  *)
(* root dentry to a superblock without s_fs_info, and of mapping a table.  *)
OopsesKnown == pc = "oops" => fault \cap {"buffers", "ioremap"} # {}

(* A mount succeeds if the image is sound and nothing fails, and only with *)
(* all that it needs, and every failure but those two is reported.         *)
MountsRight == TypeOK /\ SoundImageMounts /\ MountedWhole /\ OopsesKnown

(* Excluded of the images where a theorem says so: a compressed region in  *)
(* a sound image (FillInflated fails it) ...                               *)
Inflating(im) == Sound(im) /\ \E j \in DOMAIN im.regions : im.regions[j].compressed

(* ... a damaged one in an image that FillInflated does not fail for       *)
(* another that is sound ...                                               *)
Compressed(im, sound) ==
  \E j \in DOMAIN im.regions :
    LET r == im.regions[j] IN r.compressed /\ r.size > 0 /\ r.inflates = sound

Garbling(im) == Compressed(im, FALSE) /\ ~Compressed(im, TRUE)

(* ... and a region that must be addressable and lies on both media, or    *)
(* begins where the second one does.                                       *)
HasSplit(im) ==
  \E j \in DOMAIN im.regions :
    LET r == im.regions[j] IN
    r.force_va /\ IsRegionXip(im, r) /\ im.mmap_size < End(r) /\ r.size > 0

NoneInflating(images) == \A im \in images : ~Inflating(im)
NoneGarbling(images) == \A im \in images : ~Garbling(im)
NoneSplit(images) == \A im \in images : ~HasSplit(im)
=============================================================================
