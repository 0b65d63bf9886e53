------------------------------- MODULE AxfsGetSb -------------------------------
(***************************************************************************)
(* axfs_get_sb (axfs_super.c): which medium a mount(2) call is served      *)
(* from.  The mount options may give a physical address, and a second      *)
(* block device; otherwise the device is tried as an MTD device, then as a *)
(* block device.  Whichever answers brings the on-media superblock         *)
(* (axfs_fill_super_info), with which the VFS is asked for a superblock.   *)
(*                                                                         *)
(* An error pointer makes the code try the next medium.  Memory is always  *)
(* had.  An MTD device that can be pointed at has a physical address       *)
(* (mtd_get_partition_physaddr is not in the repository).  No option sets  *)
(* the virtual address, so that axfs_get_sb_virtaddr always declines.      *)
(***************************************************************************)
EXTENDS Integers

CONSTANT Requests \* mount(2) calls: records of the kernel, the options, the device

(* The kernel:    config_mtd (whether CONFIG_MTD is defined)               *)
(* The options:   given; physaddr ("absent", "malformed", "zero",          *)
(*                "unaligned", "unmappable", "good"); block_dev (whether   *)
(*                there is one); unknown (whether there is an option that  *)
(*                axfs does not know)                                      *)
(* The device:    path ("mtdblock", "mtdchar", "block", "other" for what   *)
(*                dev_name leads to, or "none"); name (how dev_name        *)
(*                begins: "mtd:", "mtdN", "other"); nodev (MNT_NODEV);     *)
(*                mtd (the MTD device: "absent", "unpointable", "busy" or  *)
(*                "good"); opens, reads (the block device)                 *)
PhysAddrs == {"absent", "malformed", "zero", "unaligned", "unmappable", "good"}
ASSUME GetSbAssumption ==
  \A q \in Requests :
    /\ {q.config_mtd, q.given, q.block_dev, q.unknown, q.nodev, q.opens, q.reads}
         \subseteq BOOLEAN
    /\ q.physaddr \in PhysAddrs
    /\ q.path \in {"mtdblock", "mtdchar", "block", "other", "none"}
    /\ q.name \in {"mtd:", "mtdN", "other"}
    /\ q.mtd \in {"absent", "unpointable", "busy", "good"}

VARIABLES
  gpc,
  req,               \* the call
  physaddr,          \* as parse_axfs_options left it
  secondary_blk_dev, \* whether it is not NULL
  output,            \* "error", "null", or what the superblock was read from
  held,              \* held[x]: references to x taken and not given back
  vfs                \* what the VFS is asked: "none", "nodev", "dev_name",
                     \* or "secondary" (get_sb_bdev of that device)

getsbvars == <<gpc, req, physaddr, secondary_blk_dev, output, held, vfs>>

Kinds == {"path", "mtd", "bdev", "bh"}
None  == [x \in Kinds |-> 0]
Take(x) == held' = [held EXCEPT ![x] = @ + 1]
Give(x) == held' = [held EXCEPT ![x] = @ - 1]

GetSbInit ==
  /\ gpc = "idle"
  /\ req \in Requests
  /\ physaddr = "zero" /\ secondary_blk_dev = FALSE
  /\ output = "error"
  /\ held = None
  /\ vfs = "none"

-----------------------------------------------------------------------------
Goto(at, to) == gpc = at /\ gpc' = to

(* The call is made again and again, unless it left a reference behind or  *)
(* gave back one too many.                                                 *)
GetSbCall ==
  /\ Goto("idle", "parse") /\ held = None
  /\ UNCHANGED <<req, physaddr, secondary_blk_dev, output, held, vfs>>

(* Options must give an address that is not 0, and nothing else that is    *)
(* not known.                                                              *)
Accepted(q) ==
  ~q.given \/ (q.physaddr \notin {"absent", "malformed", "zero"} /\ ~q.unknown)

ParseAxfsOptions ==
  /\ gpc = "parse"
  /\ IF Accepted(req)
     THEN /\ gpc' = "physaddr"
          /\ physaddr' = IF req.given THEN req.physaddr ELSE "zero"
          /\ secondary_blk_dev' = (req.given /\ req.block_dev)
     ELSE /\ gpc' = "return"
          /\ UNCHANGED <<physaddr, secondary_blk_dev>>
  /\ UNCHANGED <<req, output, held, vfs>>

(* axfs_get_sb_physaddr, and axfs_get_sb_virtaddr, which declines.         *)
GetSbPhysaddr ==
  /\ gpc = "physaddr"
  /\ IF physaddr = "good" THEN gpc' = "out" /\ output' = "memory"
                          ELSE gpc' = "mtd" /\ output' = "error"
  /\ UNCHANGED <<req, physaddr, secondary_blk_dev, held, vfs>>

-----------------------------------------------------------------------------
(* axfs_get_sb_mtd.                                                        *)

NoMtd ==
  /\ ~req.config_mtd
  /\ Goto("mtd", "block")
  /\ UNCHANGED <<req, physaddr, secondary_blk_dev, output, held, vfs>>

(* path_lookup finds the device.  What is neither an MTD device nor on a   *)
(* mount without devices leaves err at 0, which makes no error pointer.    *)
MtdPath ==
  /\ req.config_mtd /\ req.path # "none"
  /\ Goto("mtd", IF req.path \in {"mtdblock", "mtdchar"} THEN "mtdnr" ELSE "mtd_put")
  /\ output' = IF req.path \in {"mtdblock", "mtdchar"} \/ req.nodev
               THEN "error" ELSE "null"
  /\ Take("path")
  /\ UNCHANGED <<req, physaddr, secondary_blk_dev, vfs>>

(* It does not, and the name tells the device: mtd:<name> looks for it     *)
(* among the devices there are, mtd<number> takes any number.              *)
MtdName ==
  /\ req.config_mtd /\ req.path = "none"
  /\ Goto("mtd", IF req.name = "mtdN" \/ (req.name = "mtd:" /\ req.mtd # "absent")
                 THEN "mtdnr" ELSE "mtd_put")
  /\ output' = "error"
  /\ UNCHANGED <<req, physaddr, secondary_blk_dev, held, vfs>>

(* axfs_get_sb_mtdnr.  A device that is not there is put, too.             *)
MtdAbsent ==
  /\ req.mtd = "absent"
  /\ Goto("mtdnr", "oops")
  /\ UNCHANGED <<req, physaddr, secondary_blk_dev, output, held, vfs>>

MtdGet ==
  /\ req.mtd # "absent"
  /\ Goto("mtdnr", "point")
  /\ Take("mtd")
  /\ UNCHANGED <<req, physaddr, secondary_blk_dev, output, vfs>>

(* Mutant: a device that cannot be pointed at is not put.                  *)
MtdPointKeeps ==
  /\ Goto("point", "mtd_put")
  /\ output' = IF req.mtd = "good" THEN "mtd" ELSE "error"
  /\ IF req.mtd = "unpointable" THEN UNCHANGED held ELSE Give("mtd")
  /\ UNCHANGED <<req, physaddr, secondary_blk_dev, vfs>>

MtdPoint ==
  /\ Goto("point", "mtd_put")
  /\ output' = IF req.mtd = "good" THEN "mtd" ELSE "error"
  /\ Give("mtd")
  /\ UNCHANGED <<req, physaddr, secondary_blk_dev, vfs>>

(* path_put, however the device was found.                                 *)
MtdPut ==
  /\ Goto("mtd_put", IF output = "error" THEN "block" ELSE "out")
  /\ Give("path")
  /\ UNCHANGED <<req, physaddr, secondary_blk_dev, output, vfs>>

-----------------------------------------------------------------------------
(* axfs_get_sb_block.                                                      *)

BlockNoPath ==
  /\ req.path = "none"
  /\ Goto("block", "return")
  /\ UNCHANGED <<req, physaddr, secondary_blk_dev, output, held, vfs>>

IsBlk(q) == q.path \in {"mtdblock", "block"}

(* Mutant: a mount without devices is not looked for.                      *)
BlockPathAny ==
  /\ req.path # "none"
  /\ Goto("block", IF secondary_blk_dev \/ ~IsBlk(req) THEN "path_out" ELSE "open")
  /\ Take("path")
  /\ UNCHANGED <<req, physaddr, secondary_blk_dev, output, vfs>>

BlockPath ==
  /\ req.path # "none"
  /\ Goto("block", IF secondary_blk_dev \/ ~IsBlk(req) \/ req.nodev
                   THEN "path_out" ELSE "open")
  /\ Take("path")
  /\ UNCHANGED <<req, physaddr, secondary_blk_dev, output, vfs>>

BlockOpen ==
  /\ Goto("open", IF req.opens THEN "read" ELSE "path_out")
  /\ IF req.opens THEN Take("bdev") ELSE UNCHANGED held
  /\ UNCHANGED <<req, physaddr, secondary_blk_dev, output, vfs>>

(* __bread of block 0.                                                     *)
BlockRead ==
  /\ Goto("read", "close")
  /\ IF req.reads THEN Take("bh") /\ output' = "block"
                  ELSE UNCHANGED <<held, output>>
  /\ UNCHANGED <<req, physaddr, secondary_blk_dev, vfs>>

(* close_bdev_exclusive and free_buffer_head (after path_put, on success). *)
(* The latter frees the head of a buffer that nobody has.  It does not     *)
(* give back what __bread has taken, as brelse would: the buffer cache     *)
(* goes on with a head that is in use for good, and free.                  *)
BlockClose ==
  /\ Goto("close", "path_out")
  /\ Give("bdev")
  /\ UNCHANGED <<req, physaddr, secondary_blk_dev, output, vfs>>

BlockPathOut ==
  /\ Goto("path_out", "return")
  /\ vfs' = IF output = "block" THEN "dev_name" ELSE "none"
  /\ Give("path")
  /\ UNCHANGED <<req, physaddr, secondary_blk_dev, output>>

-----------------------------------------------------------------------------
(* The label out: the image, or the beginning of it, is in memory.         *)
GetSbOut ==
  /\ Goto("out", "return")
  /\ vfs' = IF secondary_blk_dev THEN "secondary" ELSE "nodev"
  /\ UNCHANGED <<req, physaddr, secondary_blk_dev, output, held>>

GetSbReturn ==
  /\ Goto("return", "idle")
  /\ physaddr' = "zero" /\ secondary_blk_dev' = FALSE
  /\ output' = "error" /\ vfs' = "none"
  /\ UNCHANGED <<req, held>>

GetSbMtd ==
  NoMtd \/ MtdPath \/ MtdName \/ MtdAbsent \/ MtdGet \/ MtdPoint \/ MtdPut
GetSbBlock ==
  BlockNoPath \/ BlockPath \/ BlockOpen \/ BlockRead \/ BlockClose \/ BlockPathOut

GetSbNext ==
  \/ GetSbCall \/ ParseAxfsOptions \/ GetSbPhysaddr \/ GetSbMtd \/ GetSbBlock
  \/ GetSbOut \/ GetSbReturn

GetSbSpec == GetSbInit /\ [][GetSbNext]_getsbvars

-----------------------------------------------------------------------------
GetSbTypeOK ==
  /\ gpc \in {"idle", "parse", "physaddr", "mtd", "mtdnr", "point", "mtd_put",
             "block", "open", "read", "close", "path_out", "out", "return", "oops"}
  /\ physaddr \in PhysAddrs \ {"absent", "malformed"}
  /\ secondary_blk_dev \in BOOLEAN
  /\ output \in {"error", "null", "memory", "mtd", "block"}
  /\ \A x \in Kinds : held[x] \in {-1, 0, 1}
  /\ vfs \in {"none", "nodev", "dev_name", "secondary"}

(* "Looking for a real and valid mtd device to attach to"; "Mount from a   *)
(* mtd device but not a valid /dev/mtdXXX".                                *)
IsMtd(q) ==
  \/ q.path \in {"mtdblock", "mtdchar"}
  \/ q.path = "none" /\ q.name \in {"mtd:", "mtdN"}

(* What the request asks for, by the order of the comments of axfs_get_sb: *)
(* an address, then an MTD device, then a block device, which cannot be    *)
(* one of two.                                                             *)
Medium(q) ==
  IF q.given /\ (q.unknown \/ q.physaddr \in {"absent", "malformed", "zero"}) THEN "error"
  ELSE IF q.given /\ q.physaddr = "good" THEN "memory"
  ELSE IF q.config_mtd /\ IsMtd(q) /\ q.mtd = "good" THEN "mtd"
  ELSE IF IsBlk(q) /\ ~q.nodev /\ q.opens /\ q.reads /\ ~(q.given /\ q.block_dev)
       THEN "block"
  ELSE "error"

(* The superblock comes from the first medium that the request asks for    *)
(* and that answers, and the VFS is told to use that one: no later attempt *)
(* takes what an earlier one should have had, and none hides a later one.  *)
FirstMedium ==
  gpc = "return" =>
    /\ output = Medium(req)
    /\ vfs = IF output = "error" THEN "none"
             ELSE IF output = "block" THEN "dev_name"
             ELSE IF req.given /\ req.block_dev THEN "secondary" ELSE "nodev"

(* With MTD built in, what is not an MTD device is mounted without devices *)
(* only: nothing makes the MTD attempt decline with a NULL pointer.        *)
NoNull(requests) ==
  \A q \in requests : q.config_mtd /\ q.path \in {"block", "other"} => q.nodev

(* Whatever fails, the path, the devices and the buffer that were taken on *)
(* the way are given back once each, and nothing else is.                  *)
GivenBack == gpc = "return" => held = None

(* The MTD attempt was made of a device that no path leads to, for which   *)
(* it gives back a path that it did not take.                              *)
Untaken(q) ==
  Accepted(q) /\ physaddr # "good" /\ q.config_mtd /\ q.path = "none"

(* All that can be out of balance at the end are that path, and the buffer *)
(* of a block device that was read: the two attempts take the same path    *)
(* and leave by many exits, and put it once each; a device that could be   *)
(* opened is closed and an MTD device put, whatever came of it.            *)
Balanced ==
  gpc = "return" =>
    \A x \in Kinds : held[x] # 0 =>
      \/ x = "path" /\ Untaken(req)
      \/ x = "bh" /\ output = "block"

(* Each attempt brings "a pointer to a axfs_file_super_info or an error    *)
(* pointer": axfs_fill_super follows what is not an error pointer.         *)
PointerOrError == gpc \in {"out", "return"} => output # "null"

(* An MTD device that is not there is reported, as the code says ("MTD     *)
(* device doesn't appear to exist").                                       *)
AbsentReported == gpc # "oops"

(* axfs_get_sb ends with the first medium that answers and no other, and   *)
(* takes no device twice on the way.                                       *)
MediumRight == GetSbTypeOK /\ FirstMedium
=============================================================================
