-------------------------------- MODULE MCGetSb --------------------------------
(***************************************************************************)
(* Instances of AxfsGetSb: every combination of options with every device. *)
(***************************************************************************)
EXTENDS AxfsGetSb

Options ==
  [given : {FALSE}, physaddr : {"absent"}, block_dev : {FALSE}, unknown : {FALSE}]
  \cup [given : {TRUE}, physaddr : PhysAddrs, block_dev : BOOLEAN, unknown : BOOLEAN]

Join(config_mtd, options, devices) ==
  {[config_mtd |-> config_mtd, given |-> o.given, physaddr |-> o.physaddr,
    block_dev |-> o.block_dev, unknown |-> o.unknown, path |-> d.path,
    name |-> d.name, nodev |-> d.nodev, mtd |-> d.mtd, opens |-> d.opens,
    reads |-> d.reads] : o \in options, d \in devices}

Devices(paths, names, mtds) ==
  [path : paths, name : names, nodev : BOOLEAN, mtd : mtds,
   opens : BOOLEAN, reads : BOOLEAN]

(* With MTD: MTD devices told by a path or a name, some of which cannot be *)
(* pointed at or are not there, and other things on a mount without        *)
(* devices.  Without it: any device.                                       *)
MCRequests ==
  UNION {
    Join(TRUE, Options,
         Devices({"mtdblock", "mtdchar"}, {"mtdN"}, {"unpointable", "busy", "good"})),
    Join(TRUE, Options,
         {d \in Devices({"block", "other"}, {"other"}, {"absent"}) : d.nodev}),
    Join(TRUE, Options,
         Devices({"mtdblock", "none"}, {"mtd:", "mtdN", "other"}, {"absent", "good"})),
    Join(FALSE, Options,
         Devices({"mtdblock", "mtdchar", "block", "other", "none"},
                 {"mtd:"}, {"good"}))}

(* What MediumIsRight (AxfsSuperProofs) assumes of the requests.           *)
ASSUME MCRequestsAssumption == NoNull(MCRequests)

(* A block device that is not an MTD device.                               *)
MCRequestsBlock == Join(TRUE, Options, Devices({"block"}, {"other"}, {"absent"}))

(* An MTD device that is told by its name.                                 *)
MCRequestsName == Join(TRUE, Options, Devices({"none"}, {"mtd:"}, {"good"}))

(* A block device, without MTD.                                            *)
MCRequestsRead == Join(FALSE, Options, Devices({"block"}, {"other"}, {"absent"}))

(* An MTD device number that there is no device for.                       *)
MCRequestsAbsent == Join(TRUE, Options, Devices({"mtdblock"}, {"other"}, {"absent"}))
=============================================================================
