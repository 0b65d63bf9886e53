------------------------------ MODULE AxfsRegions ------------------------------
(***************************************************************************)
(* Where the bytes of a region of the image are (the macros of axfs_fs.h), *)
(* and how axfs_do_fill_data_ptrs makes a region addressable.              *)
(*                                                                         *)
(* A mount m is a record with mapped (phys_start_addr is not 0, as         *)
(* AXFS_PHYSADDR_IS_VALID asks; virt_start_addr is always 0, since no      *)
(* mount option sets it) and mmap_size.  A region r is a record with       *)
(* fsoffset, size, compressed (compressed_size > 0), incore, and force_va  *)
(* (what axfs_do_fill_super passes for it).                                *)
(***************************************************************************)
EXTENDS Integers

IsOffsetMmapable(m, offset) == m.mapped /\ m.mmap_size >= offset

IsRegionXip(m, r) ==
  ~r.compressed /\ ~r.incore /\ IsOffsetMmapable(m, r.fsoffset)

Fsoffset2Blockoffset(m, fsoffset) ==
  IF m.mapped THEN fsoffset - m.mmap_size ELSE fsoffset

End(r) == r.fsoffset + r.size

(* What virt_addr is obtained from.                                        *)
Obtained(m, r) ==
  IF r.size = 0 THEN "null"
  ELSE IF IsRegionXip(m, r) /\ ~(r.force_va /\ m.mmap_size < End(r)) THEN "ioremap"
  ELSE IF r.incore \/ r.compressed \/ r.force_va THEN "vmalloc"
  ELSE "null"

(* How many bytes of the region that makes addressable; ioremap of no      *)
(* bytes gives no address.                                                 *)
Addressable(m, r) ==
  CASE Obtained(m, r) = "vmalloc" -> r.size
    [] Obtained(m, r) = "null" -> 0
    [] OTHER -> IF m.mmap_size > End(r) THEN r.size ELSE m.mmap_size - r.fsoffset
=============================================================================
