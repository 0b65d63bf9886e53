-------------------------------- MODULE MCMount --------------------------------
(***************************************************************************)
(* Instances of AxfsMount: an image of three regions, one for each kind    *)
(* that axfs_do_fill_super tells apart: one that must be addressable       *)
(* (strings, xip), one that need not be (compressed, byte aligned), and a  *)
(* table; the last begins and ends below, at, across, or beyond the        *)
(* boundary between the media.                                             *)
(***************************************************************************)
EXTENDS AxfsMount

Kinds == [compressed : {FALSE}, inflates : {TRUE}, incore : BOOLEAN]
KindsCompressed == [compressed : BOOLEAN, inflates : {TRUE}, incore : BOOLEAN]

Region(fsoffset, size, kind, force_va, table) ==
  [fsoffset |-> fsoffset, size |-> size, compressed |-> kind.compressed,
   inflates |-> kind.inflates, incore |-> kind.incore,
   force_va |-> force_va, table |-> table]

Image(mapped, mmap_size, size, a, b, c) ==
  [mapped |-> mapped, mmap_size |-> mmap_size, magic |-> TRUE, root_is_dir |-> TRUE,
   regions |-> <<Region(0, 2, a, TRUE, FALSE), Region(2, 2, b, FALSE, FALSE),
                 Region(4, size, c, TRUE, TRUE)>>]

Over(kinds, sizes) ==
  {Image(FALSE, 0, size, a, b, c) : size \in {0, 2}, a \in kinds, b \in kinds, c \in kinds}
    \cup {Image(TRUE, mmap_size, size, a, b, c) :
            mmap_size \in sizes, size \in {0, 2}, a \in kinds, b \in kinds, c \in kinds}

MCImagesSplit == Over(Kinds, {0, 2, 3, 4, 5, 6, 7})

Unsplit == {im \in MCImagesSplit : ~HasSplit(im)}

MCImagesCompressed == {im \in Over(KindsCompressed, {3}) : ~HasSplit(im)}

(* An image of which the first and the third region are compressed and do  *)
(* not inflate.                                                            *)
Damaged(im) ==
  [im EXCEPT !.regions[1].compressed = TRUE, !.regions[1].inflates = FALSE,
             !.regions[3].compressed = TRUE, !.regions[3].inflates = FALSE]

Repaired(im, j) == [im EXCEPT !.regions[j].compressed = TRUE, !.regions[j].inflates = TRUE]

MCImagesGarbled == {Damaged(im) : im \in Unsplit}

(* Every image without compressed or split regions, of which some have a   *)
(* bad magic number, some two compressed regions that do not inflate and   *)
(* one that does; and images with a bad root, and compressed regions that  *)
(* inflate.                                                                *)
MCImages ==
  UNION {Unsplit,
    {[im EXCEPT !.magic = FALSE] : im \in Over(Kinds, {})},
    {Repaired(im, 1) : im \in MCImagesGarbled}, {Repaired(im, 2) : im \in MCImagesGarbled},
    {[im EXCEPT !.root_is_dir = FALSE] : im \in MCImagesCompressed}}

ASSUME MCImagesAssumption == NoneInflating(MCImages) /\ NoneGarbling(MCImages) /\ NoneSplit(MCImages)
=============================================================================
