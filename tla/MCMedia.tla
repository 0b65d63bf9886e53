-------------------------------- MODULE MCMedia --------------------------------
(***************************************************************************)
(* Instances of AxfsMedia: an image of 7 bytes, block sizes of 2 and 3     *)
(* bytes, every place for the boundary between the two media, and every    *)
(* region of the image.                                                    *)
(***************************************************************************)
EXTENDS AxfsMedia

ImageSize == 7

MCMounts ==
  [mapped : BOOLEAN, mmap_size : 0 .. ImageSize, s_blocksize : {2, 3},
   size : {ImageSize}]

MCRegions ==
  {r \in [fsoffset : 0 .. 4, size : {0, 1, 3, 5}, compressed : {FALSE},
          incore : BOOLEAN, force_va : BOOLEAN] : End(r) <= ImageSize}
=============================================================================
