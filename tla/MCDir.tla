-------------------------------- MODULE MCDir --------------------------------
(***************************************************************************)
(* Instance of AxfsDir: a root directory of four entries, two of which     *)
(* begin with the same letter and one with a byte above 127, and a         *)
(* directory in it with a device and a link.                               *)
(***************************************************************************)
EXTENDS AxfsDir, TLC

CONSTANTS f1, s1, s2, s3

SlotSymmetry == Permutations(Slots)

a == 97  b == 98  c == 99  high == 195

MCmode ==
  0 :> 4 * 4096 + 493 @@ 1 :> 8 * 4096 + 420 @@ 2 :> 4 * 4096 + 493 @@
  3 :> 8 * 4096 + 493 @@ 4 :> 8 * 4096 + 420 @@ 5 :> 2 * 4096 + 416 @@
  6 :> 10 * 4096 + 511

MCname ==
  0 :> <<>> @@ 1 :> <<a>> @@ 2 :> <<a, c>> @@ 3 :> <<b>> @@
  4 :> <<high, a>> @@ 5 :> <<a>> @@ 6 :> <<b, b>>

MCnum_entries  == [n \in 0 .. 6 |-> CASE n = 0 -> 4 [] n = 2 -> 2 [] OTHER -> 1]
MCarray_index  == [n \in 0 .. 6 |-> CASE n = 0 -> 1 [] n = 2 -> 5 [] OTHER -> n]
MCfile_size    == [n \in 0 .. 6 |-> n + 10]

(* char is signed.                                                         *)
MCCharMin == -128

(* Entries, and names before, between and behind them.                     *)
MCNames == {<<a>>, <<a, c>>, <<b>>, <<high, a>>, <<b, b>>, <<high, b>>}
=============================================================================
