----------------------------- MODULE AxfsHuffman -----------------------------
(***************************************************************************)
(* The prefix codes of the inflater the host tool uses (stb_image.h): the  *)
(* tables stbi__zbuild_huffman makes of the lengths of the codes, and how  *)
(* a symbol is found from them, by a table over the next bits for the      *)
(* short codes and by length for the others.                               *)
(***************************************************************************)
EXTENDS Integers, FiniteSets

CONSTANTS
  MAXLEN,    \* the longest code, 15
  FAST_BITS  \* STBI__ZFAST_BITS, 9

ASSUME HuffmanAssumption == FAST_BITS \in 1 .. MAXLEN

(* stbi__bit_reverse: the n low bits of v, the last one first.             *)
BitReverse(v, n) ==
  LET rev[i \in 0 .. n] ==
        IF i = 0 THEN 0 ELSE 2 * rev[i - 1] + ((v \div 2^(i - 1)) % 2)
  IN  rev[n]

(* The number of codes of each length.                                     *)
SizesOf(sizelist) ==
  [s \in 1 .. MAXLEN |->
     Cardinality({k \in DOMAIN sizelist : sizelist[k] = s})]

FirstCodes(sizes) ==
  LET code[s \in 1 .. MAXLEN] ==
        IF s = 1 THEN 0 ELSE 2 * (code[s - 1] + sizes[s - 1])
  IN  code

FirstSymbols(sizes) ==
  LET k[s \in 1 .. MAXLEN] == IF s = 1 THEN 0 ELSE k[s - 1] + sizes[s - 1]
  IN  k

(* How many symbols of its length come before symbol k.                    *)
Rank(sizelist, k) ==
  Cardinality({j \in DOMAIN sizelist : j < k /\ sizelist[j] = sizelist[k]})

(* What stbi__zbuild_huffman does not refuse.                              *)
Accepted(sizes, firstcode) ==
  \A s \in 1 .. MAXLEN :
    /\ sizes[s] <= 2^s
    /\ sizes[s] > 0 => firstcode[s] + sizes[s] - 1 < 2^s

(* The tables, for symbols whose codes have the lengths in sizelist; 0 is  *)
(* that of a symbol without a code.  fast[j] is the symbol whose code the  *)
(* bits j begin with, or none; value has the symbols in the order of their *)
(* codes.                                                                  *)
Build(sizelist) ==
  LET sizes == SizesOf(sizelist)
      firstcode == FirstCodes(sizes)
      firstsymbol == FirstSymbols(sizes)
      coded == {k \in DOMAIN sizelist : sizelist[k] > 0}
      code(k) == firstcode[sizelist[k]] + Rank(sizelist, k)
      place(k) == firstsymbol[sizelist[k]] + Rank(sizelist, k)
      begin(j) == {k \in coded :
                     /\ sizelist[k] <= FAST_BITS
                     /\ BitReverse(code(k), sizelist[k]) = j % 2^sizelist[k]}
  IN  [firstcode |-> firstcode, firstsymbol |-> firstsymbol,
       maxcode |-> [s \in 1 .. MAXLEN + 1 |->
          IF s <= MAXLEN THEN (firstcode[s] + sizes[s]) * 2^(MAXLEN + 1 - s)
          ELSE 2^(MAXLEN + 1)],
       size |-> sizelist,
       value |-> [c \in {place(k) : k \in coded} |->
                    CHOOSE k \in coded : place(k) = c],
       fast |-> [j \in 0 .. 2^FAST_BITS - 1 |-> begin(j)]]

(* There is no such code, or an assertion fails.                           *)
NoSymbol == -1
AssertFails == -2

(* stbi__zhuffman_decode_slowpath: the shortest length left whose codes    *)
(* are not all below the bits, read as a number, and the symbol at its     *)
(* place, asserted to be one of that length.                               *)
DecodeSlow(z, buf) ==
  LET k == BitReverse(buf % 2^(MAXLEN + 1), MAXLEN + 1)
      s == CHOOSE s \in FAST_BITS + 1 .. MAXLEN + 1 :
             /\ k < z.maxcode[s]
             /\ \A t \in FAST_BITS + 1 .. s - 1 : ~(k < z.maxcode[t])
      b == k \div 2^(MAXLEN + 1 - s) - z.firstcode[s] + z.firstsymbol[s]
  IN  IF s = MAXLEN + 1 THEN [symbol |-> NoSymbol, s |-> 0]
      ELSE IF b \in DOMAIN z.value /\ z.size[z.value[b]] = s
      THEN [symbol |-> z.value[b], s |-> s]
      ELSE [symbol |-> AssertFails, s |-> 0]

(* stbi__zhuffman_decode, on the bits in the buffer.                       *)
Decode(z, buf) ==
  LET found == z.fast[buf % 2^FAST_BITS]
  IN  IF found = {} THEN DecodeSlow(z, buf)
      ELSE LET k == CHOOSE k \in found : \A j \in found : j <= k
           IN  [symbol |-> k, s |-> z.size[k]]
=============================================================================
