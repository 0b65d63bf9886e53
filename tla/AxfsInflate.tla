----------------------------- MODULE AxfsInflate -----------------------------
(***************************************************************************)
(* The inflater of the host tool (the zlib part of stb_image.h): a call of *)
(* one of its entry points, from the header to the last block.  The bytes  *)
(* of the input and the bits read ahead of them, the three kinds of block, *)
(* the codes a block brings along, and the output, which may be given more *)
(* room as it grows.                                                       *)
(*                                                                         *)
(* The numbers of the format (bits in a byte, symbols, bases of lengths    *)
(* and distances) are constants.  The two bytes of the zlib header are not *)
(* looked into: a stream has a good one, or has not.                       *)
(*                                                                         *)
(* Where the code writes behind an array, fails an assertion or computes   *)
(* an int that is none, the call goes astray ("undefined") and nothing is  *)
(* said of it from there on; where it comes to a loop that does not end,   *)
(* it stays there ("endless").                                             *)
(***************************************************************************)
EXTENDS AxfsHuffman, Sequences

CONSTANTS
  Calls,          \* the calls: a stream, the output buffer, the entry point
  BITS,           \* bits in a byte, 8
  LITERALS,       \* the literals, 256; the next symbol ends a block
  LengthBase, LengthExtra, DistBase, DistExtra,  \* from symbol 0 on
  FixedLength, FixedDist,   \* stbi__zdefault_length, stbi__zdefault_distance
  Dezigzag,       \* length_dezigzag
  HLIT, HDIST, HCLEN, HSIZE,      \* bits of the numbers before codes: 5 5 4 3
  Repeat,         \* <<bits, least>> for the three symbols that repeat
  LENCODES,       \* the room for the lengths of codes, 286 + 32 + 137
  UINT            \* the values of an unsigned int, the half of them of an int

(***************************************************************************)
(* A call is a record:                                                     *)
(*   bytes         the input, behind the zlib header                       *)
(*   header        whether the header is good                              *)
(*   parse_header  whether the entry point has it parsed                   *)
(*   expandable    whether the entry point allocates the output            *)
(*   olen          the bytes of output there is room for at first          *)
(*   known, means  the output the stream stands for (known = "good"); "bad" *)
(*                 is a stream that is not one, "any" one that is cut off  *)
(***************************************************************************)

INT == UINT \div 2   \* the ints from 0 on

(* An entry point that allocates is asked for some room; the others take   *)
(* what they are given.                                                    *)
ASSUME CallsAssumption ==
  \A c \in Calls :
    /\ c.bytes \in Seq(0 .. 2^BITS - 1)
    /\ c.expandable \in BOOLEAN
    /\ c.olen \in 0 .. INT - 1
    /\ c.expandable => c.olen > 0

(* What is received at once fits the bit buffer as it is filled, there is  *)
(* an entry in the tables for every symbol that can have a code, and no    *)
(* code of a length or of a fixed block is too long.                       *)
ASSUME FormatAssumption ==
  /\ BITS \in Nat \ {0} /\ MAXLEN \in Nat /\ LITERALS \in Nat /\ UINT \in Nat
  /\ \A n \in {2, MAXLEN + 1, HLIT, HDIST, HCLEN, HSIZE} : n \in 0 .. 3 * BITS
  /\ \A i \in 1 .. 3 : Repeat[i][1] \in 0 .. 3 * BITS /\ Repeat[i][2] \in Nat
  /\ \A i \in 1 .. 2^HLIT - 1 :
       LengthBase[i] \in Nat /\ LengthExtra[i] \in 0 .. 3 * BITS
  /\ \A i \in 1 .. 2^HDIST :
       DistBase[i] \in Nat /\ DistExtra[i] \in 0 .. 3 * BITS
  /\ FixedLength \in [0 .. LITERALS + 2^HLIT - 1 -> 0 .. MAXLEN]
  /\ FixedDist \in [0 .. 2^HDIST - 1 -> 0 .. MAXLEN]
  /\ 2^HSIZE - 1 <= MAXLEN

VARIABLES
  pc,       \* "idle", "start", "block", "stored", "sizes", "lengths",
            \* "symbols", "done", "failed", "undefined", "endless"
  call,
  bits,     \* zbuffer, num_bits and code_buffer, and how many bits are taken
            \* (history)
  final,
  codes,    \* the locals of stbi__compute_huffman_codes
  z_length, z_distance,
  zout,     \* the output so far
  limit,    \* zout_end - zout_start
  held,     \* whether an output buffer is allocated
  nomemory  \* whether none could be (history)

vars == <<pc, call, bits, final, codes, z_length, z_distance, zout, limit,
          held, nomemory>>

END == LITERALS
NoCodes == <<>>

-----------------------------------------------------------------------------
(* Bits.                                                                   *)

(* stbi__zget8, of the byte at place i.                                    *)
ByteAt(i) == IF i <= Len(call.bytes) THEN call.bytes[i] ELSE 0

(* How many bytes stbi__fill_bits takes: until no more fits.               *)
FilledBy(num) == (3 * BITS - num) \div BITS + 1

Fill(b) ==
  LET n == FilledBy(b.num)
      buf[i \in 0 .. n] ==
        IF i = 0 THEN b.buf
        ELSE buf[i - 1] + ByteAt(b.at + i) * 2^(b.num + (i - 1) * BITS)
      at == b.at + n
  IN  [b EXCEPT !.buf = buf[n], !.num = @ + n * BITS,
                !.at = IF at > Len(call.bytes) THEN Len(call.bytes) ELSE at]

(* n bits are used up; those behind the end of the input are not counted.  *)
Take(b, n) ==
  LET taken == b.taken + n
      all == Len(call.bytes) * BITS
  IN  [b EXCEPT !.buf = @ \div 2^n, !.num = @ - n,
                !.taken = IF taken > all THEN all ELSE taken]

Ready(b, n) == IF b.num < n THEN Fill(b) ELSE b

(* stbi__zreceive: the next n bits, and the buffer without them.           *)
Receive(b, n) ==
  LET f == Ready(b, n) IN [v |-> f.buf % 2^n, b |-> Take(f, n)]

(* The next symbol of code z.                                              *)
Symbol(b, z) ==
  LET f == Ready(b, MAXLEN + 1)
      d == Decode(z, f.buf)
  IN  [v |-> d.symbol, b |-> Take(f, d.s)]

-----------------------------------------------------------------------------
Init ==
  /\ pc = "start"
  /\ call \in Calls
  /\ bits = [at |-> 0, num |-> 0, buf |-> 0, taken |-> 0]
  /\ final = 0
  /\ codes = NoCodes
  /\ z_length = NoCodes /\ z_distance = NoCodes
  /\ zout = <<>>
  /\ limit = call.olen
  /\ held = FALSE
  /\ nomemory = FALSE

(* The call fails, and what it allocated is freed.                         *)
Fail ==
  /\ pc' = "failed"
  /\ held' = FALSE
  /\ UNCHANGED <<call, bits, final, codes, z_length, z_distance, zout, limit>>

Refused == Fail /\ UNCHANGED nomemory
NoMemory == Fail /\ nomemory' = TRUE

(* The call gets where nothing is said of it any more.                     *)
Astray(where) ==
  /\ pc' = where
  /\ UNCHANGED <<call, bits, final, codes, z_length, z_distance, zout, limit,
                 held, nomemory>>

Strays == Astray("undefined")

(* There is no such symbol.                                                *)
NotDecoded(v) == v < 0 /\ IF v = NoSymbol THEN Refused ELSE Strays

(* The entry points: the output is allocated or given, the header parsed.  *)
Start ==
  /\ pc = "start"
  /\ \/ call.expandable /\ NoMemory
     \/ call.parse_header /\ ~call.header /\ Refused
     \/ /\ call.parse_header => call.header
        /\ pc' = "block"
        /\ held' = call.expandable
        /\ UNCHANGED <<call, bits, final, codes, z_length, z_distance, zout,
                       limit, nomemory>>

(* The header of a block (stbi__parse_zlib).                               *)
Block ==
  /\ pc = "block"
  /\ \E f \in {Receive(bits, 1)} : \E type \in {Receive(f.b, 2)} :
       /\ final' = f.v
       /\ bits' = type.b
       /\ UNCHANGED <<call, codes, zout, limit, nomemory>>
       /\ pc' = IF type.v = 0 THEN "stored" ELSE IF type.v = 3 THEN "failed"
                ELSE IF type.v = 1 THEN "symbols" ELSE "sizes"
       /\ held' = (held /\ type.v # 3)
       /\ IF type.v = 1
          THEN z_length' = Build(FixedLength) /\ z_distance' = Build(FixedDist)
          ELSE UNCHANGED <<z_length, z_distance>>

(* A block ends, and with the final one the call.                          *)
AfterBlock == IF final = 1 THEN "done" ELSE "block"

(* The room, doubled until n bytes fit.                                    *)
Doubled(room, n) ==
  LET twice[i \in 0 .. n] == IF i = 0 THEN room ELSE 2 * twice[i - 1]
  IN  twice[CHOOSE i \in 0 .. n : /\ twice[i] >= n
                                  /\ \A j \in 0 .. i - 1 : twice[j] < n]

(* Mutant: the room is doubled once.                                       *)
ExpandedOnce(n) == IF limit < n THEN 2 * limit ELSE limit

(* stbi__zexpand to n bytes in all, in numbers without an end.             *)
Expanded(n) == Doubled(limit, n)

(* What is twice an int may be none.  As compiled it turns negative and    *)
(* zero after that, whose doubling does not end, or it comes to be another *)
(* number: there is no telling.                                            *)
Overflows == \E where \in {"endless", "undefined"} : Astray(where)

(* The bytes in more are written, if there is or can be room for them, and *)
(* the input is b from there on.                                           *)
Write(more, b, next) ==
  LET n == Len(zout) + Len(more)
      grows == n > limit /\ call.expandable
  IN  \/ /\ n <= limit \/ (grows /\ Expanded(n) < INT)
         /\ pc' = next
         /\ bits' = b
         /\ zout' = zout \o more
         /\ limit' = Expanded(n)
         /\ UNCHANGED <<call, final, codes, z_length, z_distance, held, nomemory>>
      \/ grows /\ Expanded(n) < INT /\ NoMemory
      \/ grows /\ Expanded(n) >= INT /\ Overflows
      \/ n > limit /\ ~call.expandable /\ Refused

-----------------------------------------------------------------------------
(* stbi__parse_uncomperssed_block.                                         *)

(* The bytes of the header that are in the bit buffer already.             *)
Drained(b) == b.num \div BITS

(* The rest of the byte is discarded, then four bytes make the header.     *)
Aligned == Take(bits, bits.num % BITS)

HeaderByte(b, i) ==
  IF i < Drained(b) THEN (b.buf \div 2^(i * BITS)) % 2^BITS
  ELSE ByteAt(b.at + i - Drained(b) + 1)

(* Where the data is.                                                      *)
StoredFrom(b) == b.at + 4 - Drained(b)

(* Two bytes of the header, the low one first.                             *)
HeaderWord(b, i) == HeaderByte(b, i + 1) * 2^BITS + HeaderByte(b, i)

Stored ==
  /\ pc = "stored"
  /\ LET b == Aligned
         len  == HeaderWord(b, 0)
         nlen == HeaderWord(b, 2)
         from == StoredFrom(b)
     IN  IF \/ nlen + len # 2^(2 * BITS) - 1
            \/ from + len > Len(call.bytes)
         THEN Refused
         ELSE Write(SubSeq(call.bytes, from + 1, from + len),
                    [at |-> from + len, num |-> 0, buf |-> 0,
                     taken |-> b.taken + (4 + len) * BITS], AfterBlock)

-----------------------------------------------------------------------------
(* stbi__compute_huffman_codes.                                            *)

(* The codes of the lengths: their sizes, of which some may be left out.   *)
FirstSize ==
  /\ pc = "sizes" /\ codes = NoCodes
  /\ \E hlit \in {Receive(bits, HLIT)} : \E hdist \in {Receive(hlit.b, HDIST)} :
     \E hclen \in {Receive(hdist.b, HCLEN)} :
       /\ bits' = hclen.b
       /\ codes' = [hlit |-> hlit.v + END + 1, hdist |-> hdist.v + 1,
                    hclen |-> hclen.v + 4, got |-> 0,
                    sizes |-> [s \in 0 .. MAXLEN + 3 |-> 0],
                    z |-> NoCodes, lencodes |-> <<>>]
  /\ UNCHANGED <<pc, call, final, z_length, z_distance, zout, limit, held,
                 nomemory>>

(* Which symbol the next size is that of.                                  *)
SizePlace(i) == Dezigzag[i + 1]

NextSize ==
  /\ pc = "sizes" /\ codes # NoCodes
  /\ IF codes.got < codes.hclen
     THEN LET s == Receive(bits, HSIZE)
          IN  /\ bits' = s.b
              /\ codes' = [codes EXCEPT !.got = @ + 1,
                                        !.sizes[SizePlace(codes.got)] = s.v]
              /\ UNCHANGED <<pc, call, final, z_length, z_distance, zout, limit,
                             held, nomemory>>
     ELSE IF Accepted(SizesOf(codes.sizes), FirstCodes(SizesOf(codes.sizes)))
     THEN /\ codes' = [codes EXCEPT !.z = Build(codes.sizes)]
          /\ pc' = "lengths"
          /\ UNCHANGED <<call, bits, final, z_length, z_distance, zout, limit,
                         held, nomemory>>
     ELSE Refused

(* The length before the next one; before the first there is any byte.     *)
LengthBefore ==
  IF codes.lencodes = <<>> THEN 0 .. 2^BITS - 1
  ELSE {codes.lencodes[Len(codes.lencodes)]}

(* n lengths s are added, and the input is b from there on; those behind   *)
(* the room for them are written to something else, or to nothing that     *)
(* matters.                                                                *)
AddLengths(n, s, b) ==
  \/ /\ codes' = [codes EXCEPT !.lencodes = @ \o [i \in 1 .. n |-> s]]
     /\ bits' = b
     /\ UNCHANGED <<pc, call, final, z_length, z_distance, zout, limit, held,
                    nomemory>>
  \/ Len(codes.lencodes) + n > LENCODES /\ Strays

NextLength ==
  /\ pc = "lengths"
  /\ Len(codes.lencodes) < codes.hlit + codes.hdist
  /\ \E c \in {Symbol(bits, codes.z)} :
       \/ NotDecoded(c.v)
       \/ c.v \in 0 .. MAXLEN /\ AddLengths(1, c.v, c.b)
       \/ /\ c.v > MAXLEN
          /\ \E n \in {Receive(c.b, Repeat[c.v - MAXLEN][1])} :
             \E s \in IF c.v = MAXLEN + 1 THEN LengthBefore ELSE {0} :
               AddLengths(n.v + Repeat[c.v - MAXLEN][2], s, n.b)

(* The lengths from place a to place b, of the symbols from 0 on.          *)
Sizelist(a, b) == [k \in 0 .. b - a |-> codes.lencodes[a + k]]

(* A length that the arrays of stbi__zbuild_huffman have no place for.     *)
TooLong == \E i \in 1 .. Len(codes.lencodes) : codes.lencodes[i] > MAXLEN

BuildCodes ==
  /\ pc = "lengths"
  /\ Len(codes.lencodes) >= codes.hlit + codes.hdist
  /\ LET lit  == Sizelist(1, codes.hlit)
         dist == Sizelist(codes.hlit + 1, codes.hlit + codes.hdist)
         fits(l) == Accepted(SizesOf(l), FirstCodes(SizesOf(l)))
     IN  IF Len(codes.lencodes) # codes.hlit + codes.hdist THEN Refused
         ELSE IF TooLong THEN Strays \/ Refused
         ELSE IF fits(lit) /\ fits(dist)
         THEN /\ z_length' = Build(lit)
              /\ z_distance' = Build(dist)
              /\ codes' = NoCodes
              /\ pc' = "symbols"
              /\ UNCHANGED <<call, bits, final, zout, limit, held, nomemory>>
         ELSE Refused

-----------------------------------------------------------------------------
(* stbi__parse_huffman_block, one symbol.                                  *)

EndBlock(c) ==
  /\ c.v = END
  /\ pc' = AfterBlock
  /\ bits' = c.b
  /\ UNCHANGED <<call, final, codes, z_length, z_distance, zout, limit, held,
                 nomemory>>

Literal(c) ==
  /\ c.v \in 0 .. LITERALS - 1
  /\ Write(<<c.v>>, c.b, pc)

(* Mutant: what lies dist bytes back is copied as it was.                  *)
CopiedFlat(len, dist) ==
  [i \in 1 .. len |-> zout[IF i <= dist THEN Len(zout) - dist + i ELSE 1]]

(* The bytes of a match, which may run into those it writes.               *)
Copied(len, dist) ==
  [i \in 1 .. len |-> zout[Len(zout) - dist + 1 + ((i - 1) % dist)]]

(* What may lie in the room for the output where nothing was written yet:  *)
(* two of all the bytes there are.                                         *)
Unwritten == {0, 2^BITS - 1}

(* A match of no distance takes what it is about to write.                 *)
Match(c) ==
  /\ c.v > END
  /\ \E more \in {Receive(c.b, LengthExtra[c.v - END])} :
     \E d \in {Symbol(more.b, z_distance)} :
       IF d.v < 0 THEN NotDecoded(d.v)
       ELSE \E far \in {Receive(d.b, DistExtra[d.v + 1])} :
            \E left \in Unwritten :
              LET len  == LengthBase[c.v - END] + more.v
                  dist == DistBase[d.v + 1] + far.v
              IN  IF dist > Len(zout) THEN Refused
                  ELSE IF dist = 0 THEN Write([i \in 1 .. len |-> left], far.b, pc)
                  ELSE Write(Copied(len, dist), far.b, pc)

NextSymbol ==
  /\ pc = "symbols"
  /\ \E c \in {Symbol(bits, z_length)} :
       \/ NotDecoded(c.v)
       \/ EndBlock(c) \/ Literal(c) \/ Match(c)

(* The call has returned, or does not go on.                               *)
Returned ==
  pc \in {"done", "failed", "undefined", "endless"} /\ UNCHANGED vars

Next ==
  \/ Start \/ Block \/ Stored \/ FirstSize \/ NextSize \/ NextLength
  \/ BuildCodes \/ NextSymbol

Spec == Init /\ [][Next \/ Returned]_vars /\ WF_vars(Next)

-----------------------------------------------------------------------------
TypeOK ==
  /\ pc \in {"idle", "start", "block", "stored", "sizes", "lengths", "symbols",
             "done", "failed", "undefined", "endless"}
  /\ bits.num \in 0 .. 4 * BITS
  /\ bits.buf \in 0 .. 2^bits.num - 1
  /\ bits.at \in 0 .. Len(call.bytes)
  /\ final \in {0, 1}
  /\ \A i \in 1 .. Len(zout) : zout[i] \in 0 .. 2^BITS - 1
  /\ held \in BOOLEAN /\ nomemory \in BOOLEAN

(* Bit i of the input, from 0 on; behind the end of it there are zeros.    *)
BitAt(i) == (ByteAt(i \div BITS + 1) \div 2^(i % BITS)) % 2

(* The bits read ahead are the next ones of the input, and the next byte   *)
(* to read is the one behind them, also when a stored block has taken its  *)
(* header out of the bit buffer and the rest from the bytes.               *)
ReadAhead ==
  /\ \A i \in 0 .. bits.num - 1 :
       (bits.buf \div 2^i) % 2 = BitAt(bits.taken + i)
  /\ bits.at < Len(call.bytes) => bits.at * BITS = bits.taken + bits.num

(* A call goes astray only where a stream, which is none then, asks for it *)
(* and the code does not look: with a length before the first one that no  *)
(* code has, with so many lengths that the room for them can be too small, *)
(* or with more output than an int can tell.  There are four types of      *)
(* block, a symbol of a match is where the tables have an entry, and the   *)
(* assertions hold.                                                        *)
LongestRun == Repeat[3][2] + 2^Repeat[3][1] - 1
Crammed == codes.hlit + codes.hdist - 1 + LongestRun > LENCODES
Outgrown ==
  call.expandable /\ 2 * (Len(zout) + 2^(2 * BITS) - 1) > INT

Legible ==
  pc = "undefined" =>
    \/ call.known # "good" /\ codes # NoCodes /\ (TooLong \/ Crammed)
    \/ Outgrown

(* What is written is what the stream stands for, symbol for symbol,       *)
(* whichever way the codes of the symbols are found.                       *)
Means ==
  call.known = "good" =>
    /\ Len(zout) <= Len(call.means)
    /\ zout = SubSeq(call.means, 1, Len(zout))
    /\ pc = "done" => zout = call.means

(* The output stays in the room there is for it, which is one that an int *)
(* can tell and grows only for an entry point that allocates; a failed     *)
(* call keeps nothing allocated, and only one that may grow comes to a     *)
(* loop that does not end.                                                 *)
OutputFits ==
  /\ Len(zout) <= limit
  /\ limit < INT
  /\ ~call.expandable => limit = call.olen /\ ~held
  /\ pc = "failed" => ~held
  /\ pc = "done" => held = call.expandable
  /\ pc = "endless" => held /\ call.expandable

(* A call fails only for a reason: no header or stream, no memory, or no   *)
(* room; it never makes something of a stream that is none, and one that   *)
(* stands for no more than half of what an int can tell comes to an end.   *)
RefusesRight ==
  /\ pc = "failed" =>
       \/ call.parse_header /\ ~call.header
       \/ call.known # "good"
       \/ nomemory
       \/ ~call.expandable /\ Len(call.means) > call.olen
  /\ pc = "done" => call.known # "bad" /\ (call.parse_header => call.header)
  /\ pc = "endless" /\ call.known = "good" => 2 * Len(call.means) > INT

(* Every call returns or goes astray, also for a stream that is cut off,   *)
(* unless the output has outgrown what the doubling of an int can tell: a  *)
(* stream whose code of zeros is a literal does not end before that.       *)
Lost == pc = "undefined" \/ (pc = "endless" /\ Outgrown)

Ends == pc = "start" ~> pc \in {"done", "failed"} \/ Lost

(* A stream is inflated to what it stands for, bit by bit, or refused for  *)
(* a reason.                                                               *)
InflatesRight == TypeOK /\ ReadAhead /\ Legible /\ Means /\ RefusesRight
=============================================================================
