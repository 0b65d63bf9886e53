------------------------------ MODULE MCInflate ------------------------------
(***************************************************************************)
(* Instances of AxfsInflate: a byte has 3 bits and a code at most 3, there *)
(* are the literals 0 and 1, the end (2) and two lengths (3: two, 4: three *)
(* or four), and two distances (0: one, 1: two or three); the length 5 and *)
(* the distances 2 and 3 stand for nothing.  The streams are made by an    *)
(* encoder after RFC 1951, from every assignment of lengths to the         *)
(* symbols, and from sequences of up to three sample blocks.               *)
(***************************************************************************)
EXTENDS AxfsInflate, SequencesExt

Lsb(v, n) == [i \in 1 .. n |-> (v \div 2^(i - 1)) % 2]
Msb(v, n) == Reverse(Lsb(v, n))

Before(l, j, k) == l[j] > 0 /\ (l[j] < l[k] \/ (l[j] = l[k] /\ j < k))

(* The code of symbol k: what the codes before it leave of all words.      *)
CodeOf(l, k) ==
  Msb(FoldSet(LAMBDA j, n : n + 2^(l[k] - l[j]), 0,
              {j \in DOMAIN l : Before(l, j, k)}), l[k])

(* The lengths are those of a code.                                        *)
IsCode(l) ==
  FoldSet(LAMBDA k, n : n + 2^(MAXLEN - l[k]), 0, {k \in DOMAIN l : l[k] > 0})
    <= 2^MAXLEN

Lit(v) == [v |-> v, len |-> 0, dist |-> 0]
Mat(len, dist) == [v |-> END, len |-> len, dist |-> dist]

IsLit(t) == t.v < END

Token(t, l, d) ==
  IF IsLit(t) THEN CodeOf(l, t.v)
  ELSE (IF t.len = 2 THEN CodeOf(l, 3) ELSE CodeOf(l, 4) \o Lsb(t.len - 3, 1))
       \o (IF t.dist < 2 THEN CodeOf(d, IF t.dist = 1 THEN 0 ELSE 2)
           ELSE CodeOf(d, 1) \o Lsb(t.dist - 2, 1))

Tokens(ts, l, d) ==
  FlattenSeq([i \in 1 .. Len(ts) |-> Token(ts[i], l, d)]) \o CodeOf(l, END)

(* What a token appends to the output out, byte by byte.                   *)
Apply(out, t) ==
  IF IsLit(t) THEN Append(out, t.v)
  ELSE IF t.dist = 0 THEN out
  ELSE FoldLeft(LAMBDA o, i : Append(o, o[Len(o) - t.dist + 1]), out,
                [i \in 1 .. t.len |-> i])

(* The lengths of the codes of a block, each by itself or as it is in ops: *)
(* <<length>> or <<symbol, bits of how often>>, after codes of the lengths *)
(* whose sizes are in sizes.                                               *)
Straight(l, d) ==
  [i \in 1 .. Cardinality(DOMAIN l) + Cardinality(DOMAIN d) |->
     IF i <= Cardinality(DOMAIN l) THEN <<l[i - 1]>>
     ELSE <<d[i - 1 - Cardinality(DOMAIN l)]>>]

Op(op, sizes) ==
  CodeOf(sizes, op[1])
    \o IF Len(op) = 1 THEN <<>> ELSE Lsb(op[2], Repeat[op[1] - MAXLEN][1])

Table(l, d, ops, sizes) ==
  LET used == {i \in 0 .. 6 : sizes[Dezigzag[i + 1]] > 0}
      n == IF Max(used) < 3 THEN 4 ELSE Max(used) + 1
  IN  Lsb(Cardinality(DOMAIN l) - END - 1, HLIT)
      \o Lsb(Cardinality(DOMAIN d) - 1, HDIST) \o Lsb(n - 4, HCLEN)
      \o FlattenSeq([i \in 1 .. n |-> Lsb(sizes[Dezigzag[i]], HSIZE)])
      \o FlattenSeq([i \in 1 .. Len(ops) |-> Op(ops[i], sizes)])

(* A block: [type, data] or [type, tokens] and its codes.                  *)
Stream(blocks) ==
  FoldLeft(
    LAMBDA s, i :
      LET b == blocks[i]
          head == s \o <<IF i = Len(blocks) THEN 1 ELSE 0>> \o Lsb(b.type, 2)
          pad == [j \in 1 .. ((BITS - (Len(head) % BITS)) % BITS) |-> 1]
          n == Len(b.data)
      IN  CASE b.type = 0 -> head \o pad \o Lsb(n, 2 * BITS)
                               \o Lsb(2^(2 * BITS) - 1 - n, 2 * BITS)
                               \o FlattenSeq([j \in 1 .. n |-> Lsb(b.data[j], BITS)])
            [] b.type = 1 -> head \o Tokens(b.data, FixedLength, FixedDist)
            [] b.type = 2 -> head \o Table(b.l, b.d, b.ops, b.sizes)
                               \o IF IsCode(b.l) /\ IsCode(b.d)
                                  THEN Tokens(b.data, b.l, b.d) ELSE <<>>,
    <<>>, [i \in 1 .. Len(blocks) |-> i])

Output(blocks) ==
  FoldLeft(LAMBDA o, b : IF b.type = 0 THEN o \o b.data
                         ELSE FoldLeft(Apply, o, b.data), <<>>, blocks)

Bytes(s) ==
  [i \in 1 .. (Len(s) + BITS - 1) \div BITS |->
     FoldLeft(LAMBDA v, k : IF BITS * (i - 1) + k > Len(s) THEN v
                            ELSE v + 2^(k - 1) * s[BITS * (i - 1) + k],
              0, [k \in 1 .. BITS |-> k])]

-----------------------------------------------------------------------------
Plain(data) == [type |-> 0, data |-> data]
Fixed(tokens) == [type |-> 1, data |-> tokens]
Dynamic(l, d, ops, sizes, tokens) ==
  [type |-> 2, l |-> l, d |-> d, ops |-> ops, sizes |-> sizes, data |-> tokens]

Array(s) == [i \in 0 .. Len(s) - 1 |-> s[i + 1]]

AllThree == Array(<<3, 3, 3, 3, 3, 3, 3>>)

(* A token of each symbol that has a code, as far as it can be used.       *)
Sample(l, d) ==
  LET lits == SelectSeq(<<1, 0, 1>>, LAMBDA v : l[v] > 0)
      n == Len(lits)
  IN  [i \in 1 .. n |-> Lit(lits[i])]
      \o IF n > 0 /\ l[3] > 0 THEN <<Mat(2, 1)>> ELSE <<>>
      \o IF n > 1 /\ l[4] > 0 THEN <<Mat(4, 2)>> ELSE <<>>

Dist == Array(<<1, 2>>)

(* Every assignment of lengths, also of those that are no code.            *)
Lists == {l \in [0 .. 4 -> 0 .. MAXLEN] : l[END] > 0}
ListBlocks ==
  {<<Dynamic(l, Dist, Straight(l, Dist), AllThree, Sample(l, Dist))>> : l \in Lists}

(* Sample blocks; the last one writes its lengths as runs (a 3 and three   *)
(* more, a 1, two zeros, two more 1 behind a 1) and leaves out the last    *)
(* sizes.                                                                  *)
Samples ==
  {Plain(<<>>), Plain(<<1, 0, 1>>),
   Fixed(<<Lit(1), Mat(3, 1)>>), Fixed(<<Lit(0), Lit(1), Mat(4, 2)>>),
   Dynamic(Array(<<2, 2, 2, 0, 3>>), Dist,
           <<<<2>>, <<4, 0>>, <<0>>, <<3>>, <<1>>, <<2>>>>,
           Array(<<2, 3, 2, 2, 3, 0, 0>>), <<Lit(0), Lit(1), Mat(3, 2)>>),
   Dynamic(Array(<<0, 0, 1>>), Array(<<1>>), <<<<5, 0>>, <<1>>, <<1>>>>,
           Array(<<0, 1, 0, 0, 0, 1, 0>>), <<>>)}

SampleBlocks == UNION {[1 .. n -> Samples] : n \in 1 .. 2}
                  \cup {<<a, b, c>> : a \in Samples, b \in Samples,
                                      c \in {Plain(<<1, 0, 1>>)}}

IsStream(blocks) ==
  \A i \in 1 .. Len(blocks) :
    blocks[i].type = 2 => IsCode(blocks[i].l) /\ IsCode(blocks[i].d)

Call(blocks, expandable, olen) ==
  LET good == IsStream(blocks)
  IN  [bytes |-> Bytes(Stream(blocks)), header |-> TRUE, parse_header |-> TRUE,
       expandable |-> expandable, olen |-> olen,
       known |-> IF good THEN "good" ELSE "bad",
       means |-> IF good THEN Output(blocks) ELSE <<>>]

CutOff(c) ==
  {[c EXCEPT !.bytes = SubSeq(@, 1, n), !.known = "any", !.means = <<>>] :
     n \in 0 .. Len(c.bytes) - 1}

ListCalls == {Call(b, FALSE, 9) : b \in ListBlocks}
SampleCalls ==
  {Call(b, e[1], e[2]) : b \in SampleBlocks, e \in {<<FALSE, 5>>, <<TRUE, 2>>}}
HeaderCalls ==
  {[Call(<<b>>, FALSE, 9) EXCEPT !.header = h, !.parse_header = p] :
     b \in Samples, h \in BOOLEAN, p \in BOOLEAN}
BadCalls ==
  {[c EXCEPT !.bytes = <<7, 1>>, !.known = "bad", !.means = <<>>] : c \in HeaderCalls}
CutCalls == UNION {CutOff(Call(<<a, b>>, FALSE, 9)) : a \in Samples, b \in Samples}


(* Cut off, and given more and more room: in the fifth sample a 0 is what  *)
(* zeros are the code of.                                                  *)
GrowingCalls == UNION {CutOff(Call(<<a>>, TRUE, 2)) : a \in Samples}

(* A stream of more than half of what an int can tell.                     *)
Bits(n) == [i \in 1 .. n |-> i % 2]
LargeCalls ==
  {Call(<<Plain(Bits(63)), Plain(Bits(63)), Plain(Bits(n))>>, TRUE, 2) : n \in 2 .. 3}

(* Streams that are none, of which the code makes something, or gets lost: *)
(* a length of the one before that repeats it, more lengths than there is  *)
(* room for, a match of no distance.                                       *)
Odd(c) == [c EXCEPT !.known = "any", !.means = <<>>]
OddCalls ==
  {Odd(Call(<<Dynamic(l, Dist, <<<<4, 1>>, <<3>>, <<3>>, <<1>>, <<2>>>>,
                      Array(<<2, 3, 2, 2, 3, 0, 0>>), <<>>)>>, FALSE, 9)) :
     l \in {Array(<<3, 3, 3, 3, 3>>)}}
  \cup {Odd(Call(<<Dynamic(l, d, [i \in 1 .. 9 |-> <<3>>] \o <<<<6, v>>>>, AllThree,
                          <<>>)>>, FALSE, 9)) :
          v \in 0 .. 1, l \in {[i \in 0 .. 5 |-> 3]}, d \in {[i \in 0 .. 3 |-> 3]}}
  \cup {Odd(Call(<<Dynamic(l, d, Straight(l, d), AllThree, <<Lit(1), Mat(m, 0)>>)>>,
                FALSE, 9)) :
          m \in {2, 4}, l \in {[i \in 0 .. 4 |-> 3]}, d \in {Array(<<1, 0, 1>>)}}

MCCalls ==
  UNION {ListCalls, SampleCalls, HeaderCalls, BadCalls, CutCalls, GrowingCalls,
         LargeCalls, OddCalls}

MCLengthBase == <<2, 3, 0>>
MCLengthExtra == <<0, 1, 0>>
MCDistBase == <<1, 2, 0, 0>>
MCDistExtra == <<0, 1, 0, 0>>
MCFixedLength == Array(<<3, 3, 2, 3, 3, 2>>)
MCFixedDist == Array(<<2, 2, 2, 2>>)
MCDezigzag == <<4, 5, 0, 2, 1, 3, 6>>
MCRepeat == <<<<1, 2>>, <<1, 2>>, <<1, 4>>>>
=============================================================================
