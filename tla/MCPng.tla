-------------------------------- MODULE MCPng --------------------------------
(***************************************************************************)
(* Instances of AxfsPng, with the calls of the inflater by itself that     *)
(* MCInflate has.  A byte has 3 bits and a sample 1 or 3.  The files are   *)
(* made of pictures by an encoder after the PNG specification, for every   *)
(* type of picture: with every pair of filters, interlaced in every shape  *)
(* up to 5 by 5, in every order of their chunks, with the data in any two  *)
(* or three parts, with every field of the header wrong; and what they     *)
(* show is worked out of the pictures, by the same specification.          *)
(***************************************************************************)
EXTENDS AxfsPng, MCInflate

Grey == 0
RGB == 2
Indexed == 3
GreyA == 4
RGBA == 6
Types == {Grey, RGB, Indexed, GreyA, RGBA}
SamplesOf(type) == CASE type \in {Grey, Indexed} -> 1 [] type = GreyA -> 2
                     [] type = RGB -> 3 [] type = RGBA -> 4

(* A picture: samples without much order in them, the palette, and which   *)
(* pixel (or how much of the palette) is transparent.                      *)
Picture(type, depth, x, y, trans) ==
  [type |-> type, depth |-> depth, x |-> x, y |-> y, trans |-> trans,
   px |-> [q \in 0 .. x * y - 1 |-> [k \in 1 .. SamplesOf(type) |->
             (q * q + 3 * q * k + k + (q \div x)) % 2^depth]]]

ColorOf(i) == <<(i + 1) % 8, (3 * i + 2) % 8, (5 * i) % 8>>
AlphaOf(i) == IF i < 2 THEN 3 * i ELSE MaxByte

-----------------------------------------------------------------------------
(* The encoder.                                                            *)

(* The samples of a row in bytes, the first one in the highest bits.       *)
Packed(samples, depth) ==
  LET per == BITS \div depth
  IN  [b \in 1 .. (Len(samples) + per - 1) \div per |->
         FoldLeft(LAMBDA v, k : v * 2^depth + IF k > Len(samples) THEN 0 ELSE samples[k],
                  0, [k \in 1 .. per |-> (b - 1) * per + k])
           * 2^(BITS - per * depth)]

Nearest(a, b, c) ==
  LET d(v) == Distance(v + c, a + b)
  IN  Head(SelectSeq(<<a, b, c>>, LAMBDA v : \A w \in {a, b, c} : d(v) <= d(w)))

FilteredRow(f, cur, above, bpp) ==
  LET At(s, i) == IF i \in 1 .. Len(s) THEN s[i] ELSE 0
      guess(i) ==
        LET a == At(cur, i - bpp) b == At(above, i) c == At(above, i - bpp)
        IN  <<0, a, b, (a + b) \div 2, Nearest(a, b, c)>>[f + 1]
  IN  <<f>> \o [i \in 1 .. Len(cur) |-> (cur[i] + 2^BITS - guess(i)) % 2^BITS]

(* Rows of samples, the filters in turn.                                   *)
Encoded(rows, depth, bpp, filters) ==
  LET bytes == [j \in 1 .. Len(rows) |-> Packed(rows[j], depth)]
  IN  FlattenSeq([j \in 1 .. Len(rows) |->
        FilteredRow(filters[((j - 1) % Len(filters)) + 1], bytes[j],
                    IF j = 1 THEN <<>> ELSE bytes[j - 1], bpp)])

(* Which pass a pixel is in.                                               *)
PassMatrix ==
  <<<<1, 6, 4, 6, 2, 6, 4, 6>>, <<7, 7, 7, 7, 7, 7, 7, 7>>,
    <<5, 6, 5, 6, 5, 6, 5, 6>>, <<7, 7, 7, 7, 7, 7, 7, 7>>,
    <<3, 6, 4, 6, 3, 6, 4, 6>>, <<7, 7, 7, 7, 7, 7, 7, 7>>,
    <<5, 6, 5, 6, 5, 6, 5, 6>>, <<7, 7, 7, 7, 7, 7, 7, 7>>>>

(* The rows of the pixels that Taken(x, y) holds of.                       *)
RowsOf(pic, Taken(_, _)) ==
  LET rows == [j \in 1 .. pic.y |->
        FlattenSeq([i \in 1 .. pic.x |->
          IF Taken(i, j) THEN pic.px[(j - 1) * pic.x + i - 1] ELSE <<>>])]
  IN  SelectSeq(rows, LAMBDA r : r # <<>>)

Raw(pic, interlace, filters) ==
  LET bpp == IF pic.depth < BITS THEN 1 ELSE SamplesOf(pic.type)
      All(i, j) == TRUE
      Part(p) == LET In7(i, j) == PassMatrix[((j - 1) % 8) + 1][((i - 1) % 8) + 1] = p
                 IN  Encoded(RowsOf(pic, In7), pic.depth, bpp, filters)
  IN  IF interlace = 0 THEN Encoded(RowsOf(pic, All), pic.depth, bpp, filters)
      ELSE FlattenSeq([p \in 1 .. 7 |-> Part(p)])

-----------------------------------------------------------------------------
(* What a picture shows, in n components.                                  *)
Scale(depth) == IF depth = 1 THEN 7 ELSE 1

Shown(pic, q) ==
  LET p == pic.px[q]
      scaled == [k \in DOMAIN p |-> p[k] * Scale(pic.depth)]
  IN  IF pic.type = Indexed
      THEN ColorOf(p[1]) \o IF pic.trans THEN <<AlphaOf(p[1])>> ELSE <<>>
      ELSE scaled \o IF ~pic.trans THEN <<>>
                     ELSE <<IF p = pic.px[0] THEN 0 ELSE MaxByte>>

Flipped(p, flags) ==
  IF ~flags[1] \/ ~flags[2] \/ Len(p) < 3 THEN p
  ELSE IF ~flags[3] \/ Len(p) = 3 \/ p[4] = 0
  THEN <<p[3], p[2], p[1]>> \o SubSeq(p, 4, Len(p))
  ELSE <<((p[3] * 7) \div p[4]) % 8, ((p[2] * 7) \div p[4]) % 8,
         ((p[1] * 7) \div p[4]) % 8, p[4]>>

AsComponents(p, n) ==
  LET color == Len(p) > 2
      alpha == IF Len(p) \in {2, 4} THEN <<p[Len(p)]>> ELSE <<MaxByte>>
      grey == IF color THEN (2 * p[1] + 5 * p[2] + p[3]) \div 8 ELSE p[1]
      rgb == IF color THEN SubSeq(p, 1, 3) ELSE <<p[1], p[1], p[1]>>
  IN  <<p, <<grey>>, <<grey>> \o alpha, rgb, rgb \o alpha>>[n + 1]

Shows(pic, req, flags) ==
  LET px == [q \in 1 .. pic.x * pic.y |->
               AsComponents(Flipped(Shown(pic, q - 1), flags), req)]
  IN  [ok |-> TRUE, x |-> pic.x, y |-> pic.y, n |-> Len(px[1]),
       data |-> FlattenSeq(px)]

-----------------------------------------------------------------------------
(* The files.                                                              *)
ChunkOf(type, data) == [type |-> type, length |-> Len(data), data |-> data]
HeaderRecord(pic, interlace) ==
  [x |-> pic.x, y |-> pic.y, depth |-> pic.depth, color |-> pic.type,
   comp |-> 0, filter |-> 0, interlace |-> interlace]
HeaderChunk(h) == [type |-> "IHDR", length |-> 13, data |-> h]
PLTEOf(n) == ChunkOf("PLTE", FlattenSeq([i \in 1 .. n |-> ColorOf(i - 1)]))
TRNSOf(pic) ==
  ChunkOf("tRNS", IF pic.type = Indexed THEN <<AlphaOf(0), AlphaOf(1)>>
                  ELSE FlattenSeq([k \in 1 .. SamplesOf(pic.type) |->
                                     <<5, pic.px[0][k]>>]))
IENDChunk == ChunkOf("IEND", <<>>)
AncillaryChunk == ChunkOf("ancillary", <<1, 2>>)

Deflated(raw) == Bytes(Stream(<<Plain(raw)>>))

(* The flags: a CgBI chunk, de_iphone, unpremultiply.                      *)
NoFlags == <<FALSE, FALSE, FALSE>>

Load(pic, interlace, filters, req, flags) ==
  LET raw == Raw(pic, interlace, filters)
      stream == (IF flags[1] THEN <<>> ELSE <<0, 0>>) \o Deflated(raw)
  IN  [api |-> "load", req_comp |-> req, sig |-> TRUE, header |-> TRUE,
       de_iphone |-> flags[2], unpremultiply |-> flags[3], known |-> "good",
       comp |-> Len(Shown(pic, 0)), shows |-> Shows(pic, req, flags), stream |-> stream, raw |-> raw,
       chunks |-> (IF flags[1] THEN <<ChunkOf("CgBI", <<1>>)>> ELSE <<>>)
         \o <<HeaderChunk(HeaderRecord(pic, interlace))>>
         \o (IF pic.type = Indexed THEN <<PLTEOf(2^pic.depth)>> ELSE <<>>)
         \o (IF pic.trans THEN <<TRNSOf(pic)>> ELSE <<>>)
         \o <<ChunkOf("IDAT", stream), AncillaryChunk, IENDChunk>>]

Plainly(pic, req) == Load(pic, 0, <<0, 4>>, req, NoFlags)

FilterLoads ==
  {Load(Picture(t, d, 4, 2, FALSE), 0, <<f, g>>, 0, NoFlags) :
     t \in {Grey, Indexed}, d \in {1, BITS}, f \in 0 .. 4, g \in 0 .. 4}
  \cup {Load(Picture(t, BITS, 3, 2, FALSE), 0, <<f, g>>, 4, NoFlags) :
          t \in {RGB, GreyA, RGBA}, f \in 0 .. 4, g \in 0 .. 4}

Pictures ==
  {Picture(t, BITS, 3, 2, FALSE) : t \in Types}
    \cup {Picture(t, BITS, 3, 2, TRUE) : t \in {Grey, RGB, Indexed}}
    \cup {Picture(t, 1, 4, 2, trans) : t \in {Grey, Indexed}, trans \in BOOLEAN}

ReqLoads == {Plainly(pic, req) : pic \in Pictures, req \in 0 .. 4}

AdamLoads ==
  {Load(Picture(Grey, 1, x, y, FALSE), 1, <<4, 3, 2>>, 0, NoFlags) :
     x \in 1 .. 5, y \in 1 .. 5}
  \cup {Load(Picture(p[1], p[2], s[1], s[2], p[3]), 1, <<1, 4>>, req, NoFlags) :
          p \in {<<Grey, BITS, FALSE>>, <<Grey, 1, TRUE>>, <<Indexed, 1, TRUE>>},
          s \in {<<5, 5>>, <<4, 3>>}, req \in {0, 2}}
  \cup {Load(Picture(RGB, BITS, 4, 3, FALSE), 1, <<2, 3>>, req, NoFlags) :
          req \in {0, 4}}

PhoneLoads ==
  {Load(pic, 0, <<1, 2>>, req, <<p, i, u>>) :
     pic \in {Picture(t, BITS, 3, 2, FALSE) : t \in {Grey, RGB, RGBA}},
     req \in {0, 3}, p \in BOOLEAN, i \in BOOLEAN, u \in BOOLEAN}

(* stbi_info, which needs no data.                                         *)
Asked(l) ==
  [l EXCEPT !.api = "info", !.shows = [ok |-> TRUE, x |-> @.x, y |-> @.y, n |-> @.n]]
InfoLoads == {Asked(Plainly(pic, 0)) :
                pic \in {pic \in Pictures : pic.trans => pic.type = Indexed}}

(* Those of a picture whose transparency is not in a palette.              *)
KeyedInfoLoads ==
  {Asked(Plainly(pic, 0)) :
     pic \in {pic \in Pictures : pic.trans /\ pic.type # Indexed}}

OtherLoads ==
  UNION {{[l EXCEPT !.sig = s, !.api = "test", !.shows = [ok |-> TRUE],
                    !.known = IF s THEN "good" ELSE "bad"] : s \in BOOLEAN}
           \cup {[l EXCEPT !.sig = FALSE, !.known = "bad"],
                 [l EXCEPT !.req_comp = 5, !.known = "bad"],
                 [l EXCEPT !.header = FALSE, !.known = "bad"]} :
         l \in {Plainly(Picture(Grey, BITS, 2, 2, FALSE), 0)}}

-----------------------------------------------------------------------------
(* Files that are none, or may be.                                         *)

(* Every order of the chunks of a picture, of which the last may be        *)
(* missing.                                                                *)
Where(s, t) == CHOOSE i \in 1 .. Len(s) + 1 : i = Len(s) + 1 \/ s[i].type = t

InOrder(s, indexed) ==
  /\ s[1].type = "IHDR"
  /\ Where(s, "IDAT") < Where(s, "IEND")
  /\ Where(s, "IEND") <= Len(s)
  /\ Where(s, "tRNS") > Where(s, "IDAT") => Where(s, "tRNS") > Where(s, "IEND")
  /\ indexed => /\ Where(s, "PLTE") < Where(s, "IDAT")
                /\ Where(s, "tRNS") < Where(s, "IEND")
                     => Where(s, "PLTE") < Where(s, "tRNS")

(* The load l with the first n of its chunks in the order o.               *)
Reordered(l, cs, o, n, api) ==
  LET chunks == [i \in 1 .. n |-> cs[o[i]]]
  IN  [l EXCEPT !.chunks = chunks, !.api = api,
                !.known = IF api = "load" /\ ~InOrder(chunks, Len(cs) = 5)
                          THEN "bad" ELSE "any"]

OrderLoads ==
  UNION {LET cs == SelectSeq(l.chunks, LAMBDA c : c.type # "ancillary")
         IN  {Reordered(l, cs, o, n, api) : o \in Permutations(1 .. Len(cs)),
                n \in {Len(cs) - 1, Len(cs)}, api \in {"load", "info"}} :
         l \in {Plainly(Picture(t, BITS, 2, 1, TRUE), 0) : t \in {Grey, Indexed}}}

(* A chunk that is one too many or does not fit, behind the first n.       *)
OddChunks ==
  {ChunkOf("unknown", <<>>), HeaderChunk(HeaderRecord(Picture(RGB, 1, 1, 1, FALSE), 0)),
   ChunkOf("PLTE", <<1, 2>>), ChunkOf("PLTE", [i \in 1 .. 27 |-> 1]),
   ChunkOf("tRNS", [i \in 1 .. 9 |-> 1]), ChunkOf("tRNS", <<1>>),
   [type |-> "IDAT", length |-> UINT - 1, data |-> <<>>],
   [type |-> "IDAT", length |-> UINT \div 2 - 1, data |-> <<1>>]}

OddLoads ==
  {[l EXCEPT !.chunks = SubSeq(@, 1, n) \o <<c>> \o SubSeq(@, n + 1, Len(@)),
             !.known = IF c.type \in {"unknown", "IHDR"} THEN "bad" ELSE "any"] :
     c \in OddChunks, n \in 0 .. 4,
     l \in {Plainly(Picture(Indexed, 1, 4, 2, TRUE), 0),
            Plainly(Picture(Grey, 1, 4, 2, TRUE), 0)}}

(* A color that the palette does not have.                                 *)
UnsetLoads ==
  {[l EXCEPT !.chunks[2] = PLTEOf(n), !.known = "any"] :
     n \in 1 .. 5, l \in {Plainly(Picture(Indexed, BITS, 3, 1, FALSE), 0)}}

BadHeaders ==
  LET h == HeaderRecord(Picture(Grey, BITS, 2, 1, FALSE), 0)
  IN  {[h EXCEPT !.x = 0], [h EXCEPT !.y = 0], [h EXCEPT !.x = MAXDIM + 1],
       [h EXCEPT !.y = MAXDIM + 1], [h EXCEPT !.depth = 2],
       [h EXCEPT !.color = 1], [h EXCEPT !.color = 7], [h EXCEPT !.comp = 1],
       [h EXCEPT !.filter = 1], [h EXCEPT !.interlace = 2],
       [h EXCEPT !.x = MAXDIM, !.y = MAXDIM, !.color = 6],
       [h EXCEPT !.x = MAXDIM, !.y = MAXDIM, !.color = 3]}

HeaderLoads ==
  {[l EXCEPT !.chunks[1].data = h, !.known = "bad", !.api = api] :
     h \in BadHeaders, api \in {"load", "info"},
     l \in {Plainly(Picture(Grey, BITS, 2, 1, FALSE), 0)}}
  \cup {[l EXCEPT !.chunks[1].length = 12, !.known = "bad"] :
          l \in {Plainly(Picture(Grey, BITS, 2, 1, FALSE), 0)}}

(* The data in up to three parts, and cut off.                             *)
InParts(l, ps) ==
  [l EXCEPT !.chunks = <<@[1]>> \o [i \in 1 .. Len(ps) |-> ChunkOf("IDAT", ps[i])]
                         \o <<IENDChunk>>]

SplitLoads ==
  UNION {LET s == l.stream
             n == Len(s)
         IN  {InParts(l, <<SubSeq(s, 1, p[1]), SubSeq(s, p[1] + 1, p[2]),
                           SubSeq(s, p[2] + 1, n)>>) :
                p \in {p \in (0 .. n) \X (0 .. n) : p[1] <= p[2]}}
             \cup {[InParts(l, <<SubSeq(s, 1, p)>>) EXCEPT !.known = "any"] :
                     p \in 1 .. n - 1} :
         l \in {Plainly(Picture(Grey, BITS, 3, 2, FALSE), 0)}}

(* Data of the wrong length, or with a filter there is not.                *)
WithRaw(l, i, raw) ==
  LET known == IF i = 1 /\ Len(raw) > Len(l.raw) THEN "any" ELSE "bad"
      stream == <<0, 0>> \o Deflated(raw)
  IN  [InParts(l, <<stream>>) EXCEPT !.raw = raw, !.stream = stream, !.known = known]

RawLoads ==
  UNION {UNION {{WithRaw(l, i, raw) :
                   raw \in {SubSeq(l.raw, 1, n) : n \in 0 .. Len(l.raw) - 1}
                            \cup {l.raw \o <<1>>, <<5>> \o Tail(l.raw)}} :
                  l \in {Load(Picture(Grey, BITS, 2, 3, FALSE), i, <<0>>, 0, NoFlags)}} :
         i \in {0, 1}}

(* Pixels of several samples of one bit, as the format has none.           *)
NarrowLoads ==
  {[Load(Picture(t, 1, x, 2, FALSE), i, <<0, 1>>, req, NoFlags) EXCEPT !.known = "any"] :
     t \in {RGB, GreyA, RGBA}, x \in 1 .. 3, i \in {0, 1}, req \in {0, 4}}

(* The largest picture there may be, in as many components as there are.   *)
LargeLoads ==
  {Plainly(Picture(Grey, 1, 16, 8, FALSE), req) : req \in {1, 3, 4}}

(* The data is a block of codes, cut off.                                  *)
ShortLoads ==
  UNION {LET s == <<0, 0>> \o Bytes(Stream(<<b>>))
         IN  {[InParts(l, <<SubSeq(s, 1, n)>>) EXCEPT !.known = "any"] : n \in 3 .. Len(s) - 1} :
         b \in {b \in Samples : b.type # 0},
         l \in {Plainly(Picture(Grey, BITS, 1, 1, FALSE), 0)}}

MCLoads ==
  UNION {FilterLoads, ReqLoads, AdamLoads, PhoneLoads, InfoLoads, OtherLoads,
         OrderLoads, OddLoads, UnsetLoads, HeaderLoads, SplitLoads, RawLoads,
         NarrowLoads, LargeLoads, ShortLoads}

MCDepths == {1, 3}
MCLuma == <<2, 5, 1>>
=============================================================================
