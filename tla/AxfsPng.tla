------------------------------- MODULE AxfsPng -------------------------------
(***************************************************************************)
(* The PNG decoder that comes with the inflater of the host tool           *)
(* (stb_image.h), on a file in memory: the chunks and what they demand of  *)
(* each other, the data that grows with them, the inflater, whose steps    *)
(* are those of AxfsInflate, the rows and the passes, the transforms and   *)
(* the buffers that are allocated and freed on the way.                    *)
(***************************************************************************)
EXTENDS AxfsInflate, SequencesExt

CONSTANTS
  Loads,    \* the calls, see below
  Depths,   \* the bits of a sample there may be: 1, 2, 4, 8
  MAXDIM,   \* 1 << 24, the widest and highest picture
  AREA,     \* 1 << 30, the largest one, in samples
  IDATA,    \* 4096, the room for data there is at first
  Luma      \* 77, 150, 29: the weights of red, green and blue

(***************************************************************************)
(* A load is a record:                                                     *)
(*   api           "load", "info" or "test": which entry point is called   *)
(*   req_comp      how many components are asked for, 0: as they are       *)
(*   sig           whether the file begins with the signature              *)
(*   header        whether the data begins with a good zlib header         *)
(*   chunks        the chunks, of a type, a length and the data; that of a *)
(*                 last chunk may be cut off; that of an IHDR is a record  *)
(*   de_iphone, unpremultiply   the flags that hold for all calls          *)
(*   comp          the components of the picture in the file               *)
(*   known, shows  the result the file stands for (known = "good"); a file *)
(*                 that must be refused is "bad", others are "any"         *)
(*   stream, raw   what the data has to be to inflate to raw               *)
(* The data of a file with a CgBI chunk has no zlib header: so the format. *)
(***************************************************************************)

(* The data of an IDAT chunk are bytes, no more than it says; there is     *)
(* room for some data to begin with, and an int tells the largest picture, *)
(* with a byte for each row.                                               *)
ASSUME PngAssumption ==
  /\ Depths \subseteq 1 .. BITS
  /\ MAXDIM \in Nat /\ AREA \in Nat /\ AREA + MAXDIM < INT
  /\ IDATA \in 1 .. UINT - 1
  /\ \A l \in Loads :
       /\ l.api \in {"load", "info", "test"}
       /\ Len(l.chunks) \in Nat
       /\ \A i \in 1 .. Len(l.chunks) :
            LET c == l.chunks[i]
            IN  /\ c.length \in 0 .. UINT - 1
                /\ c.type = "IDAT" => c.data \in Seq(0 .. 2^BITS - 1)

VARIABLES
  load,
  ppc,      \* "none", "start", "chunk", "inflate", "pass", "row", "place",
            \* "transform", "palette", "convert", "returned",
            \* "undefined"
  at,       \* the next chunk
  img,      \* the locals of stbi__parse_png_file and the picture's sizes
  row,      \* the pass, its sizes, its next row and where its bytes begin
  out,      \* a->out, and the final picture of one that is interlaced
  fin,
  heap,     \* the buffers that are allocated
  result

pngvars == <<load, ppc, at, img, row, out, fin, heap, result>>
zvars == <<pc, call, bits, final, codes, z_length, z_distance, zout, limit, held>>

MaxByte == 2^BITS - 1
NoResult == [ok |-> FALSE]
Unset == -1

STBI__BYTECAST(v) == v % 2^BITS

(* stbi__depth_scale_table.                                                *)
DepthScale(depth) == MaxByte \div (2^depth - 1)

-----------------------------------------------------------------------------
(* An inflater nobody has called, and a decoder nobody has called.         *)
IdleInflater ==
  /\ pc = "idle"
  /\ call = [bytes |-> <<>>, header |-> FALSE, parse_header |-> FALSE,
             expandable |-> FALSE, olen |-> 0, known |-> "any", means |-> <<>>]
  /\ bits = [at |-> 0, num |-> 0, buf |-> 0, taken |-> 0]
  /\ final = 0
  /\ codes = NoCodes /\ z_length = NoCodes /\ z_distance = NoCodes
  /\ zout = <<>> /\ limit = 0 /\ held = FALSE /\ nomemory = FALSE

FreshImg ==
  [first |-> TRUE, pal_img_n |-> 0, pal_len |-> 0, palette |-> <<>>,
   has_trans |-> FALSE, tc |-> <<>>, depth |-> 0, color |-> 0, interlace |-> 0,
   is_iphone |-> FALSE, x |-> 0, y |-> 0, n |-> 0, out_n |-> 0,
   idata |-> <<>>, idata_limit |-> 0]

PngInit ==
  /\ \/ Init /\ load = NoResult /\ ppc = "none"
     \/ IdleInflater /\ load \in Loads /\ ppc = "start"
  /\ at = 1
  /\ img = FreshImg
  /\ row = [p |-> 0, x |-> 0, y |-> 0, j |-> 0, from |-> 0]
  /\ out = <<>> /\ fin = <<>>
  /\ heap = {}
  /\ result = NoResult

(* stbi__get_chunk_header; behind the file there are zeros.                *)
Chunk ==
  IF at <= Len(load.chunks) THEN load.chunks[at]
  ELSE [type |-> "unknown", length |-> 0, data |-> <<>>]

-----------------------------------------------------------------------------
(* Endings.                                                                *)

(* What stbi__do_png frees in any case; stbi__png_info_raw frees nothing.  *)
FreedByLoad == {"out", "expanded", "idata"}

Return(r, kept) ==
  /\ ppc' = "returned"
  /\ result' = r
  /\ heap' = kept
  /\ UNCHANGED <<load, at, img, row, out, fin, zvars>>

(* The file is not parsed to the end, for a reason but no memory.          *)
NotParsed ==
  Return(NoResult, IF load.api = "load" THEN heap \ FreedByLoad ELSE heap)
PngRefused == NotParsed /\ UNCHANGED nomemory
PngNoMemory == NotParsed /\ nomemory' = TRUE

(* The decoder gets where nothing is said of it any more.                  *)
PngStrays ==
  /\ ppc' = "undefined"
  /\ UNCHANGED <<load, at, img, row, out, fin, heap, result, zvars, nomemory>>

(* stbi__png_info_raw: the sizes, with the components n.                   *)
Informed(x, y, n) ==
  Return([ok |-> TRUE, x |-> x, y |-> y, n |-> n], heap) /\ UNCHANGED nomemory


(* The chunk is done with, CRC and all.                                    *)
NextChunk(i) ==
  /\ img' = i
  /\ at' = at + 1
  /\ UNCHANGED <<load, ppc, row, out, fin, result, zvars, nomemory>>

(* stbi__png_test, stbi__do_png and stbi__png_info up to the chunks.       *)
PngStart ==
  /\ ppc = "start"
  /\ IF ~load.sig \/ (load.api = "load" /\ load.req_comp \notin 0 .. 4)
     THEN PngRefused
     ELSE IF load.api = "test"
     THEN Return([ok |-> TRUE], heap) /\ UNCHANGED nomemory
     ELSE /\ ppc' = "chunk"
          /\ UNCHANGED <<load, at, img, row, out, fin, heap, result, zvars,
                         nomemory>>

-----------------------------------------------------------------------------
(* The chunks of stbi__parse_png_file.                                     *)

(* stbi__get8, of the data of the chunk.                                   *)
DataByte(i) == IF i <= Len(Chunk.data) THEN Chunk.data[i] ELSE 0

Scans(api) == load.api = api

(* s->img_n, for the color of a header.                                    *)
Components(color) ==
  IF color = 3 THEN 1
  ELSE (IF color \in {2, 6} THEN 3 ELSE 1) + (IF color \in {4, 6} THEN 1 ELSE 0)

Supported(h) ==
  /\ h.x \in 1 .. MAXDIM /\ h.y \in 1 .. MAXDIM
  /\ h.depth \in Depths
  /\ h.color \in {0, 2, 3, 4, 6}
  /\ h.comp = 0 /\ h.filter = 0 /\ h.interlace \in {0, 1}
  /\ (AREA \div h.x) \div (IF h.color = 3 THEN 4 ELSE Components(h.color)) >= h.y

CgBI ==
  /\ Chunk.type = "CgBI"
  /\ NextChunk([img EXCEPT !.is_iphone = TRUE])
  /\ UNCHANGED heap

IHDR ==
  /\ Chunk.type = "IHDR"
  /\ LET h == Chunk.data
     IN  IF ~img.first \/ Chunk.length # 13 \/ ~Supported(h) THEN PngRefused
         ELSE IF Scans("info") /\ h.color # 3
         THEN Informed(h.x, h.y, Components(h.color))
         ELSE /\ NextChunk([img EXCEPT
                   !.first = FALSE, !.x = h.x, !.y = h.y, !.depth = h.depth,
                   !.color = h.color, !.interlace = h.interlace,
                   !.n = Components(h.color),
                   !.pal_img_n = IF h.color = 3 THEN 3 ELSE 0])
              /\ UNCHANGED heap

(* The palette is local: a color that is not set may be anything.          *)
PLTE ==
  /\ Chunk.type = "PLTE"
  /\ LET n == Chunk.length \div 3
         set(i) == <<DataByte(3 * i + 1), DataByte(3 * i + 2),
                     DataByte(3 * i + 3), MaxByte>>
     IN  IF img.first \/ Chunk.length > 3 * 2^BITS \/ Chunk.length % 3 # 0
         THEN PngRefused
         ELSE /\ NextChunk([img EXCEPT !.pal_len = n,
                   !.palette = [i \in DOMAIN @ \cup 0 .. n - 1 |->
                                  IF i < n THEN set(i) ELSE @[i]]])
              /\ UNCHANGED heap

(* The low byte of the sample k that is transparent, as it is in the       *)
(* picture.                                                                *)
Transparent(k) == (DataByte(2 * k) * DepthScale(img.depth)) % 2^BITS

(* The transparency is that of a picture with such a palette, or of one    *)
(* without alpha.                                                          *)
TransFits ==
  IF img.pal_img_n > 0 THEN img.pal_len > 0 /\ Chunk.length <= img.pal_len
  ELSE img.n % 2 = 1 /\ Chunk.length = 2 * img.n

TRNS ==
  /\ Chunk.type = "tRNS"
  /\ IF img.first \/ "idata" \in heap THEN PngRefused
     ELSE IF img.pal_img_n > 0 /\ Scans("info") THEN Informed(img.x, img.y, 4)
     ELSE IF ~TransFits THEN PngRefused
     ELSE /\ NextChunk(IF img.pal_img_n > 0
               THEN [img EXCEPT !.pal_img_n = 4,
                       !.palette = [i \in DOMAIN @ |->
                          IF i < Chunk.length
                          THEN [@[i] EXCEPT ![4] = DataByte(i + 1)] ELSE @[i]]]
               ELSE [img EXCEPT !.has_trans = TRUE,
                       !.tc = [k \in 1 .. img.n |-> Transparent(k)]])
          /\ UNCHANGED heap

AsInt(n) == IF n < INT THEN n ELSE n - UINT

(* The room there is to be for n bytes: doubled until they fit.            *)
Room(n) ==
  LET room == IF img.idata_limit > 0 \/ n = 0 THEN img.idata_limit
              ELSE IF Chunk.length > IDATA THEN Chunk.length ELSE IDATA
  IN  Doubled(room, n)

IDAT ==
  /\ Chunk.type = "IDAT"
  /\ LET ioff == Len(img.idata)
         sum == (ioff + Chunk.length) % UINT
     IN  IF img.first \/ (img.pal_img_n > 0 /\ img.pal_len = 0) THEN PngRefused
         ELSE IF Scans("info") THEN Informed(img.x, img.y, img.pal_img_n)
         ELSE IF AsInt(sum) < AsInt(ioff) THEN PngRefused
         ELSE \/ sum > img.idata_limit /\ PngNoMemory
              \/ Len(Chunk.data) < Chunk.length /\ PngRefused
              \/ /\ Len(Chunk.data) = Chunk.length
                 /\ NextChunk([img EXCEPT !.idata = @ \o Chunk.data,
                                          !.idata_limit = Room(sum)])
                 /\ heap' = IF sum > img.idata_limit THEN heap \cup {"idata"}
                            ELSE heap

(* The bytes there are to be: those of each row and a filter for each.     *)
RawLen ==
  ((img.x * img.depth + BITS - 1) \div BITS) * img.y * img.n + img.y

(* The data is inflated, with a zlib header or without.                    *)
IEND ==
  /\ Chunk.type = "IEND"
  /\ IF img.first THEN PngRefused
     ELSE IF Scans("info") THEN Informed(img.x, img.y, img.n)
     ELSE IF "idata" \notin heap THEN PngRefused
     ELSE /\ ppc' = "inflate"
          /\ pc' = "start"
          /\ limit' = RawLen
          /\ call' =
               [bytes |-> IF img.is_iphone THEN img.idata
                          ELSE SubSeq(img.idata, 3, Len(img.idata)),
                header |-> load.header /\ Len(img.idata) > 1,
                parse_header |-> ~img.is_iphone,
                expandable |-> TRUE, olen |-> RawLen,
                known |-> IF img.idata = load.stream THEN "good" ELSE "any",
                means |-> load.raw]
          /\ UNCHANGED <<load, at, img, row, out, fin, heap, result, bits,
                         final, codes, z_length, z_distance, zout, held,
                         nomemory>>

(* Any other chunk is skipped, unless it is one that must be understood.   *)
OtherChunk ==
  /\ Chunk.type \notin {"CgBI", "IHDR", "PLTE", "tRNS", "IDAT", "IEND"}
  /\ IF img.first \/ Chunk.type # "ancillary" THEN PngRefused
     ELSE NextChunk(img) /\ UNCHANGED heap

ParseChunk ==
  /\ ppc = "chunk"
  /\ CgBI \/ IHDR \/ PLTE \/ TRNS \/ IDAT \/ IEND \/ OtherChunk

-----------------------------------------------------------------------------
(* The rows (stbi__create_png_image_raw).                                  *)

Narrow == img.depth < BITS

(* img_width_bytes; the bytes a row has in the output, and where those of  *)
(* row j are: at the right of what it will take once unpacked.             *)
WidthBytes(x) == (img.n * x * img.depth + BITS - 1) \div BITS
Stride == row.x * img.out_n
Cur(j) == Stride * j + IF Narrow THEN Stride - WidthBytes(row.x) ELSE 0
ImgLen(x, y) == (WidthBytes(x) + 1) * y

FiltersKept == <<"none", "sub", "up", "avg", "paeth">>

(* Mutant: the first row is filtered as the others are.                    *)
FirstRowFilterSame == FiltersKept

(* The filters of the first row, which has none above it.                  *)
first_row_filter == <<"none", "sub", "none", "avg_first", "paeth_first">>

Distance(m, n) == IF m < n THEN n - m ELSE m - n

stbi__paeth(a, b, c) ==
  LET pa == Distance(b, c)
      pb == Distance(a, c)
      pd == Distance(a + b, 2 * c)
  IN  IF pa <= pb /\ pa <= pd THEN a ELSE IF pb <= pd THEN b ELSE c

(* What is added to the first bytes of a row, below those in above.        *)
AtLeft(f, above) ==
  CASE f = "up" -> above
    [] f = "avg" -> above \div 2
    [] f = "paeth" -> stbi__paeth(0, above, 0)
    [] OTHER -> 0

(* What is added to the others.                                            *)
Inside(f, left, above, corner) ==
  CASE f = "none" -> 0
    [] f = "sub" -> left
    [] f = "up" -> above
    [] f = "avg" -> (above + left) \div 2
    [] f = "paeth" -> stbi__paeth(left, above, corner)
    [] f = "avg_first" -> left \div 2
    [] f = "paeth_first" -> stbi__paeth(left, 0, 0)

(* What is in the output o at place a, or something, outside of it.        *)
In(o, a) == IF a \in DOMAIN o THEN o[a] ELSE Unset

(* The bytes of the next row, each of what is left of it and above: n in a *)
(* group, groups pitch apart, of which the bytes left over are the alpha   *)
(* of a picture that has none.                                             *)
Filtered(f) ==
  LET n == img.n
      pitch == IF Narrow THEN 1 ELSE img.out_n
      width == IF Narrow THEN WidthBytes(row.x) ELSE row.x
      raw == row.from + row.j * (WidthBytes(row.x) + 1) + 1
      prior == Cur(row.j) - Stride
      byte[b \in 0 .. width * pitch - 1] ==
        LET i == b \div pitch
            k == b % pitch
            more == IF i = 0 THEN AtLeft(f, In(out, prior + b))
                    ELSE Inside(f, byte[b - pitch], In(out, prior + b),
                                In(out, prior + b - pitch))
        IN  IF k < n THEN STBI__BYTECAST(zout[raw + i * n + k + 1] + more)
            ELSE MaxByte
  IN  byte

(* The output o with the bytes from place a on.                            *)
With(o, a, bytes) ==
  [c \in DOMAIN o |-> IF c - a \in DOMAIN bytes THEN bytes[c - a] ELSE o[c]]

(* Sample k of those in byte b, which begin with the high bits.            *)
SampleAt(b, k) == (b \div 2^(BITS - img.depth * (k + 1))) % 2^img.depth

(* The samples of row j, a byte each.  They are written from the left of   *)
(* the row on, which is where the bytes they are taken from end up.        *)
Spread(j) ==
  LET scale == IF img.color = 0 THEN DepthScale(img.depth) ELSE 1
      per == BITS \div img.depth
      sample[k \in 0 .. row.x * img.n - 1] ==
        LET in == Cur(j) + k \div per
            over == in - Stride * j
        IN  scale * SampleAt(IF over < k THEN sample[over] ELSE out[in], k % per)
  IN  sample

(* The samples of a row with the alpha of a picture that has none, put in  *)
(* from right to left, so that none is written over before it is moved.    *)
WithAlpha(s) ==
  IF img.n = img.out_n THEN s
  ELSE [k \in 0 .. Stride - 1 |->
          LET q == k \div img.out_n
              c == k % img.out_n
          IN  IF c = img.n THEN MaxByte ELSE s[q * img.n + c]]

(* Memory as it is allocated, whatever is in it.                           *)
Allocated(n) == [i \in 0 .. n - 1 |-> Unset]

(* Mutant: the final picture is forgotten.                                 *)
PassFailsOnly == Return(NoResult, heap \ FreedByLoad)

(* A pass cannot be decoded; stbi__create_png_image frees what it          *)
(* allocated, and stbi__do_png the rest.                                   *)
PassFails == Return(NoResult, heap \ (FreedByLoad \cup {"final"}))

(* The size of the picture, or of one of the passes it is interlaced in.   *)
Adam7 == <<<<0, 0, 8, 8>>, <<4, 0, 8, 8>>, <<0, 4, 4, 8>>, <<2, 0, 4, 4>>,
           <<0, 2, 2, 4>>, <<1, 0, 2, 2>>, <<0, 1, 1, 2>>>>

PassWidth(p) == (img.x - Adam7[p][1] + Adam7[p][3] - 1) \div Adam7[p][3]
PassHeight(p) == (img.y - Adam7[p][2] + Adam7[p][4] - 1) \div Adam7[p][4]

(* The first row of the passes from p on that have any pixel; their bytes  *)
(* begin behind from others.                                               *)
PassRow(p, from) ==
  LET q == CHOOSE q \in p .. 7 :
             /\ PassWidth(q) > 0 /\ PassHeight(q) > 0
             /\ \A r \in p .. q - 1 : PassWidth(r) = 0 \/ PassHeight(r) = 0
  IN  [p |-> q, x |-> PassWidth(q), y |-> PassHeight(q), j |-> 0, from |-> from]

MorePasses == \E p \in row.p + 1 .. 7 : PassWidth(p) > 0 /\ PassHeight(p) > 0

(* The inflater has returned, and the picture is begun.                    *)
Inflated ==
  /\ ppc = "inflate"
  /\ \/ pc = "failed" /\ PngRefused
     \/ /\ pc = "done"
        /\ ppc' = "pass"
        /\ img' = [img EXCEPT !.out_n =
             img.n + IF \/ img.has_trans
                        \/ /\ load.req_comp = img.n + 1 /\ load.req_comp # 3
                           /\ img.pal_img_n = 0
                     THEN 1 ELSE 0]
        /\ row' = IF img.interlace = 1 THEN PassRow(1, 0)
                  ELSE [p |-> 0, x |-> img.x, y |-> img.y, j |-> 0, from |-> 0]
        /\ \/ /\ heap' = (heap \ {"idata"}) \cup {"expanded"}
                           \cup IF img.interlace = 1 THEN {"final"} ELSE {}
              /\ fin' = Allocated(img.x * img.y * img'.out_n)
              /\ UNCHANGED nomemory
           \/ /\ img.interlace = 1   \* an allocation nobody looks at
              /\ heap' = (heap \ {"idata"}) \cup {"expanded"}
              /\ fin' = <<>>
              /\ nomemory' = TRUE
        /\ UNCHANGED <<load, at, out, result, zvars>>

(* Whether the bytes that are left, len, are those of the pass.            *)
Enough(len, need) ==
  IF row.x = img.x /\ row.y = img.y THEN len = need ELSE len >= need

PassBegin ==
  /\ ppc = "pass"
  /\ \/ PassFails /\ nomemory' = TRUE
     \/ /\ ~Enough(Len(zout) - row.from, ImgLen(row.x, row.y))
        /\ PassFails /\ UNCHANGED nomemory
     \/ /\ Enough(Len(zout) - row.from, ImgLen(row.x, row.y))
        /\ ppc' = "row"
        /\ out' = Allocated(row.x * row.y * img.out_n)
        /\ heap' = heap \cup {"out"}
        /\ UNCHANGED <<load, at, img, row, fin, result, zvars, nomemory>>

(* A row of more than one byte is taken for as many as it has times the    *)
(* samples of a pixel: with samples that are less than a byte the code     *)
(* goes on behind the row, or it fails an assertion before.                *)
Runaway == Narrow /\ img.n > 1 /\ WidthBytes(row.x) > 1

Row ==
  /\ ppc = "row" /\ row.j < row.y
  /\ LET f == zout[row.from + row.j * (WidthBytes(row.x) + 1) + 1]
     IN  IF f > 4 THEN PassFails /\ UNCHANGED nomemory
         ELSE IF Runaway THEN PngStrays
         ELSE /\ out' = With(out, Cur(row.j),
                             Filtered(IF row.j = 0 THEN first_row_filter[f + 1]
                                      ELSE FiltersKept[f + 1]))
              /\ row' = [row EXCEPT !.j = @ + 1]
              /\ UNCHANGED <<load, ppc, at, img, fin, heap, result, zvars,
                             nomemory>>

Unpack ==
  /\ ppc = "row" /\ row.j = row.y
  /\ out' = IF Narrow
            THEN LET rows == [j \in 0 .. row.y - 1 |-> WithAlpha(Spread(j))]
                 IN  [a \in DOMAIN out |-> rows[a \div Stride][a % Stride]]
            ELSE out
  /\ ppc' = IF img.interlace = 1 THEN "place" ELSE "transform"
  /\ UNCHANGED <<load, at, img, row, fin, heap, result, zvars, nomemory>>

-----------------------------------------------------------------------------
(* The passes (stbi__create_png_image).                                    *)

(* The final picture with the pixels of the pass where they belong.        *)
WithPass ==
  LET o == Adam7[row.p]
      to(pixel) == ((pixel \div row.x) * o[4] + o[2]) * img.x
                     + (pixel % row.x) * o[3] + o[1]
  IN  FoldLeft(LAMBDA f, c : [f EXCEPT
                 ![to(c \div img.out_n) * img.out_n + (c % img.out_n)] = out[c]],
               fin, [c \in 1 .. row.x * row.y * img.out_n |-> c - 1])

(* Without a final picture there is nowhere to copy to.                    *)
NowhereToPlace ==
  /\ ppc = "place" /\ "final" \notin heap
  /\ PngStrays

(* A pass is placed, and the final picture takes over after the last one.  *)
Place ==
  /\ ppc = "place" /\ "final" \in heap
  /\ IF MorePasses
     THEN /\ ppc' = "pass"
          /\ row' = PassRow(row.p + 1, row.from + ImgLen(row.x, row.y))
          /\ fin' = WithPass /\ out' = <<>>
          /\ heap' = heap \ {"out"}
     ELSE /\ ppc' = "transform"
          /\ fin' = <<>> /\ out' = WithPass
          /\ heap' = heap \ {"final"}
          /\ UNCHANGED row
  /\ UNCHANGED <<load, at, img, result, zvars, nomemory>>

-----------------------------------------------------------------------------
(* What is done to the pixels afterwards, and the result.                  *)

(* The pixels of a picture of n samples a pixel.                           *)
Pixels(o, n) ==
  [i \in 0 .. img.x * img.y - 1 |-> [k \in 1 .. n |-> o[i * n + k - 1]]]

(* The picture of pixels p, m samples each.                                *)
FromPixels(p, m) == [a \in 0 .. m * img.x * img.y - 1 |-> p[a \div m][(a % m) + 1]]

(* stbi__compute_transparency, of the pixels of a picture.                 *)
Transparency(p) ==
  [i \in DOMAIN p |->
     [p[i] EXCEPT ![img.out_n] =
        IF \A k \in 1 .. img.out_n - 1 : p[i][k] = img.tc[k] THEN 0 ELSE @]]

(* stbi__de_iphone: blue, green, red to red, green, blue, and the alpha    *)
(* taken out of them.                                                      *)
DeIphone(p) ==
  LET flipped == [p EXCEPT ![1] = p[3], ![3] = p[1]]
  IN  IF Len(p) = 4 /\ load.unpremultiply /\ p[4] > 0
      THEN [k \in 1 .. 4 |-> IF k = 4 THEN p[4]
                             ELSE STBI__BYTECAST((flipped[k] * MaxByte) \div p[4])]
      ELSE flipped

Transform ==
  /\ ppc = "transform"
  /\ LET pixels == Pixels(out, img.out_n)
         seen == IF img.has_trans THEN Transparency(pixels) ELSE pixels
         flipped == IF img.is_iphone /\ load.de_iphone /\ img.out_n > 2
                    THEN [i \in DOMAIN seen |-> DeIphone(seen[i])] ELSE seen
     IN  out' = FromPixels(flipped, img.out_n)
  /\ ppc' = IF img.pal_img_n > 0 THEN "palette" ELSE "convert"
  /\ heap' = IF img.pal_img_n > 0 THEN heap ELSE heap \ {"expanded"}
  /\ UNCHANGED <<load, at, img, row, fin, result, zvars, nomemory>>

(* The components a color of the palette gets.                             *)
PaletteOut == IF load.req_comp >= 3 THEN load.req_comp ELSE img.pal_img_n

(* Colors that may be where none was set: two of all there are.            *)
Junk == {<<0, 0, 0, 0>>, <<MaxByte, 0, MaxByte, 0>>}

(* stbi__expand_png_palette.  There is no telling what a color is that was *)
(* not set.                                                                *)
Palette ==
  /\ ppc = "palette"
  /\ \/ PngNoMemory
     \/ \E junk \in [({out[a] : a \in DOMAIN out} \ DOMAIN img.palette)
                       -> Junk] :
          LET color == [a \in DOMAIN out |->
                          IF out[a] \in DOMAIN img.palette THEN img.palette[out[a]]
                          ELSE junk[out[a]]]
          IN  /\ out' = FromPixels(color, PaletteOut)
              /\ img' = [img EXCEPT !.n = img.pal_img_n, !.out_n = PaletteOut]
              /\ ppc' = "convert"
              /\ heap' = heap \ {"expanded"}
              /\ UNCHANGED <<load, at, row, fin, result, zvars, nomemory>>

(* stbi__compute_y.                                                        *)
Gray(p) == (p[1] * Luma[1] + p[2] * Luma[2] + p[3] * Luma[3]) \div 2^BITS

(* stbi__convert_format, of a pixel to req components.                     *)
Converted(p, req) ==
  LET n == Len(p)
      alpha == IF n \in {2, 4} THEN p[n] ELSE MaxByte
      y == IF n < 3 THEN p[1] ELSE Gray(p)
  IN  CASE req = 1 -> <<y>>
        [] req = 2 -> <<y, alpha>>
        [] req = 3 -> IF n < 3 THEN <<p[1], p[1], p[1]>> ELSE <<p[1], p[2], p[3]>>
        [] req = 4 -> IF n < 3 THEN <<p[1], p[1], p[1], alpha>>
                      ELSE <<p[1], p[2], p[3], alpha>>

Loaded(data, n) ==
  [ok |-> TRUE, x |-> img.x, y |-> img.y, n |-> n,
   data |-> [a \in 1 .. img.x * img.y * n |-> data[a - 1]]]

(* The bytes that stbi__convert_format asks for, as it computes them, are  *)
(* not those it is going to write.                                         *)
ConvertOverflows(req) == req * img.x * img.y >= UINT

(* The rest of stbi__do_png.                                               *)
Convert ==
  /\ ppc = "convert"
  /\ LET req == load.req_comp
         kept == (heap \ {"out"}) \cup {"result"}
         pixels == Pixels(out, img.out_n)
         converted == [i \in DOMAIN pixels |-> Converted(pixels[i], req)]
     IN  IF req = 0 \/ req = img.out_n
         THEN Return(Loaded(out, img.out_n), kept) /\ UNCHANGED nomemory
         ELSE \/ ConvertOverflows(req) /\ PngStrays
              \/ /\ ~ConvertOverflows(req)
                 /\ Return(Loaded(FromPixels(converted, req), req), kept)
                 /\ UNCHANGED nomemory
              \/ Return(NoResult, heap \ {"out"}) /\ nomemory' = TRUE

PngNext ==
  \/ PngStart \/ ParseChunk \/ Inflated \/ PassBegin \/ Row \/ Unpack
  \/ NowhereToPlace \/ Place \/ Transform \/ Palette \/ Convert

InflaterNext ==
  /\ ppc \in {"none", "inflate"}
  /\ Next
  /\ UNCHANGED pngvars

PngReturned ==
  /\ \/ ppc \in {"returned", "undefined"}
     \/ ppc = "none" /\ pc \in {"done", "failed", "undefined", "endless"}
     \/ ppc = "inflate" /\ pc \in {"undefined", "endless"}
  /\ UNCHANGED <<vars, pngvars>>

PngSpec ==
  /\ PngInit
  /\ [][PngNext \/ InflaterNext \/ PngReturned]_<<vars, pngvars>>
  /\ WF_<<vars, pngvars>>(PngNext \/ InflaterNext)

-----------------------------------------------------------------------------
(* Every sample of a picture is a byte once its row is unpacked, as are    *)
(* those of a result.                                                      *)
PngTypeOK ==
  /\ ppc \in {"transform", "palette", "convert"} =>
       \A a \in DOMAIN out : out[a] \in 0 .. MaxByte
  /\ load # NoResult => Len(img.idata) < UINT \div 2
  /\ heap \subseteq {"idata", "expanded", "final", "out", "result"}
  /\ at \in 1 .. IF load = NoResult THEN 1 ELSE Len(load.chunks) + 1

(* The decoder goes astray only where no memory is, in a file whose pixels *)
(* have several samples of less than a byte, which is none, or where the   *)
(* components asked for make a picture larger than an unsigned int.        *)
PngStraysOnly ==
  ppc = "undefined" =>
    \/ nomemory
    \/ Narrow /\ img.n > 1 /\ load.known # "good"
    \/ ConvertOverflows(load.req_comp)

(* A file that is a picture is shown as it is: the samples of every pixel, *)
(* however its rows are filtered, packed and interlaced, with the          *)
(* transparency of the file and in as many components as are asked for.    *)
Decoded ==
  ppc = "returned" /\ result.ok /\ load.known = "good" => result = load.shows

(* A file is refused only if it must be, or for want of memory, and one    *)
(* whose chunks are not in order or do not fit each other always is.       *)
PngAccepts ==
  ppc = "returned" =>
    /\ load.known = "good" => result.ok \/ nomemory
    /\ load.known = "bad" => ~result.ok

(* Nothing stays allocated behind a call but the picture it returns,       *)
(* wherever it ends.                                                       *)
PngReleased ==
  ppc = "returned" =>
    heap = IF load.api = "load" /\ result.ok THEN {"result"} ELSE {}

(* The data that has come fits the room there is for it, whose size does   *)
(* not overflow.                                                           *)
IdataFits ==
  /\ Len(img.idata) <= img.idata_limit
  /\ img.idata_limit < UINT

(* A call tells how many components the picture in the file has, which is  *)
(* "the number of components that _would_ have been output" if none are    *)
(* asked for.                                                              *)
CompAsFile ==
  ppc = "returned" /\ result.ok /\ load.known = "good" /\ load.api # "test"
    => result.n = load.comp

(* Every call returns, whatever is in the file, unless it goes astray or   *)
(* the inflater does not return.                                           *)
PngReturns ==
  ppc = "start" ~> ppc \in {"returned", "undefined"} \/ Lost

(* A picture comes out as it is in the file, sample by sample, and what is *)
(* no picture is refused.                                                  *)
LoadsRight == PngTypeOK /\ PngStraysOnly /\ Decoded /\ PngAccepts

(* Memory that grows with the file holds what is put there, and is given   *)
(* back wherever the call ends.                                            *)
MemoryRight == PngReleased /\ IdataFits

=============================================================================
