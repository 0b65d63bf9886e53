---------------------------- MODULE AxfsPngProofs ----------------------------
(***************************************************************************)
(* Proofs about AxfsInflate and AxfsPng: what a call of the decoder keeps  *)
(* allocated, and the room there is for the data of a file and for what    *)
(* comes out of the inflater, for files of any chunks and streams of any   *)
(* blocks.                                                                 *)
(***************************************************************************)
EXTENDS AxfsPng, SequenceTheorems, FiniteSetTheorems, WellFoundedInduction,
        TLAPS

IsSeq(s) == s \in Seq({s[k] : k \in DOMAIN s})
Bytes == 0 .. 2^BITS - 1

-----------------------------------------------------------------------------
(* Sequences, and the least of some numbers.                               *)
LEMMA Listed ==
  ASSUME NEW n \in Nat, NEW s, s = [k \in 1 .. n |-> s[k]]
  PROVE  IsSeq(s) /\ Len(s) = n /\ DOMAIN s = 1 .. n
<1>1. s \in [1 .. n -> {s[k] : k \in DOMAIN s}]
  OBVIOUS
<1>2. s \in Seq({s[k] : k \in DOMAIN s})
  BY <1>1
<1>3. DOMAIN s = 1 .. Len(s) /\ Len(s) \in Nat
  BY <1>2, LenProperties
<1> QED
  BY <1>1, <1>2, <1>3 DEF IsSeq

LEMMA Joined ==
  ASSUME NEW s, NEW t, IsSeq(s), IsSeq(t)
  PROVE  /\ IsSeq(s \o t) /\ Len(s \o t) = Len(s) + Len(t)
         /\ Len(s) \in Nat /\ Len(t) \in Nat
         /\ \A k \in 1 .. Len(s) : (s \o t)[k] = s[k]
         /\ \A k \in 1 .. Len(t) : (s \o t)[Len(s) + k] = t[k]
<1> DEFINE A == {s[k] : k \in DOMAIN s}
           B == {t[k] : k \in DOMAIN t}
           S == A \cup B
           u == s \o t
<1>1. s \in Seq(A) /\ t \in Seq(B)
  BY DEF IsSeq
<1>2. /\ Len(s) \in Nat /\ Len(t) \in Nat
      /\ s \in [1 .. Len(s) -> A] /\ t \in [1 .. Len(t) -> B]
  BY <1>1, LenProperties
<1>3. s \in Seq(S) /\ t \in Seq(S)
  BY <1>1
<1> HIDE DEF A, B, S
<1>4. /\ u \in Seq(S) /\ Len(u) = Len(s) + Len(t)
      /\ \A k \in 1 .. Len(s) + Len(t) :
           u[k] = IF k <= Len(s) THEN s[k] ELSE t[k - Len(s)]
  BY <1>3, ConcatProperties
<1>5. ASSUME NEW k \in 1 .. Len(s) PROVE u[k] = s[k]
  <2>1. k \in 1 .. Len(s) + Len(t) /\ k <= Len(s)
    BY <1>2
  <2> QED
    BY <2>1, <1>4
<1>6. ASSUME NEW k \in 1 .. Len(t) PROVE u[Len(s) + k] = t[k]
  <2> DEFINE j == Len(s) + k
  <2>1. j \in 1 .. Len(s) + Len(t) /\ ~(j <= Len(s)) /\ j - Len(s) = k
    BY <1>2
  <2> HIDE DEF j
  <2>2. u[j] = t[k]
    BY <2>1, <1>4
  <2> QED
    BY <2>2 DEF j
<1>7. u = [k \in 1 .. Len(u) |-> u[k]] /\ Len(u) \in Nat
  <2>1. u \in [1 .. Len(u) -> S]
    BY <1>4, LenProperties
  <2>2. Len(u) \in Nat
    BY <1>2, <1>4
  <2> HIDE DEF u
  <2> QED
    BY <2>1, <2>2
<1> HIDE DEF u
<1>8. IsSeq(u)
  BY <1>7, Listed
<1> QED
  BY <1>2, <1>4, <1>5, <1>6, <1>8 DEF u

-----------------------------------------------------------------------------
(* Numbers: the least and the greatest of some, division and powers of two. *)
Before == OpToRel(<, Nat)

LEMMA LeastIs ==
  ASSUME NEW T, T \subseteq Nat, T # {}
  PROVE  \E x \in T : \A y \in T : x <= y
<1>1. PICK x \in T : \A y \in T : ~(<<y, x>> \in Before)
  BY NatLessThanWellFounded, WFMin, Zenon DEF Before
<1>2. \A y \in T : x <= y
  <2> TAKE y \in T
  <2>1. (<<y, x>> \in Before) <=> y < x
    BY Zenon DEF Before, OpToRel
  <2> QED
    BY <1>1, <2>1
<1> QED
  BY <1>2

(* The greatest of some numbers that are not greater than m.               *)
LEMMA GreatestIs ==
  ASSUME NEW m \in Nat, NEW T, T \subseteq 0 .. m, T # {}
  PROVE  \E x \in T : \A y \in T : y <= x
<1> DEFINE U == {m - x : x \in T}
<1>1. U \subseteq Nat /\ U # {}
  <2>1. ASSUME NEW x \in T PROVE m - x \in Nat
    <3>1. x \in 0 .. m
      OBVIOUS
    <3> QED
      BY <3>1
  <2> QED
    BY <2>1
<1>2. PICK u \in U : \A v \in U : u <= v
  BY <1>1, LeastIs
<1>3. PICK x \in T : u = m - x
  BY <1>2
<1>4. ASSUME NEW y \in T PROVE y <= x
  <2>1. u <= m - y
    BY <1>2
  <2> QED
    BY <1>3, <2>1
<1> QED
  BY <1>4

LEMMA DivMod ==
  ASSUME NEW a \in Nat, NEW b \in Nat \ {0}
  PROVE  /\ a \div b \in Nat /\ a % b \in 0 .. b - 1
         /\ a = (a \div b) * b + (a % b)
OBVIOUS

(* Powers of two count the subsets of a set.                               *)
LEMMA PowerCounts ==
  ASSUME NEW n \in Nat
  PROVE  /\ IsFiniteSet(SUBSET (1 .. n)) /\ Cardinality(SUBSET (1 .. n)) = 2^n
         /\ 2^n \in Nat \ {0}
<1>1. IsFiniteSet(1 .. n) /\ Cardinality(1 .. n) = n
  BY FS_Interval
<1>2. /\ IsFiniteSet(SUBSET (1 .. n))
      /\ Cardinality(SUBSET (1 .. n)) = 2^n
  BY <1>1, FS_SUBSET
<1>3. 2^n \in Nat
  BY <1>2, FS_CardinalityType
<1>4. 2^n # 0
  <2>1. {} \in SUBSET (1 .. n)
    OBVIOUS
  <2> QED
    BY <1>2, <2>1, FS_EmptySet
<1> QED
  BY <1>2, <1>3, <1>4

-----------------------------------------------------------------------------
(* The room that is doubled is enough, is kept if it is enough already,    *)
(* and is less than twice what has to fit.                                 *)
Twice(f, room, n) == f = [i \in 0 .. n |-> IF i = 0 THEN room ELSE 2 * f[i - 1]]

LEMMA TwiceStep ==
  ASSUME NEW room \in Nat, NEW n \in Nat, n > 0, NEW f, Twice(f, room, n - 1)
  PROVE  \E g : Twice(g, room, n)
<1> DEFINE h(i) == IF i < n THEN f[i] ELSE 2 * f[n - 1]
           g == [i \in 0 .. n |-> h(i)]
<1>1. ASSUME NEW i \in 0 .. n
      PROVE  h(i) = IF i = 0 THEN room ELSE 2 * g[i - 1]
  <2>1. CASE i = 0
    <3>1. 0 \in 0 .. n - 1 /\ 0 < n
      OBVIOUS
    <3> QED
      BY <2>1, <3>1 DEF Twice
  <2>2. CASE i # 0 /\ i < n
    <3>1. i \in 0 .. n - 1 /\ i - 1 \in 0 .. n /\ i - 1 < n
      BY <2>2
    <3>2. f[i] = 2 * f[i - 1] /\ g[i - 1] = f[i - 1]
      BY <2>2, <3>1 DEF Twice
    <3> QED
      BY <2>2, <3>2
  <2>3. CASE i = n
    <3>1. n - 1 \in 0 .. n /\ n - 1 < n /\ n # 0 /\ ~(n < n)
      OBVIOUS
    <3>2. g[n - 1] = f[n - 1]
      BY <3>1
    <3> QED
      BY <2>3, <3>1, <3>2
  <2> QED
    BY <2>1, <2>2, <2>3
<1> HIDE DEF h
<1>2. g = [i \in 0 .. n |-> IF i = 0 THEN room ELSE 2 * g[i - 1]]
  BY <1>1
<1> QED
  BY <1>2 DEF Twice

LEMMA TwiceExists ==
  ASSUME NEW room \in Nat, NEW n \in Nat
  PROVE  \E f : Twice(f, room, n)
<1> DEFINE T == {m \in Nat : ~\E f : Twice(f, room, m)}
<1>1. SUFFICES ASSUME T # {} PROVE FALSE
  OBVIOUS
<1>2. PICK m \in T : \A y \in T : m <= y
  BY <1>1, LeastIs
<1>3. m # 0
  <2> DEFINE g == [i \in 0 .. 0 |-> room]
  <2>1. g = [i \in 0 .. 0 |-> IF i = 0 THEN room ELSE 2 * g[i - 1]]
    OBVIOUS
  <2>2. Twice(g, room, 0)
    BY <2>1 DEF Twice
  <2> QED
    BY <2>2, <1>2
<1>4. m - 1 \in Nat /\ m > 0 /\ m - 1 \notin T
  BY <1>2, <1>3
<1>5. PICK f : Twice(f, room, m - 1)
  BY <1>4
<1>6. \E g : Twice(g, room, m)
  BY <1>4, <1>5, TwiceStep
<1> QED
  BY <1>2, <1>6

LEMMA TwiceGrows ==
  ASSUME NEW room \in Nat, NEW n \in Nat, n > 0 => room > 0,
         NEW f, Twice(f, room, n)
  PROVE  \A i \in 0 .. n : f[i] \in Nat /\ f[i] >= room /\ (n > 0 => f[i] > i)
<1> DEFINE T == {i \in 0 .. n :
                   ~(f[i] \in Nat /\ f[i] >= room /\ (n > 0 => f[i] > i))}
<1>1. SUFFICES ASSUME T # {} PROVE FALSE
  OBVIOUS
<1>2. PICK m \in T : \A y \in T : m <= y
  <2>1. T \subseteq Nat
    OBVIOUS
  <2> QED
    BY <1>1, <2>1, LeastIs
<1>3. m # 0
  <2>1. 0 \in 0 .. n
    OBVIOUS
  <2>2. f[0] = room
    BY <2>1 DEF Twice
  <2> QED
    BY <1>2, <2>2
<1>4. m - 1 \in 0 .. n /\ m \in 0 .. n /\ m - 1 \notin T
  BY <1>2, <1>3
<1>5. f[m - 1] \in Nat /\ f[m - 1] >= room /\ (n > 0 => f[m - 1] > m - 1)
  BY <1>4
<1>6. f[m] = 2 * f[m - 1]
  BY <1>3, <1>4 DEF Twice
<1>7. f[m] \in Nat /\ f[m] >= room /\ (n > 0 => f[m] > m)
  BY <1>4, <1>5, <1>6
<1> QED
  BY <1>2, <1>7

LEMMA DoubledIs ==
  ASSUME NEW room \in Nat, NEW n \in Nat, n > 0 => room > 0
  PROVE  /\ Doubled(room, n) \in Nat
         /\ Doubled(room, n) >= n
         /\ Doubled(room, n) >= room
         /\ n <= room => Doubled(room, n) = room
         /\ n > room => Doubled(room, n) < 2 * n
<1>1. PICK twice : /\ twice = CHOOSE f : Twice(f, room, n)
                   /\ Twice(twice, room, n)
  BY TwiceExists, Zenon
<1> DEFINE Least(i) == twice[i] >= n /\ \A j \in 0 .. i - 1 : twice[j] < n
           k == CHOOSE i \in 0 .. n : Least(i)
<1>2. Doubled(room, n) = twice[k]
  BY <1>1, Zenon DEF Doubled, Twice
<1>3. \A i \in 0 .. n : twice[i] \in Nat /\ twice[i] >= room /\ (n > 0 => twice[i] > i)
  BY <1>1, TwiceGrows
<1>4. \A i \in 0 .. n : twice[i] = IF i = 0 THEN room ELSE 2 * twice[i - 1]
  BY <1>1 DEF Twice
<1>5. \E i \in 0 .. n : Least(i)
  <2> DEFINE T == {i \in 0 .. n : twice[i] >= n}
  <2>1. n \in T
    <3>1. n \in 0 .. n
      OBVIOUS
    <3>2. twice[n] \in Nat /\ (n > 0 => twice[n] > n)
      BY <1>3, <3>1
    <3>3. twice[n] >= n
      BY <3>2
    <3> QED
      BY <3>1, <3>3
  <2>2. PICK x \in T : \A y \in T : x <= y
    <3>1. T \subseteq Nat
      OBVIOUS
    <3> HIDE DEF T
    <3> QED
      BY <2>1, <3>1, LeastIs
  <2>3. ASSUME NEW j \in 0 .. x - 1 PROVE twice[j] < n
    <3>1. j \in 0 .. n /\ j \in Nat /\ x \in Nat /\ ~(x <= j)
      BY <2>2
    <3>2. ~(twice[j] >= n) /\ twice[j] \in Nat
      BY <2>2, <3>1, <1>3
    <3> QED
      BY <3>2
  <2>4. x \in 0 .. n /\ Least(x)
    BY <2>2, <2>3
  <2> QED
    BY <2>4, Zenon
<1>6. k \in 0 .. n /\ Least(k)
  BY <1>5, Zenon
<1> HIDE DEF k
<1>7. /\ twice[k] \in Nat /\ twice[k] >= n /\ twice[k] >= room
      /\ twice[k] = IF k = 0 THEN room ELSE 2 * twice[k - 1]
      /\ k \in Nat /\ \A j \in 0 .. k - 1 : twice[j] < n
  BY <1>3, <1>4, <1>6
<1>8. CASE k = 0
  BY <1>2, <1>7, <1>8
<1>9. CASE k # 0
  <2>1. k - 1 \in 0 .. n /\ k - 1 \in 0 .. k - 1 /\ 0 \in 0 .. k - 1 /\ 0 \in 0 .. n
    BY <1>6, <1>9
  <2>2. twice[k] = 2 * twice[k - 1] /\ twice[k - 1] < n /\ twice[k - 1] \in Nat
    BY <1>3, <1>7, <1>9, <2>1
  <2>3. room < n
    <3>1. twice[0] = room
      BY <1>4, <2>1
    <3> QED
      BY <1>7, <2>1, <3>1
  <2> QED
    BY <1>2, <1>7, <2>2, <2>3
<1> QED
  BY <1>8, <1>9

-----------------------------------------------------------------------------
(* The memory of the decoder: what is allocated at each step of a load,    *)
(* and the data of the file in the room there is for it.                   *)
Fields == DOMAIN FreshImg

Steps == {"none", "start", "chunk", "inflate", "pass", "row", "place",
          "transform", "palette", "convert", "returned", "undefined"}

Decoding == {"inflate", "pass", "row", "place", "transform", "palette",
             "convert"}

Kept ==
  /\ ppc \in {"none", "start"} => heap = {}
  /\ ppc = "chunk" =>
       \/ load.api = "load" /\ heap \subseteq {"idata"}
       \/ load.api = "info" /\ heap = {}
  /\ ppc \in Decoding => load.api = "load"
  /\ ppc = "inflate" => heap \subseteq {"idata"}
  /\ ppc \in {"pass", "row", "place"} =>
       heap \subseteq {"expanded", "final", "out"}
  /\ ppc \in {"pass", "row"} /\ img.interlace # 1 => "final" \notin heap
  /\ ppc = "place" => img.interlace = 1
  /\ ppc \in {"transform", "palette"} => heap \subseteq {"expanded", "out"}
  /\ ppc = "convert" => heap \subseteq {"out"}

Roomy ==
  /\ DOMAIN img = Fields
  /\ img.idata \in Seq(Bytes) /\ img.idata_limit \in Nat
  /\ Len(img.idata) <= img.idata_limit
  /\ Len(img.idata) < UINT \div 2
  /\ img.idata_limit < UINT

MemoryInv ==
  /\ ppc \in Steps
  /\ ppc # "none" => load \in Loads
  /\ at \in Nat /\ at > 0
  /\ Kept
  /\ PngReleased
  /\ Roomy

LEMMA FieldsAre ==
  Fields = {"first", "pal_img_n", "pal_len", "palette", "has_trans", "tc",
            "depth", "color", "interlace", "is_iphone", "x", "y", "n", "out_n",
            "idata", "idata_limit"}
BY DEF Fields, FreshImg

LEMMA RoomyInit ==
  ASSUME PngInit PROVE MemoryInv
<1>1. UINT \in Nat /\ UINT > 1
  BY PngAssumption, FormatAssumption
<1>2. DOMAIN img = Fields /\ img.idata = <<>> /\ img.idata_limit = 0
  BY DEF PngInit, FreshImg, Fields
<1>3. Roomy
  BY <1>1, <1>2 DEF Roomy
<1>4. ppc \in {"none", "start"} /\ heap = {} /\ at = 1 /\ (ppc = "none" \/ load \in Loads)
  BY DEF PngInit
<1> QED
  BY <1>3, <1>4 DEF MemoryInv, Kept, PngReleased, Steps, Decoding

(* A call that ends gives everything back but its result.                  *)
LEMMA ReturnKeeps ==
  ASSUME MemoryInv, ppc # "none", NEW r, NEW kept, Return(r, kept),
         kept = IF load.api = "load" /\ r.ok THEN {"result"} ELSE {}
  PROVE  MemoryInv'
<1>1. /\ ppc' = "returned" /\ result' = r /\ heap' = kept
      /\ load' = load /\ at' = at /\ img' = img
  BY DEF Return
<1>2. Roomy'
  BY <1>1 DEF MemoryInv, Roomy
<1>3. Kept' /\ PngReleased'
  BY <1>1 DEF Kept, PngReleased, Decoding
<1> QED
  BY <1>1, <1>2, <1>3 DEF MemoryInv, Steps

LEMMA NotParsedKeeps ==
  ASSUME MemoryInv, NotParsed, ppc \in {"start", "chunk", "inflate", "palette"}
  PROVE  MemoryInv'
<1> DEFINE kept == IF load.api = "load" THEN heap \ FreedByLoad ELSE heap
<1>1. Return(NoResult, kept)
  BY DEF NotParsed
<1>2. kept = {}
  BY DEF MemoryInv, Kept, Decoding, FreedByLoad
<1>3. NoResult.ok = FALSE
  BY DEF NoResult
<1> QED
  BY <1>1, <1>2, <1>3, ReturnKeeps

LEMMA InformedKeeps ==
  ASSUME MemoryInv, ppc = "chunk", load.api = "info",
         NEW x, NEW y, NEW n, Informed(x, y, n)
  PROVE  MemoryInv'
<1> DEFINE r == [ok |-> TRUE, x |-> x, y |-> y, n |-> n]
<1>1. Return(r, heap)
  BY DEF Informed
<1>2. heap = {}
  BY DEF MemoryInv, Kept
<1> HIDE DEF r
<1> QED
  BY <1>1, <1>2, ReturnKeeps

(* A chunk that leaves the data as it is.                                  *)
LEMMA NextChunkKeeps ==
  ASSUME MemoryInv, ppc = "chunk", NEW i, NextChunk(i), heap' = heap,
         DOMAIN i = Fields, i.idata = img.idata,
         i.idata_limit = img.idata_limit
  PROVE  MemoryInv'
<1>1. img' = i /\ at' = at + 1 /\ ppc' = ppc /\ load' = load
  BY DEF NextChunk
<1>2. Roomy'
  BY <1>1 DEF MemoryInv, Roomy
<1>3. Kept' /\ PngReleased'
  BY <1>1 DEF MemoryInv, Kept, PngReleased, Decoding
<1> QED
  BY <1>1, <1>2, <1>3 DEF MemoryInv

LEMMA StartKeeps ==
  ASSUME MemoryInv, PngStart
  PROVE  MemoryInv'
<1>1. /\ ppc = "start" /\ load \in Loads /\ heap = {}
      /\ load.api \in {"load", "info", "test"}
  BY PngAssumption DEF PngStart, MemoryInv, Kept
<1>2. CASE PngRefused
  BY <1>1, <1>2, NotParsedKeeps DEF PngRefused
<1>3. CASE load.api = "test" /\ Return([ok |-> TRUE], heap)
  BY <1>1, <1>3, ReturnKeeps
<1>4. CASE load.api # "test" /\ ppc' = "chunk"
           /\ UNCHANGED <<load, at, img, row, out, fin, heap, result>>
  <2>1. Roomy'
    BY <1>4 DEF MemoryInv, Roomy
  <2>2. Kept' /\ PngReleased'
    BY <1>1, <1>4 DEF Kept, PngReleased, Decoding
  <2> QED
    BY <1>1, <1>4, <2>1, <2>2 DEF MemoryInv, Steps
<1> QED
  BY <1>1, <1>2, <1>3, <1>4 DEF PngStart

LEMMA CgBIKeeps ==
  ASSUME MemoryInv, ppc = "chunk", CgBI
  PROVE  MemoryInv'
<1> DEFINE i == [img EXCEPT !.is_iphone = TRUE]
<1>1. NextChunk(i) /\ heap' = heap
  BY DEF CgBI
<1>2. DOMAIN i = Fields /\ i.idata = img.idata /\ i.idata_limit = img.idata_limit
  BY FieldsAre DEF MemoryInv, Roomy
<1> HIDE DEF i
<1> QED
  BY <1>1, <1>2, NextChunkKeeps

LEMMA IHDRKeeps ==
  ASSUME MemoryInv, ppc = "chunk", IHDR
  PROVE  MemoryInv'
<1> DEFINE h == Chunk.data
           i == [img EXCEPT
                   !.first = FALSE, !.x = h.x, !.y = h.y, !.depth = h.depth,
                   !.color = h.color, !.interlace = h.interlace,
                   !.n = Components(h.color),
                   !.pal_img_n = IF h.color = 3 THEN 3 ELSE 0]
<1>1. \/ PngRefused
      \/ Scans("info") /\ Informed(h.x, h.y, Components(h.color))
      \/ NextChunk(i) /\ heap' = heap
  BY DEF IHDR
<1>2. DOMAIN i = Fields /\ i.idata = img.idata /\ i.idata_limit = img.idata_limit
  BY FieldsAre DEF MemoryInv, Roomy
<1> HIDE DEF i, h
<1>3. CASE PngRefused
  BY <1>3, NotParsedKeeps DEF PngRefused
<1>4. CASE Scans("info") /\ Informed(h.x, h.y, Components(h.color))
  BY <1>4, InformedKeeps DEF Scans
<1>5. CASE NextChunk(i) /\ heap' = heap
  BY <1>2, <1>5, NextChunkKeeps
<1> QED
  BY <1>1, <1>3, <1>4, <1>5

LEMMA PLTEKeeps ==
  ASSUME MemoryInv, ppc = "chunk", PLTE
  PROVE  MemoryInv'
<1>1. PICK n, p : \/ PngRefused
                  \/ /\ NextChunk([img EXCEPT !.pal_len = n, !.palette = p])
                     /\ heap' = heap
  BY Zenon DEF PLTE
<1> DEFINE i == [img EXCEPT !.pal_len = n, !.palette = p]
<1>2. DOMAIN i = Fields /\ i.idata = img.idata /\ i.idata_limit = img.idata_limit
  BY FieldsAre DEF MemoryInv, Roomy
<1> HIDE DEF i
<1>3. CASE PngRefused
  BY <1>3, NotParsedKeeps DEF PngRefused
<1>4. CASE NextChunk(i) /\ heap' = heap
  BY <1>2, <1>4, NextChunkKeeps
<1> QED
  BY <1>1, <1>3, <1>4 DEF i

LEMMA TRNSKeeps ==
  ASSUME MemoryInv, ppc = "chunk", TRNS
  PROVE  MemoryInv'
<1>1. PICK p, t :
        \/ PngRefused
        \/ Scans("info") /\ Informed(img.x, img.y, 4)
        \/ /\ NextChunk(IF img.pal_img_n > 0
                        THEN [img EXCEPT !.pal_img_n = 4, !.palette = p]
                        ELSE [img EXCEPT !.has_trans = TRUE, !.tc = t])
           /\ heap' = heap
  BY Zenon DEF TRNS
<1> DEFINE i == IF img.pal_img_n > 0
                THEN [img EXCEPT !.pal_img_n = 4, !.palette = p]
                ELSE [img EXCEPT !.has_trans = TRUE, !.tc = t]
<1>2. DOMAIN i = Fields /\ i.idata = img.idata /\ i.idata_limit = img.idata_limit
  BY FieldsAre DEF MemoryInv, Roomy
<1> HIDE DEF i
<1>3. CASE PngRefused
  BY <1>3, NotParsedKeeps DEF PngRefused
<1>4. CASE Scans("info") /\ Informed(img.x, img.y, 4)
  BY <1>4, InformedKeeps DEF Scans
<1>5. CASE NextChunk(i) /\ heap' = heap
  BY <1>2, <1>5, NextChunkKeeps
<1> QED
  BY <1>1, <1>3, <1>4, <1>5 DEF i

LEMMA OtherChunkKeeps ==
  ASSUME MemoryInv, ppc = "chunk", OtherChunk
  PROVE  MemoryInv'
<1>1. CASE PngRefused
  BY <1>1, NotParsedKeeps DEF PngRefused
<1>2. CASE NextChunk(img) /\ heap' = heap
  <2>1. DOMAIN img = Fields
    BY DEF MemoryInv, Roomy
  <2> QED
    BY <1>2, <2>1, NextChunkKeeps
<1> QED
  BY <1>1, <1>2 DEF OtherChunk

(* The room for the data of one more chunk.                                *)
LEMMA IDATKeeps ==
  ASSUME MemoryInv, ppc = "chunk", IDAT
  PROVE  MemoryInv'
<1> DEFINE ioff == Len(img.idata)
           sum == (ioff + Chunk.length) % UINT
           i == [img EXCEPT !.idata = @ \o Chunk.data, !.idata_limit = Room(sum)]
<1>1. \/ PngRefused \/ PngNoMemory
      \/ Scans("info") /\ Informed(img.x, img.y, img.pal_img_n)
      \/ /\ ~Scans("info")
         /\ ~(AsInt(sum) < AsInt(ioff))
         /\ Len(Chunk.data) = Chunk.length
         /\ NextChunk(i)
         /\ heap' = IF sum > img.idata_limit THEN heap \cup {"idata"} ELSE heap
  BY Zenon DEF IDAT
<1>2. CASE PngRefused \/ PngNoMemory
  BY <1>2, NotParsedKeeps DEF PngRefused, PngNoMemory
<1>3. CASE Scans("info") /\ Informed(img.x, img.y, img.pal_img_n)
  BY <1>3, InformedKeeps DEF Scans
<1>4. CASE /\ ~Scans("info")
           /\ ~(AsInt(sum) < AsInt(ioff))
           /\ Len(Chunk.data) = Chunk.length
           /\ NextChunk(i)
           /\ heap' = IF sum > img.idata_limit THEN heap \cup {"idata"} ELSE heap
  <2>1. /\ img.idata \in Seq(Bytes) /\ ioff \in Nat /\ img.idata_limit \in Nat
        /\ ioff <= img.idata_limit /\ ioff < UINT \div 2 /\ img.idata_limit < UINT
        /\ UINT \in Nat /\ UINT > 1 /\ IDATA \in 1 .. UINT - 1
    <3>1. UINT \in Nat /\ IDATA \in 1 .. UINT - 1
      BY PngAssumption, FormatAssumption
    <3> QED
      BY <3>1, LenProperties DEF MemoryInv, Roomy
  <2>2. Chunk.length \in 0 .. UINT - 1 /\ Chunk.data \in Seq(Bytes)
    <3>1. load \in Loads /\ at \in Nat /\ at > 0
      BY DEF MemoryInv
    <3>2. CASE at <= Len(load.chunks)
      <4>1. at \in 1 .. Len(load.chunks)
        BY <3>1, <3>2, PngAssumption
      <4>2. Chunk = load.chunks[at]
        BY <3>2 DEF Chunk
      <4>3. Chunk.type = "IDAT"
        BY DEF IDAT
      <4> QED
        BY <3>1, <4>1, <4>2, <4>3, PngAssumption DEF Bytes
    <3>3. CASE ~(at <= Len(load.chunks))
      <4>1. Chunk.type = "unknown"
        BY <3>3 DEF Chunk
      <4> QED
        BY <4>1 DEF IDAT
    <3> QED
      BY <3>1, <3>2, <3>3
  <2> HIDE DEF ioff
  <2>3. sum = ioff + Chunk.length /\ sum < UINT \div 2 /\ sum \in Nat
    <3>1. AsInt(ioff) = ioff
      BY <2>1 DEF AsInt, INT
    <3> DEFINE all == ioff + Chunk.length
    <3>5. all \in Nat /\ all < 2 * UINT
      <4>1. Chunk.length \in 0 .. UINT - 1
        BY <2>2
      <4> QED
        BY <2>1, <4>1
    <3>6. sum = all % UINT
      OBVIOUS
    <3> HIDE DEF all, sum
    <3>2. sum \in 0 .. UINT - 1
      BY <2>1, <3>5, <3>6
    <3>4. sum = all \/ sum = all - UINT
      BY <2>1, <3>5, <3>6
    <3>3. sum < UINT \div 2 /\ sum >= ioff
      <4>1. CASE sum < UINT \div 2
        BY <1>4, <2>1, <3>1, <3>2, <4>1 DEF AsInt, INT
      <4>2. CASE ~(sum < UINT \div 2)
        <5>1. AsInt(sum) = sum - UINT
          BY <4>2 DEF AsInt, INT
        <5> QED
          BY <1>4, <2>1, <3>1, <3>2, <5>1
      <4> QED
        BY <4>1, <4>2
    <3> QED
      BY <2>1, <2>2, <3>2, <3>3, <3>4 DEF all
  <2> HIDE DEF sum
  <2>4. Room(sum) \in Nat /\ Room(sum) >= sum /\ Room(sum) < UINT
    <3> DEFINE room == IF img.idata_limit > 0 \/ sum = 0 THEN img.idata_limit
                       ELSE IF Chunk.length > IDATA THEN Chunk.length ELSE IDATA
    <3>1. room \in Nat /\ room < UINT /\ (sum > 0 => room > 0)
      BY <2>1, <2>2
    <3>2. Room(sum) = Doubled(room, sum)
      BY DEF Room
    <3> HIDE DEF room
    <3>3. /\ Doubled(room, sum) \in Nat /\ Doubled(room, sum) >= sum
          /\ sum <= room => Doubled(room, sum) = room
          /\ sum > room => Doubled(room, sum) < 2 * sum
      BY <2>3, <3>1, DoubledIs
    <3> QED
      BY <2>1, <2>3, <3>1, <3>2, <3>3
  <2>5. /\ img' = i /\ at' = at + 1 /\ ppc' = ppc /\ load' = load
    BY <1>4 DEF NextChunk
  <2>6. /\ DOMAIN i = Fields /\ i.idata = img.idata \o Chunk.data
        /\ i.idata_limit = Room(sum)
    BY FieldsAre DEF MemoryInv, Roomy
  <2> HIDE DEF i
  <2>7. i.idata \in Seq(Bytes) /\ Len(i.idata) = sum
    <3>1. /\ img.idata \o Chunk.data \in Seq(Bytes)
          /\ Len(img.idata \o Chunk.data) = Len(img.idata) + Len(Chunk.data)
      BY <2>1, <2>2, ConcatProperties
    <3> QED
      BY <1>4, <2>3, <2>6, <3>1 DEF ioff
  <2>8. Roomy'
    BY <2>1, <2>3, <2>4, <2>5, <2>6, <2>7 DEF Roomy
  <2>9. Kept' /\ PngReleased'
    BY <1>4, <2>5 DEF MemoryInv, Kept, PngReleased, Decoding, Scans
  <2> QED
    BY <2>5, <2>8, <2>9 DEF MemoryInv
<1> QED
  BY <1>1, <1>2, <1>3, <1>4

LEMMA IENDKeeps ==
  ASSUME MemoryInv, ppc = "chunk", IEND
  PROVE  MemoryInv'
<1>1. CASE PngRefused
  BY <1>1, NotParsedKeeps DEF PngRefused
<1>2. CASE Scans("info") /\ Informed(img.x, img.y, img.n)
  BY <1>2, InformedKeeps DEF Scans
<1>3. CASE ~Scans("info") /\ ppc' = "inflate"
           /\ UNCHANGED <<load, at, img, row, out, fin, heap, result>>
  <2>1. Roomy'
    BY <1>3 DEF MemoryInv, Roomy
  <2>2. Kept' /\ PngReleased'
    BY <1>3 DEF MemoryInv, Kept, PngReleased, Decoding, Scans
  <2> QED
    BY <1>3, <2>1, <2>2 DEF MemoryInv, Steps
<1> QED
  BY <1>1, <1>2, <1>3 DEF IEND

LEMMA ParseChunkKeeps ==
  ASSUME MemoryInv, ParseChunk
  PROVE  MemoryInv'
BY CgBIKeeps, IHDRKeeps, PLTEKeeps, TRNSKeeps, IDATKeeps, IENDKeeps,
   OtherChunkKeeps DEF ParseChunk

(* A step from one part of the decoding to another.                        *)
LEMMA DecodingKeeps ==
  ASSUME MemoryInv, ppc \in Decoding, load' = load, at' = at, Roomy',
         ppc' \in {"pass", "row", "place", "transform", "palette", "convert"},
         ppc' \in {"pass", "row", "place"} =>
           heap' \subseteq {"expanded", "final", "out"},
         ppc' \in {"pass", "row"} /\ img'.interlace # 1 => "final" \notin heap',
         ppc' = "place" => img'.interlace = 1,
         ppc' \in {"transform", "palette"} => heap' \subseteq {"expanded", "out"},
         ppc' = "convert" => heap' \subseteq {"out"}
  PROVE  MemoryInv'
<1>1. Kept' /\ PngReleased'
  BY DEF MemoryInv, Kept, PngReleased, Decoding
<1> QED
  BY <1>1 DEF MemoryInv, Steps, Decoding

LEMMA InflatedKeeps ==
  ASSUME MemoryInv, Inflated
  PROVE  MemoryInv'
<1>1. /\ ppc = "inflate" /\ heap \subseteq {"idata"}
  BY DEF Inflated, MemoryInv, Kept
<1>2. CASE PngRefused
  BY <1>1, <1>2, NotParsedKeeps DEF PngRefused
<1>3. ASSUME NEW v, ppc' = "pass", img' = [img EXCEPT !.out_n = v],
             \/ heap' = (heap \ {"idata"}) \cup {"expanded"}
                           \cup IF img.interlace = 1 THEN {"final"} ELSE {}
             \/ /\ img.interlace = 1
                /\ heap' = (heap \ {"idata"}) \cup {"expanded"},
             load' = load, at' = at
      PROVE  MemoryInv'
  <2>1. /\ DOMAIN img' = Fields /\ img'.idata = img.idata
        /\ img'.idata_limit = img.idata_limit /\ img'.interlace = img.interlace
    BY <1>3, FieldsAre DEF MemoryInv, Roomy
  <2>2. Roomy'
    BY <2>1 DEF MemoryInv, Roomy
  <2>3. /\ heap' \subseteq {"expanded", "final"}
        /\ img.interlace # 1 => "final" \notin heap'
    BY <1>1, <1>3
  <2> QED
    BY <1>1, <1>3, <2>1, <2>2, <2>3, DecodingKeeps DEF Decoding
<1>4. CASE pc = "done"
  <2>1. \E v : /\ img' = [img EXCEPT !.out_n = v]
               /\ ppc' = "pass" /\ load' = load /\ at' = at
               /\ \/ heap' = (heap \ {"idata"}) \cup {"expanded"}
                               \cup IF img.interlace = 1 THEN {"final"} ELSE {}
                  \/ /\ img.interlace = 1
                     /\ heap' = (heap \ {"idata"}) \cup {"expanded"}
    BY <1>4, Zenon DEF Inflated
  <2> QED
    BY <1>3, <2>1
<1> QED
  BY <1>2, <1>4 DEF Inflated

LEMMA PassFailsKeeps ==
  ASSUME MemoryInv, ppc \in {"pass", "row"}, PassFails
  PROVE  MemoryInv'
<1> DEFINE kept == heap \ (FreedByLoad \cup {"final"})
<1>1. Return(NoResult, kept)
  BY DEF PassFails
<1>2. kept = {}
  BY DEF MemoryInv, Kept, FreedByLoad
<1>3. NoResult.ok = FALSE
  BY DEF NoResult
<1> QED
  BY <1>1, <1>2, <1>3, ReturnKeeps

LEMMA PassBeginKeeps ==
  ASSUME MemoryInv, PassBegin
  PROVE  MemoryInv'
<1>1. ppc = "pass"
  BY DEF PassBegin
<1>2. CASE PassFails
  BY <1>1, <1>2, PassFailsKeeps
<1>3. CASE /\ ppc' = "row" /\ heap' = heap \cup {"out"}
           /\ UNCHANGED <<load, at, img>>
  <2>1. Roomy'
    BY <1>3 DEF MemoryInv, Roomy
  <2>2. /\ heap' \subseteq {"expanded", "final", "out"}
        /\ img'.interlace # 1 => "final" \notin heap'
    BY <1>1, <1>3 DEF MemoryInv, Kept
  <2> QED
    BY <1>1, <1>3, <2>1, <2>2, DecodingKeeps DEF Decoding
<1> QED
  BY <1>2, <1>3 DEF PassBegin

(* A step after which nothing is said of the call.                         *)
LEMMA StraysKeep ==
  ASSUME MemoryInv, ppc \in Decoding, PngStrays
  PROVE  MemoryInv'
<1>1. ppc' = "undefined" /\ UNCHANGED <<load, at, img>>
  BY DEF PngStrays
<1>2. Roomy'
  BY <1>1 DEF MemoryInv, Roomy
<1>3. Kept' /\ PngReleased'
  BY <1>1 DEF Kept, PngReleased, Decoding
<1> QED
  BY <1>1, <1>2, <1>3 DEF MemoryInv, Steps, Decoding

LEMMA RowKeeps ==
  ASSUME MemoryInv, Row
  PROVE  MemoryInv'
<1>1. ppc = "row"
  BY DEF Row
<1>2. CASE PassFails
  BY <1>1, <1>2, PassFailsKeeps
<1>3. CASE UNCHANGED <<load, ppc, at, img, heap>>
  <2>1. Roomy'
    BY <1>3 DEF MemoryInv, Roomy
  <2>2. /\ heap' \subseteq {"expanded", "final", "out"}
        /\ img'.interlace # 1 => "final" \notin heap'
    BY <1>1, <1>3 DEF MemoryInv, Kept
  <2> QED
    BY <1>1, <1>3, <2>1, <2>2, DecodingKeeps DEF Decoding
<1>4. CASE PngStrays
  BY <1>1, <1>4, StraysKeep DEF Decoding
<1>5. PassFails \/ PngStrays \/ UNCHANGED <<load, ppc, at, img, heap>>
  BY Zenon DEF Row
<1> QED
  BY <1>2, <1>3, <1>4, <1>5

LEMMA UnpackKeeps ==
  ASSUME MemoryInv, Unpack
  PROVE  MemoryInv'
<1>1. /\ ppc = "row" /\ UNCHANGED <<load, at, img, heap>>
      /\ ppc' = IF img.interlace = 1 THEN "place" ELSE "transform"
  BY DEF Unpack
<1>2. Roomy'
  BY <1>1 DEF MemoryInv, Roomy
<1>3. /\ heap' \subseteq {"expanded", "final", "out"}
      /\ img.interlace # 1 => "final" \notin heap'
  BY <1>1 DEF MemoryInv, Kept
<1>4. ppc' = "transform" => heap' \subseteq {"expanded", "out"}
  BY <1>1, <1>3
<1> QED
  BY <1>1, <1>2, <1>3, <1>4, DecodingKeeps DEF Decoding

LEMMA PlaceKeeps ==
  ASSUME MemoryInv, Place
  PROVE  MemoryInv'
<1>1. /\ ppc = "place" /\ UNCHANGED <<load, at, img>>
      /\ \/ ppc' = "pass" /\ heap' = heap \ {"out"}
         \/ ppc' = "transform" /\ heap' = heap \ {"final"}
  BY DEF Place
<1>2. Roomy'
  BY <1>1 DEF MemoryInv, Roomy
<1>3. heap \subseteq {"expanded", "final", "out"} /\ img.interlace = 1
  BY <1>1 DEF MemoryInv, Kept
<1>4. ppc' = "transform" => heap' \subseteq {"expanded", "out"}
  BY <1>1, <1>3
<1> QED
  BY <1>1, <1>2, <1>3, <1>4, DecodingKeeps DEF Decoding

LEMMA NowhereToPlaceKeeps ==
  ASSUME MemoryInv, NowhereToPlace
  PROVE  MemoryInv'
BY StraysKeep DEF NowhereToPlace, Decoding

LEMMA TransformKeeps ==
  ASSUME MemoryInv, Transform
  PROVE  MemoryInv'
<1>1. /\ ppc = "transform" /\ UNCHANGED <<load, at, img>>
      /\ ppc' = IF img.pal_img_n > 0 THEN "palette" ELSE "convert"
      /\ heap' = IF img.pal_img_n > 0 THEN heap ELSE heap \ {"expanded"}
  BY DEF Transform
<1>2. Roomy'
  BY <1>1 DEF MemoryInv, Roomy
<1>3. heap \subseteq {"expanded", "out"}
  BY <1>1 DEF MemoryInv, Kept
<1> QED
  BY <1>1, <1>2, <1>3, DecodingKeeps DEF Decoding

LEMMA PaletteKeeps ==
  ASSUME MemoryInv, Palette
  PROVE  MemoryInv'
<1>1. ppc = "palette"
  BY DEF Palette
<1>2. CASE PngNoMemory
  BY <1>1, <1>2, NotParsedKeeps DEF PngNoMemory
<1>3. CASE /\ img' = [img EXCEPT !.n = img.pal_img_n, !.out_n = PaletteOut]
           /\ ppc' = "convert" /\ heap' = heap \ {"expanded"}
           /\ load' = load /\ at' = at
  <2>1. /\ DOMAIN img' = Fields /\ img'.idata = img.idata
        /\ img'.idata_limit = img.idata_limit
    BY <1>3, FieldsAre DEF MemoryInv, Roomy
  <2>2. Roomy'
    BY <2>1 DEF MemoryInv, Roomy
  <2>3. heap' \subseteq {"out"}
    BY <1>1, <1>3 DEF MemoryInv, Kept
  <2> QED
    BY <1>1, <1>3, <2>2, <2>3, DecodingKeeps DEF Decoding
<1>4. \/ PngNoMemory
      \/ /\ img' = [img EXCEPT !.n = img.pal_img_n, !.out_n = PaletteOut]
         /\ ppc' = "convert" /\ heap' = heap \ {"expanded"}
         /\ load' = load /\ at' = at
  BY Zenon DEF Palette
<1> QED
  BY <1>2, <1>3, <1>4

LEMMA ConvertKeeps ==
  ASSUME MemoryInv, Convert
  PROVE  MemoryInv'
<1>1. ppc = "convert" /\ load.api = "load" /\ heap \subseteq {"out"}
  BY DEF Convert, MemoryInv, Kept, Decoding
<1>2. \/ \E data, n : Return(Loaded(data, n), (heap \ {"out"}) \cup {"result"})
      \/ Return(NoResult, heap \ {"out"})
      \/ PngStrays
  BY Zenon DEF Convert
<1>3. ASSUME NEW data, NEW n,
             Return(Loaded(data, n), (heap \ {"out"}) \cup {"result"})
      PROVE  MemoryInv'
  <2>1. Loaded(data, n).ok = TRUE
    BY DEF Loaded
  <2>2. (heap \ {"out"}) \cup {"result"} = {"result"}
    BY <1>1
  <2> QED
    BY <1>1, <1>3, <2>1, <2>2, ReturnKeeps
<1>4. CASE Return(NoResult, heap \ {"out"})
  <2>1. NoResult.ok = FALSE
    BY DEF NoResult
  <2>2. heap \ {"out"} = {}
    BY <1>1
  <2> QED
    BY <1>1, <1>4, <2>1, <2>2, ReturnKeeps
<1>5. CASE PngStrays
  BY <1>1, <1>5, StraysKeep DEF Decoding
<1> QED
  BY <1>2, <1>3, <1>4, <1>5

(* Steps of the inflater and none at all.                                  *)
LEMMA NothingKeeps ==
  ASSUME MemoryInv, UNCHANGED pngvars
  PROVE  MemoryInv'
BY DEF MemoryInv, Kept, Roomy, PngReleased, pngvars

LEMMA PngNextKeeps ==
  ASSUME MemoryInv, [PngNext \/ InflaterNext \/ PngReturned]_<<vars, pngvars>>
  PROVE  MemoryInv'
<1>1. CASE PngNext
  BY <1>1, StartKeeps, ParseChunkKeeps, InflatedKeeps, PassBeginKeeps, RowKeeps,
     UnpackKeeps, NowhereToPlaceKeeps, PlaceKeeps, TransformKeeps,
     PaletteKeeps, ConvertKeeps DEF PngNext
<1>2. CASE InflaterNext
  BY <1>2, NothingKeeps DEF InflaterNext
<1>3. CASE PngReturned
  BY <1>3, NothingKeeps DEF PngReturned
<1>4. CASE UNCHANGED <<vars, pngvars>>
  BY <1>4, NothingKeeps
<1> QED
  BY <1>1, <1>2, <1>3, <1>4

(* A call that has returned keeps nothing allocated but the picture it     *)
(* returns, wherever it ended: in any chunk, in the inflater, in any pass  *)
(* of a picture that is interlaced, or because memory ran out; and the     *)
(* data that has come is in the room there is for it, whose size stays an  *)
(* unsigned int, however often it is doubled and whatever the lengths of   *)
(* the chunks (stbi__do_png, stbi__parse_png_file).                        *)
THEOREM MemoryRightHolds == PngSpec => []MemoryRight
<1>1. PngInit => MemoryInv
  BY RoomyInit
<1>2. /\ MemoryInv
      /\ [PngNext \/ InflaterNext \/ PngReturned]_<<vars, pngvars>>
      => MemoryInv'
  BY PngNextKeeps
<1>3. MemoryInv => MemoryRight
  BY DEF MemoryInv, Roomy, MemoryRight, IdataFits
<1> QED
  BY <1>1, <1>2, <1>3, PTL DEF PngSpec

-----------------------------------------------------------------------------
(* What is summed up, one after the other.                                 *)
Sums(f, a, c, n) ==
  f = [i \in 0 .. n |-> IF i = 0 THEN a ELSE f[i - 1] + c[i]]

LEMMA SumsStep ==
  ASSUME NEW a, NEW c, NEW n \in Nat, n > 0, NEW f, Sums(f, a, c, n - 1)
  PROVE  \E g : Sums(g, a, c, n)
<1> DEFINE h(i) == IF i < n THEN f[i] ELSE f[n - 1] + c[n]
           g == [i \in 0 .. n |-> h(i)]
<1>1. ASSUME NEW i \in 0 .. n
      PROVE  h(i) = IF i = 0 THEN a ELSE g[i - 1] + c[i]
  <2>1. CASE i = 0
    <3>1. 0 \in 0 .. n - 1 /\ 0 < n
      OBVIOUS
    <3> QED
      BY <2>1, <3>1 DEF Sums
  <2>2. CASE i # 0 /\ i < n
    <3>1. i \in 0 .. n - 1 /\ i - 1 \in 0 .. n /\ i - 1 < n
      BY <2>2
    <3>2. f[i] = f[i - 1] + c[i] /\ g[i - 1] = f[i - 1]
      BY <2>2, <3>1 DEF Sums
    <3> QED
      BY <2>2, <3>2
  <2>3. CASE i = n
    <3>1. n - 1 \in 0 .. n /\ n - 1 < n /\ n # 0 /\ ~(n < n)
      OBVIOUS
    <3>2. g[n - 1] = f[n - 1]
      BY <3>1
    <3> QED
      BY <2>3, <3>1, <3>2
  <2> QED
    BY <2>1, <2>2, <2>3
<1> HIDE DEF h
<1>2. g = [i \in 0 .. n |-> IF i = 0 THEN a ELSE g[i - 1] + c[i]]
  BY <1>1
<1> QED
  BY <1>2 DEF Sums

LEMMA SumsExist ==
  ASSUME NEW a, NEW c, NEW n \in Nat
  PROVE  \E f : Sums(f, a, c, n)
<1> DEFINE T == {k \in Nat : ~\E f : Sums(f, a, c, k)}
<1>1. SUFFICES ASSUME T # {} PROVE FALSE
  OBVIOUS
<1>2. PICK k \in T : \A y \in T : k <= y
  BY <1>1, LeastIs
<1>3. k # 0
  <2> DEFINE g == [i \in 0 .. 0 |-> a]
  <2>1. g = [i \in 0 .. 0 |-> IF i = 0 THEN a ELSE g[i - 1] + c[i]]
    OBVIOUS
  <2>2. Sums(g, a, c, 0)
    BY <2>1 DEF Sums
  <2> QED
    BY <2>2, <1>2
<1>4. k - 1 \in Nat /\ k > 0 /\ k - 1 \notin T
  BY <1>2, <1>3
<1>5. PICK f : Sums(f, a, c, k - 1)
  BY <1>4
<1>6. \E g : Sums(g, a, c, k)
  BY <1>4, <1>5, SumsStep
<1> QED
  BY <1>2, <1>6

LEMMA SumsNat ==
  ASSUME NEW a \in Nat, NEW n \in Nat, NEW c \in [1 .. n -> Nat],
         NEW f, Sums(f, a, c, n)
  PROVE  \A i \in 0 .. n : f[i] \in Nat
<1>1. \A i \in 0 .. n : f[i] = IF i = 0 THEN a ELSE f[i - 1] + c[i]
  BY DEF Sums
<1> DEFINE T == {i \in 0 .. n : f[i] \notin Nat}
<1>2. SUFFICES ASSUME T # {} PROVE FALSE
  OBVIOUS
<1>3. PICK k \in T : \A y \in T : k <= y
  <2>1. T \subseteq Nat
    OBVIOUS
  <2> QED
    BY <1>2, <2>1, LeastIs
<1>4. k # 0
  BY <1>1, <1>3
<1>5. k - 1 \in 0 .. n /\ k \in 1 .. n /\ k \in 0 .. n /\ k - 1 \notin T
  BY <1>3, <1>4
<1>6. f[k - 1] \in Nat /\ c[k] \in Nat /\ f[k] = f[k - 1] + c[k]
  BY <1>1, <1>4, <1>5
<1> QED
  BY <1>3, <1>6

-----------------------------------------------------------------------------
(* The bit buffer: room for four bytes.                                    *)
Buffers == [at : Nat, num : 0 .. 4 * BITS, buf : Nat, taken : Nat]

LEMMA TakeTyped ==
  ASSUME NEW b \in Buffers, NEW n \in Nat, n <= b.num, call.bytes \in Seq(Bytes)
  PROVE  Take(b, n) \in Buffers
<1>1. Len(call.bytes) \in Nat /\ BITS \in Nat
  BY LenProperties, FormatAssumption
<1>2. /\ b.at \in Nat /\ b.num \in 0 .. 4 * BITS /\ b.buf \in Nat /\ b.taken \in Nat
      /\ b = [at |-> b.at, num |-> b.num, buf |-> b.buf, taken |-> b.taken]
  BY DEF Buffers
<1> DEFINE p == 2^n
           taken == b.taken + n
           all == Len(call.bytes) * BITS
           left == IF taken > all THEN all ELSE taken
           buf == b.buf \div p
           num == b.num - n
<1>3. p \in Nat \ {0}
  BY PowerCounts
<1>4. buf \in Nat
  <2> HIDE DEF p
  <2> QED
    BY <1>2, <1>3, DivMod
<1>5. left \in Nat
  <2>1. all \in Nat /\ taken \in Nat
    BY <1>1, <1>2
  <2> HIDE DEF all, taken
  <2> QED
    BY <2>1
<1>6. num \in 0 .. 4 * BITS
  BY <1>1, <1>2
<1>7. Take(b, n) = [at |-> b.at, num |-> num, buf |-> buf, taken |-> left]
  <2>1. Take(b, n) = [b EXCEPT !.buf = buf, !.num = num, !.taken = left]
    BY Zenon DEF Take
  <2> HIDE DEF buf, num, left
  <2> QED
    BY <1>2, <2>1
<1> HIDE DEF buf, num, left
<1> QED
  BY <1>2, <1>4, <1>5, <1>6, <1>7 DEF Buffers

(* Bytes are taken until the last one could not be taken any more.         *)
LEMMA FilledIs ==
  ASSUME NEW num \in Nat, num <= 3 * BITS
  PROVE  /\ FilledBy(num) \in Nat \ {0}
         /\ num + FilledBy(num) * BITS > 3 * BITS
         /\ num + FilledBy(num) * BITS <= 4 * BITS
<1>1. BITS \in Nat \ {0}
  BY FormatAssumption
<1> DEFINE d == 3 * BITS - num
           q == d \div BITS
<1>2. d \in Nat
  BY <1>1
<1> HIDE DEF d
<1> DEFINE r == d % BITS
<1>3. q \in Nat /\ d = q * BITS + r /\ r \in 0 .. BITS - 1
  BY <1>1, <1>2, DivMod
<1>4. FilledBy(num) = q + 1
  BY DEF FilledBy, d
<1> HIDE DEF q, r
<1> DEFINE m == q * BITS
<1>5. m \in Nat /\ d - m \in 0 .. BITS - 1
  <2>1. m \in Nat
    BY <1>1, <1>3
  <2>2. d = m + r
    BY <1>3
  <2> HIDE DEF m
  <2> QED
    BY <1>1, <1>2, <1>3, <2>1, <2>2
<1>6. (q + 1) * BITS = m + BITS
  BY <1>1, <1>3
<1> HIDE DEF m
<1> QED
  BY <1>1, <1>3, <1>4, <1>5, <1>6 DEF d

LEMMA ByteIs ==
  ASSUME call.bytes \in Seq(Bytes), NEW i \in Nat \ {0}
  PROVE  ByteAt(i) \in Nat
<1>1. 2^BITS \in Nat /\ Len(call.bytes) \in Nat
  BY PowerCounts, LenProperties, FormatAssumption
<1>2. CASE i <= Len(call.bytes)
  <2>1. call.bytes[i] \in 0 .. 2^BITS - 1
    BY <1>1, <1>2, ElementOfSeq DEF Bytes
  <2> QED
    BY <1>1, <1>2, <2>1 DEF ByteAt
<1> QED
  BY <1>1, <1>2 DEF ByteAt

LEMMA FillTyped ==
  ASSUME NEW b \in Buffers, b.num <= 3 * BITS, call.bytes \in Seq(Bytes)
  PROVE  Fill(b) \in Buffers /\ Fill(b).num > 3 * BITS
<1>1. Len(call.bytes) \in Nat /\ BITS \in Nat
  BY LenProperties, FormatAssumption
<1>2. /\ b.at \in Nat /\ b.num \in Nat /\ b.buf \in Nat /\ b.taken \in Nat
      /\ b = [at |-> b.at, num |-> b.num, buf |-> b.buf, taken |-> b.taken]
  BY <1>1 DEF Buffers
<1> DEFINE n == FilledBy(b.num)
           term(i) == ByteAt(b.at + i) * 2^(b.num + (i - 1) * BITS)
           c == [i \in 1 .. n |-> term(i)]
           IsBuf(f) == f = [i \in 0 .. n |-> IF i = 0 THEN b.buf ELSE f[i - 1] + term(i)]
           buf == CHOOSE f : IsBuf(f)
           till == b.at + n
           num == b.num + n * BITS
           next == IF till > Len(call.bytes) THEN Len(call.bytes) ELSE till
<1>3. n \in Nat \ {0} /\ num > 3 * BITS /\ num <= 4 * BITS /\ num \in Int
  <2> HIDE DEF n
  <2>1. n \in Nat \ {0} /\ b.num + n * BITS > 3 * BITS /\ b.num + n * BITS <= 4 * BITS
    BY <1>2, FilledIs DEF n
  <2> QED
    BY <1>1, <1>2, <2>1
<1>4. c \in [1 .. n -> Nat]
  <2>1. ASSUME NEW i \in 1 .. n PROVE term(i) \in Nat
    <3>1. i \in Nat \ {0} /\ b.at + i \in Nat \ {0} /\ i - 1 \in Nat
      BY <1>2, <1>3
    <3>2. ByteAt(b.at + i) \in Nat
      BY <3>1, ByteIs
    <3> DEFINE e == b.num + (i - 1) * BITS
    <3>3. e \in Nat
      <4>1. (i - 1) * BITS \in Nat
        BY <1>1, <3>1
      <4> QED
        BY <1>2, <4>1
    <3>4. 2^e \in Nat
      <4> HIDE DEF e
      <4> QED
        BY <3>3, PowerCounts
    <3> DEFINE x == ByteAt(b.at + i)
               y == 2^e
    <3>5. term(i) = x * y
      OBVIOUS
    <3> HIDE DEF x, y, term
    <3>6. x \in Nat /\ y \in Nat
      BY <3>2, <3>4 DEF x, y
    <3> QED
      BY <3>5, <3>6
  <2> HIDE DEF term, n
  <2> QED
    BY <2>1
<1>5. ASSUME NEW f PROVE IsBuf(f) <=> Sums(f, b.buf, c, n)
  <2> HIDE DEF term, n
  <2>1. \A i \in 1 .. n : c[i] = term(i)
    OBVIOUS
  <2> HIDE DEF c
  <2>2. \A i \in 0 .. n : (IF i = 0 THEN b.buf ELSE f[i - 1] + term(i))
                          = (IF i = 0 THEN b.buf ELSE f[i - 1] + c[i])
    <3> TAKE i \in 0 .. n
    <3>1. CASE i = 0
      BY <3>1
    <3>2. CASE i # 0
      <4>1. i \in 1 .. n
        BY <1>3, <3>2
      <4> QED
        BY <2>1, <4>1
    <3> QED
      BY <3>1, <3>2
  <2> QED
    BY <2>2 DEF Sums
<1> HIDE DEF c, term, n
<1>6. Sums(buf, b.buf, c, n)
  <2>1. \E f : IsBuf(f)
    BY <1>3, <1>5, SumsExist
  <2>2. IsBuf(buf)
    BY <2>1, Zenon
  <2> HIDE DEF IsBuf, buf
  <2> QED
    BY <1>5, <2>2
<1> HIDE DEF IsBuf
<1>7. buf[n] \in Nat
  <2>1. n \in 0 .. n
    BY <1>3
  <2> HIDE DEF buf
  <2> QED
    BY <1>2, <1>3, <1>4, <1>6, <2>1, SumsNat
<1>8. Fill(b) = [at |-> next, num |-> num, buf |-> buf[n], taken |-> b.taken]
  <2>1. Fill(b) = [b EXCEPT !.buf = buf[n], !.num = num, !.at = next]
    BY Zenon DEF Fill, buf, IsBuf, n, term
  <2> HIDE DEF buf, num, next
  <2> QED
    BY <1>2, <2>1
<1>9. next \in Nat
  BY <1>1, <1>2, <1>3
<1> HIDE DEF buf, num, next
<1> QED
  BY <1>1, <1>2, <1>3, <1>7, <1>8, <1>9 DEF Buffers

(* What is received at once is there once the buffer is filled.            *)
LEMMA ReadyTyped ==
  ASSUME NEW b \in Buffers, NEW n \in 0 .. 3 * BITS,
         call.bytes \in Seq(Bytes)
  PROVE  Ready(b, n) \in Buffers /\ Ready(b, n).num >= n
<1>1. b.num \in Nat /\ BITS \in Nat
  BY FormatAssumption DEF Buffers
<1>2. CASE b.num < n
  <2>1. b.num <= 3 * BITS
    BY <1>1, <1>2
  <2>2. Fill(b) \in Buffers /\ Fill(b).num > 3 * BITS
    BY <2>1, FillTyped
  <2>3. Fill(b).num \in Nat
    BY <1>1, <2>2 DEF Buffers
  <2> QED
    BY <1>1, <1>2, <2>2, <2>3 DEF Ready
<1> QED
  BY <1>1, <1>2 DEF Ready

LEMMA ReceiveTyped ==
  ASSUME NEW b \in Buffers, NEW n \in 0 .. 3 * BITS,
         call.bytes \in Seq(Bytes)
  PROVE  /\ Receive(b, n).v \in Nat /\ Receive(b, n).v < 2^n
         /\ Receive(b, n).b \in Buffers
<1> DEFINE f == Ready(b, n)
           p == 2^n
<1>1. f \in Buffers /\ f.num >= n /\ n \in Nat
  BY ReadyTyped
<1>2. p \in Nat \ {0}
  BY <1>1, PowerCounts
<1>3. Receive(b, n) = [v |-> f.buf % p, b |-> Take(f, n)]
  BY DEF Receive
<1> HIDE DEF f, p
<1>4. f.buf \in Nat /\ f.num \in Nat
  BY <1>1, FormatAssumption DEF Buffers
<1>5. Take(f, n) \in Buffers
  <2>1. n <= f.num
    BY <1>1, <1>4
  <2> QED
    BY <1>1, <2>1, TakeTyped
<1>6. f.buf % p \in Nat /\ f.buf % p < p
  BY <1>2, <1>4
<1> QED
  BY <1>3, <1>5, <1>6 DEF p

-----------------------------------------------------------------------------
(* The tables of a code of no more than m symbols.                         *)
Table(z, m) ==
  /\ \A k \in DOMAIN z.size : k \in 0 .. m - 1 /\ z.size[k] \in 0 .. MAXLEN
  /\ \A j \in 0 .. 2^FAST_BITS - 1 : z.fast[j] \subseteq DOMAIN z.size
  /\ \A b \in DOMAIN z.value : z.value[b] \in DOMAIN z.size

LEMMA BuildTyped ==
  ASSUME NEW m \in Nat, NEW n \in Nat, n <= m,
         NEW sizelist \in [0 .. n - 1 -> 0 .. MAXLEN]
  PROVE  Table(Build(sizelist), m)
<1> DEFINE z == Build(sizelist)
           coded == {k \in DOMAIN sizelist : sizelist[k] > 0}
<1>1. z.size = sizelist /\ DOMAIN z.size = 0 .. n - 1
  BY DEF Build
<1>2. \A k \in DOMAIN z.size : k \in 0 .. m - 1 /\ z.size[k] \in 0 .. MAXLEN
  BY <1>1
<1>3. \A j \in 0 .. 2^FAST_BITS - 1 : z.fast[j] \subseteq DOMAIN z.size
  BY <1>1 DEF Build
<1>4. \A b \in DOMAIN z.value : z.value[b] \in DOMAIN z.size
  <2> DEFINE place(k) == FirstSymbols(SizesOf(sizelist))[sizelist[k]]
                           + Rank(sizelist, k)
  <2>1. z.value = [c \in {place(k) : k \in coded} |->
                     CHOOSE k \in coded : place(k) = c]
    BY DEF Build
  <2> HIDE DEF place
  <2>2. ASSUME NEW c \in {place(k) : k \in coded}
        PROVE  (CHOOSE k \in coded : place(k) = c) \in coded
    OBVIOUS
  <2>3. \A c \in DOMAIN z.value : z.value[c] \in coded
    <3> HIDE DEF coded, z
    <3> QED
      BY <2>1, <2>2
  <2> QED
    BY <1>1, <2>3
<1> QED
  BY <1>2, <1>3, <1>4 DEF Table

NoSymbols == {NoSymbol, AssertFails}

LEMMA DecodeSlowTyped ==
  ASSUME NEW m \in Nat, NEW z, Table(z, m), NEW buf
  PROVE  /\ DecodeSlow(z, buf).symbol \in NoSymbols \cup 0 .. m - 1
         /\ DecodeSlow(z, buf).s \in 0 .. MAXLEN
<1>1. MAXLEN \in Nat
  BY FormatAssumption
<1>2. \/ \E v \in NoSymbols : DecodeSlow(z, buf) = [symbol |-> v, s |-> 0]
      \/ \E b, s : /\ b \in DOMAIN z.value /\ z.size[z.value[b]] = s
                   /\ DecodeSlow(z, buf) = [symbol |-> z.value[b], s |-> s]
  BY Zenon DEF DecodeSlow, NoSymbols
<1>3. CASE \E v \in NoSymbols : DecodeSlow(z, buf) = [symbol |-> v, s |-> 0]
  BY <1>1, <1>3
<1>4. ASSUME NEW b \in DOMAIN z.value, NEW s, z.size[z.value[b]] = s,
             DecodeSlow(z, buf) = [symbol |-> z.value[b], s |-> s]
      PROVE  /\ DecodeSlow(z, buf).symbol \in NoSymbols \cup 0 .. m - 1
             /\ DecodeSlow(z, buf).s \in 0 .. MAXLEN
  <2>1. z.value[b] \in 0 .. m - 1 /\ s \in 0 .. MAXLEN
    BY <1>4 DEF Table
  <2> QED
    BY <1>4, <2>1
<1> QED
  BY <1>2, <1>3, <1>4

LEMMA DecodeTyped ==
  ASSUME NEW m \in Nat, NEW z, Table(z, m), NEW buf \in Nat
  PROVE  /\ Decode(z, buf).symbol \in NoSymbols \cup 0 .. m - 1
         /\ Decode(z, buf).s \in 0 .. MAXLEN
<1> DEFINE p == 2^FAST_BITS
           found == z.fast[buf % p]
           Longest(k) == \A j \in found : j <= k
           k == CHOOSE k \in found : Longest(k)
<1>1. CASE found = {}
  BY <1>1, DecodeSlowTyped DEF Decode
<1>2. CASE found # {}
  <2>1. Decode(z, buf) = [symbol |-> k, s |-> z.size[k]]
    BY <1>2, Zenon DEF Decode
  <2>2. p \in Nat \ {0}
    <3>1. FAST_BITS \in Nat
      BY FormatAssumption, HuffmanAssumption
    <3> QED
      BY <3>1, PowerCounts
  <2>3. buf % p \in 0 .. p - 1
    <3> HIDE DEF p
    <3> QED
      BY <2>2, DivMod
  <2>4. found \subseteq DOMAIN z.size
    BY <2>3 DEF Table
  <2>5. \A i \in DOMAIN z.size : i \in 0 .. m - 1 /\ z.size[i] \in 0 .. MAXLEN
    BY DEF Table
  <2> HIDE DEF found
  <2>6. found \subseteq 0 .. m
    BY <2>4, <2>5
  <2>7. \E i \in found : Longest(i)
    BY <1>2, <2>6, GreatestIs
  <2>8. k \in found
    BY <2>7, Zenon
  <2> HIDE DEF k
  <2>9. k \in 0 .. m - 1 /\ z.size[k] \in 0 .. MAXLEN
    BY <2>4, <2>5, <2>8
  <2> QED
    BY <2>1, <2>9
<1> QED
  BY <1>1, <1>2

LEMMA SymbolTyped ==
  ASSUME NEW m \in Nat, NEW z, Table(z, m), NEW b \in Buffers,
         call.bytes \in Seq(Bytes)
  PROVE  /\ Symbol(b, z).v \in NoSymbols \cup 0 .. m - 1
         /\ Symbol(b, z).b \in Buffers
<1> DEFINE f == Ready(b, MAXLEN + 1)
           d == Decode(z, f.buf)
<1>1. MAXLEN \in Nat /\ MAXLEN + 1 \in 0 .. 3 * BITS
  BY FormatAssumption
<1>2. f \in Buffers /\ f.num >= MAXLEN + 1
  BY <1>1, ReadyTyped
<1>3. Symbol(b, z) = [v |-> d.symbol, b |-> Take(f, d.s)]
  BY DEF Symbol
<1> HIDE DEF f
<1>4. f.buf \in Nat /\ f.num \in Nat
  BY <1>2, FormatAssumption DEF Buffers
<1>5. d.symbol \in NoSymbols \cup 0 .. m - 1 /\ d.s \in 0 .. MAXLEN
  BY <1>4, DecodeTyped
<1> HIDE DEF d
<1>6. Take(f, d.s) \in Buffers
  <2>1. d.s \in Nat /\ d.s <= f.num
    BY <1>1, <1>2, <1>4, <1>5
  <2> QED
    BY <1>2, <2>1, TakeTyped
<1> QED
  BY <1>3, <1>5, <1>6

-----------------------------------------------------------------------------
(* The codes of a block while their lengths are read, the tables made of   *)
(* them, and the bit buffer.                                               *)
Sized ==
  /\ DOMAIN codes = {"hlit", "hdist", "hclen", "got", "sizes", "z", "lencodes"}
  /\ codes.hlit \in END + 1 .. END + 2^HLIT /\ codes.hdist \in 1 .. 2^HDIST
  /\ codes.lencodes \in Seq(Nat)
  /\ codes.sizes \in [0 .. MAXLEN + 3 -> 0 .. MAXLEN]

Tables ==
  /\ Table(z_length, LITERALS + 2^HLIT)
  /\ Table(z_distance, 2^HDIST)

BitsInv ==
  /\ bits \in Buffers
  /\ call.bytes \in Seq(Bytes)
  /\ pc \in {"idle", "start", "block", "stored", "symbols"} => codes = NoCodes
  /\ pc = "sizes" => codes = NoCodes \/ Sized
  /\ pc = "lengths" => Sized /\ Table(codes.z, MAXLEN + 4)
  /\ pc = "symbols" => Tables

(* The output of the inflater, in the room there is for it.                *)
Running == {"block", "stored", "sizes", "lengths", "symbols"}
Ended == {"done", "failed", "undefined", "endless"}

Output ==
  /\ pc \in Running \cup Ended \cup {"idle", "start"}
  /\ call.expandable \in BOOLEAN /\ call.olen \in Nat
  /\ IsSeq(zout) /\ limit \in Nat /\ limit < INT
  /\ Len(zout) <= limit
  /\ call.expandable => limit > 0
  /\ ~call.expandable => limit = call.olen /\ ~held
  /\ pc \in {"idle", "start", "failed"} => ~held
  /\ pc \in Running \cup {"done"} => held = call.expandable
  /\ pc = "endless" => held /\ call.expandable

Inflating == Output /\ BitsInv

(* A picture that is begun has a header whose size an int can tell.        *)
Header(i) ==
  /\ i.x \in 1 .. MAXDIM /\ i.y \in 1 .. MAXDIM
  /\ i.n \in Nat /\ i.depth \in 1 .. BITS
  /\ i.x * (i.y * i.n) <= AREA

Uncalled ==
  /\ ppc \in {"start", "chunk"} => pc = "idle" /\ zout = <<>>
  /\ ppc = "chunk" => img.first \/ Header(img)
  /\ ppc = "start" => img.first

OutputInv == MemoryInv /\ Inflating /\ Uncalled

LEMMA OutputMeans ==
  ASSUME Output PROVE OutputFits
BY DEF Output, OutputFits, Running, Ended

LEMMA IsSeqOf ==
  ASSUME NEW S, NEW s \in Seq(S) PROVE IsSeq(s) /\ Len(s) \in Nat
<1>1. s \in [1 .. Len(s) -> S] /\ Len(s) \in Nat
  BY LenProperties
<1>2. s = [k \in 1 .. Len(s) |-> s[k]]
  BY <1>1
<1> QED
  BY <1>1, <1>2, Listed

LEMMA NoBytes == IsSeq(<<>>) /\ Len(<<>>) = 0 /\ <<>> \in Seq(Bytes)
<1>1. <<>> \in Seq(Bytes)
  OBVIOUS
<1> QED
  BY <1>1, IsSeqOf

LEMMA OutputInit ==
  ASSUME PngInit PROVE Inflating /\ Uncalled
<1>1. BITS \in Nat /\ 0 \in 0 .. 4 * BITS
  BY FormatAssumption
<1>2. bits \in Buffers /\ codes = NoCodes
  <2>1. bits = [at |-> 0, num |-> 0, buf |-> 0, taken |-> 0] /\ codes = NoCodes
    BY DEF PngInit, Init, IdleInflater
  <2> QED
    BY <1>1, <2>1 DEF Buffers
<1>3. INT \in Nat /\ INT > 0
  <2>1. UINT \in Nat /\ UINT > 1
    BY PngAssumption, FormatAssumption
  <2> QED
    BY <2>1 DEF INT
<1>4. CASE Init /\ ppc = "none"
  <2>1. /\ call.bytes \in Seq(Bytes) /\ call.expandable \in BOOLEAN
        /\ call.olen \in 0 .. INT - 1 /\ (call.expandable => call.olen > 0)
    BY <1>4, CallsAssumption DEF Init, Bytes
  <2>2. zout = <<>> /\ limit = call.olen /\ pc = "start" /\ held = FALSE
    BY <1>4 DEF Init
  <2>3. Output
    BY <1>3, <2>1, <2>2, NoBytes DEF Output, Running, Ended
  <2>4. BitsInv
    BY <1>2, <2>1, <2>2 DEF BitsInv
  <2> QED
    BY <1>4, <2>3, <2>4 DEF Uncalled, Inflating
<1>5. CASE IdleInflater /\ ppc = "start"
  <2>1. /\ pc = "idle" /\ zout = <<>> /\ limit = 0 /\ held = FALSE
        /\ call.bytes = <<>> /\ call.expandable = FALSE /\ call.olen = 0
    BY <1>5 DEF IdleInflater
  <2>2. call.bytes \in Seq(Bytes) /\ IsSeq(zout) /\ Len(zout) = 0
    BY <2>1, NoBytes, Zenon
  <2>3. Output
    <3>1. ~call.expandable /\ call.expandable \in BOOLEAN /\ ~held
      BY <2>1
    <3>2. limit = call.olen /\ limit \in Nat /\ limit < INT /\ Len(zout) <= limit
      BY <1>3, <2>1, <2>2
    <3> QED
      BY <2>1, <2>2, <3>1, <3>2 DEF Output, Running, Ended
  <2>4. BitsInv
    BY <1>2, <2>1, <2>2 DEF BitsInv
  <2>5. img.first
    BY DEF PngInit, FreshImg
  <2> QED
    BY <1>5, <2>1, <2>3, <2>4, <2>5 DEF Uncalled, Inflating
<1> QED
  BY <1>4, <1>5 DEF PngInit

-----------------------------------------------------------------------------
(* The steps of the inflater.                                              *)
LEMMA GoesOn ==
  ASSUME Output, pc \in Running, pc' \in Running \cup {"done"},
         UNCHANGED <<call, zout, limit, held>>
  PROVE  Output'
BY DEF Output, Running, Ended

LEMMA Stops ==
  ASSUME Inflating,
         \/ NoMemory
         \/ Refused
         \/ pc \in Running /\ Strays
         \/ pc \in Running /\ held /\ call.expandable /\ Overflows
  PROVE  Inflating'
<1>1. pc' \in {"failed", "undefined", "endless"} /\ UNCHANGED <<call, bits>>
  BY DEF NoMemory, Refused, Fail, Strays, Overflows, Astray
<1>2. BitsInv'
  BY <1>1 DEF Inflating, BitsInv
<1>3. CASE NoMemory \/ Refused
  <2>1. Output'
    BY <1>3 DEF Inflating, Output, NoMemory, Refused, Fail, Running, Ended
  <2> QED
    BY <1>2, <2>1 DEF Inflating
<1>4. CASE pc \in Running /\ Strays
  <2>1. pc' = "undefined" /\ UNCHANGED <<call, zout, limit, held>>
    BY <1>4 DEF Strays, Astray
  <2>2. Output'
    BY <2>1 DEF Inflating, Output, Running, Ended
  <2> QED
    BY <1>2, <2>2 DEF Inflating
<1>5. CASE pc \in Running /\ held /\ call.expandable /\ Overflows
  <2>1. /\ pc' \in {"undefined", "endless"}
        /\ UNCHANGED <<call, zout, limit, held>>
    BY <1>5 DEF Overflows, Astray
  <2>2. Output'
    BY <1>5, <2>1 DEF Inflating, Output, Running, Ended
  <2> QED
    BY <1>2, <2>2 DEF Inflating
<1> QED
  BY <1>3, <1>4, <1>5

LEMMA NotDecodedStops ==
  ASSUME Inflating, pc \in Running, NEW v, NotDecoded(v)
  PROVE  Inflating'
BY Stops DEF NotDecoded

LEMMA WriteKeeps ==
  ASSUME Inflating, NEW more, IsSeq(more), NEW b \in Buffers, NEW next,
         Write(more, b, next),
         \/ pc = "stored" /\ next \in {"block", "done"}
         \/ pc = "symbols" /\ next = "symbols"
  PROVE  Inflating'
<1> DEFINE n == Len(zout) + Len(more)
<1>1. /\ IsSeq(zout \o more) /\ Len(zout \o more) = n
      /\ Len(zout) \in Nat /\ Len(more) \in Nat
  BY Joined DEF Inflating, Output
<1>2. n \in Nat /\ pc \in Running /\ next \in Running \cup {"done"}
  BY <1>1 DEF Running
<1>3. CASE NoMemory \/ Refused
  BY <1>3, Stops
<1>4. CASE /\ n <= limit \/ (call.expandable /\ Expanded(n) < INT)
           /\ pc' = next /\ zout' = zout \o more /\ limit' = Expanded(n)
           /\ bits' = b
           /\ UNCHANGED <<call, held, codes, z_length, z_distance>>
  <2>1. limit \in Nat /\ limit < INT /\ (n > 0 => limit > 0)
    BY <1>2, <1>4 DEF Inflating, Output
  <2> HIDE DEF n
  <2>2. /\ Expanded(n) \in Nat /\ Expanded(n) >= n /\ Expanded(n) >= limit
        /\ n <= limit => Expanded(n) = limit
    BY <1>2, <2>1, DoubledIs DEF Expanded
  <2>3. /\ IsSeq(zout') /\ limit' \in Nat /\ Len(zout') <= limit'
        /\ limit' < INT
        /\ call.expandable => limit' > 0
        /\ ~call.expandable => limit' = limit
    BY <1>1, <1>2, <1>4, <2>1, <2>2 DEF Inflating, Output
  <2>4. Output'
    BY <1>2, <1>4, <2>3 DEF Inflating, Output, Running, Ended
  <2>5. BitsInv'
    BY <1>4 DEF Inflating, BitsInv, Tables
  <2> QED
    BY <2>4, <2>5 DEF Inflating
<1>5. CASE call.expandable /\ Overflows
  <2>1. held
    BY <1>2, <1>5 DEF Inflating, Output
  <2> QED
    BY <1>2, <1>5, <2>1, Stops
<1>6. \/ NoMemory \/ Refused
      \/ call.expandable /\ Overflows
      \/ /\ n <= limit \/ (call.expandable /\ Expanded(n) < INT)
         /\ pc' = next /\ zout' = zout \o more /\ limit' = Expanded(n)
         /\ bits' = b
         /\ UNCHANGED <<call, held, codes, z_length, z_distance>>
  BY Zenon DEF Write
<1> QED
  BY <1>3, <1>4, <1>5, <1>6

LEMMA StartOutput ==
  ASSUME Inflating, Start PROVE Inflating'
<1>1. CASE NoMemory \/ Refused
  BY <1>1, Stops
<1>2. CASE /\ pc = "start" /\ pc' = "block" /\ held' = call.expandable
           /\ UNCHANGED <<call, bits, codes, zout, limit>>
  <2>1. Output'
    BY <1>2 DEF Inflating, Output, Running, Ended
  <2>2. BitsInv'
    BY <1>2 DEF Inflating, BitsInv
  <2> QED
    BY <2>1, <2>2 DEF Inflating
<1> QED
  BY <1>1, <1>2 DEF Start

(* What the entries of the format are.                                     *)
LEMMA Numbers ==
  /\ BITS \in Nat \ {0} /\ MAXLEN \in Nat /\ LITERALS \in Nat
  /\ HLIT \in 0 .. 3 * BITS /\ HDIST \in 0 .. 3 * BITS
  /\ HCLEN \in 0 .. 3 * BITS /\ HSIZE \in 0 .. 3 * BITS
  /\ 1 \in 0 .. 3 * BITS /\ 2 \in 0 .. 3 * BITS
  /\ 2^HLIT \in Nat \ {0} /\ 2^HDIST \in Nat \ {0} /\ 2^HSIZE \in Nat \ {0}
<1>1. /\ BITS \in Nat \ {0} /\ MAXLEN \in Nat /\ LITERALS \in Nat
      /\ \A n \in {2, MAXLEN + 1, HLIT, HDIST, HCLEN, HSIZE} : n \in 0 .. 3 * BITS
  BY FormatAssumption
<1>2. HLIT \in Nat /\ HDIST \in Nat /\ HSIZE \in Nat
  BY <1>1
<1>3. 2^HLIT \in Nat \ {0} /\ 2^HDIST \in Nat \ {0} /\ 2^HSIZE \in Nat \ {0}
  BY <1>2, PowerCounts
<1> QED
  BY <1>1, <1>3

LEMMA FixedTables ==
  /\ Table(Build(FixedLength), LITERALS + 2^HLIT)
  /\ Table(Build(FixedDist), 2^HDIST)
<1> DEFINE m == LITERALS + 2^HLIT
           n == 2^HDIST
<1>1. m \in Nat /\ n \in Nat
  BY Numbers
<1>2. /\ FixedLength \in [0 .. m - 1 -> 0 .. MAXLEN]
      /\ FixedDist \in [0 .. n - 1 -> 0 .. MAXLEN]
  <2>1. FixedLength \in [0 .. LITERALS + 2^HLIT - 1 -> 0 .. MAXLEN]
    BY FormatAssumption
  <2>2. FixedDist \in [0 .. 2^HDIST - 1 -> 0 .. MAXLEN]
    BY FormatAssumption
  <2>3. m - 1 = LITERALS + 2^HLIT - 1
    BY Numbers
  <2> QED
    BY <2>1, <2>2, <2>3, Zenon
<1> HIDE DEF m, n
<1>3. Table(Build(FixedLength), m) /\ Table(Build(FixedDist), n)
  BY <1>1, <1>2, BuildTyped
<1> QED
  BY <1>3 DEF m, n

LEMMA BlockOutput ==
  ASSUME Inflating, Block PROVE Inflating'
<1> DEFINE f == Receive(bits, 1)
           type == Receive(f.b, 2)
<1>1. /\ pc = "block" /\ bits' = type.b /\ UNCHANGED <<call, codes, zout, limit>>
      /\ pc' = IF type.v = 0 THEN "stored" ELSE IF type.v = 3 THEN "failed"
               ELSE IF type.v = 1 THEN "symbols" ELSE "sizes"
      /\ held' = (held /\ type.v # 3)
      /\ type.v = 1 =>
           z_length' = Build(FixedLength) /\ z_distance' = Build(FixedDist)
  BY Zenon DEF Block
<1>2. type.b \in Buffers
  <2>1. bits \in Buffers /\ call.bytes \in Seq(Bytes)
    BY DEF Inflating, BitsInv
  <2>2. f.b \in Buffers
    BY <2>1, Numbers, ReceiveTyped
  <2> HIDE DEF f
  <2> QED
    BY <2>1, <2>2, Numbers, ReceiveTyped
<1> HIDE DEF type, f
<1>3. BitsInv'
  <2>1. pc' = "symbols" => Tables'
    BY <1>1, FixedTables DEF Tables
  <2>2. codes' = NoCodes
    BY <1>1 DEF Inflating, BitsInv
  <2> QED
    BY <1>1, <1>2, <2>1, <2>2 DEF Inflating, BitsInv
<1>4. CASE type.v # 3
  <2>1. pc' \in Running
    BY <1>1, <1>4 DEF Running
  <2>2. held' = held
    BY <1>1, <1>4 DEF Inflating, Output, Running
  <2>3. Output'
    BY <1>1, <2>1, <2>2, GoesOn DEF Running, Inflating
  <2> QED
    BY <1>3, <2>3 DEF Inflating
<1>5. CASE type.v = 3
  <2>1. pc' = "failed"
    BY <1>1, <1>5
  <2>2. held' = FALSE
    BY <1>1, <1>5, Zenon
  <2>3. Output'
    BY <1>1, <2>1, <2>2 DEF Inflating, Output, Running, Ended
  <2> QED
    BY <1>3, <2>3 DEF Inflating
<1> QED
  BY <1>4, <1>5

(* The two halves of a header, and where the data behind it begins.        *)
LEMMA HeaderTyped ==
  ASSUME NEW b \in Buffers, call.bytes \in Seq(Bytes), NEW i \in Nat
  PROVE  HeaderByte(b, i) \in Nat /\ HeaderWord(b, i) \in Nat
<1>1. BITS \in Nat \ {0} /\ b.at \in Nat /\ b.num \in Nat /\ b.buf \in Nat
  BY Numbers DEF Buffers
<1>2. Drained(b) \in Nat
  BY <1>1, DivMod DEF Drained
<1>3. 2^BITS \in Nat \ {0}
  BY <1>1, PowerCounts
<1>4. ASSUME NEW j \in Nat PROVE HeaderByte(b, j) \in Nat
  <2>1. CASE j < Drained(b)
    <3> DEFINE e == j * BITS
               p == 2^e
               q == 2^BITS
               d == b.buf \div p
    <3>1. e \in Nat
      BY <1>1
    <3> HIDE DEF e
    <3>2. p \in Nat \ {0}
      BY <3>1, PowerCounts
    <3> HIDE DEF p
    <3>3. d \in Nat
      BY <1>1, <3>2, DivMod
    <3> HIDE DEF d, q
    <3>4. d % q \in 0 .. q - 1 /\ q \in Nat
      BY <1>3, <3>3, DivMod DEF q
    <3>5. HeaderByte(b, j) = d % q
      BY <2>1 DEF HeaderByte, d, p, e, q
    <3> QED
      BY <3>4, <3>5
  <2>2. CASE ~(j < Drained(b))
    <3> DEFINE k == b.at + j - Drained(b) + 1
    <3>1. k \in Nat \ {0}
      BY <1>1, <1>2, <2>2
    <3>2. HeaderByte(b, j) = ByteAt(k)
      BY <2>2 DEF HeaderByte
    <3> QED
      BY <3>1, <3>2, ByteIs
  <2> QED
    BY <2>1, <2>2
<1>5. HeaderByte(b, i) \in Nat /\ HeaderByte(b, i + 1) \in Nat
  BY <1>4
<1> QED
  BY <1>3, <1>5 DEF HeaderWord

LEMMA StoredFromTyped ==
  ASSUME NEW b \in Buffers
  PROVE  StoredFrom(b) \in Nat
<1>1. BITS \in Nat \ {0} /\ b.at \in Nat /\ b.num \in 0 .. 4 * BITS
  BY Numbers DEF Buffers
<1> DEFINE num == b.num
           d == num \div BITS
           r == num % BITS
<1>2. Drained(b) = d
  BY DEF Drained
<1>3. num \in Nat
  BY <1>1
<1> HIDE DEF num
<1>4. d \in Nat /\ num = d * BITS + r /\ r \in 0 .. BITS - 1
  BY <1>1, <1>3, DivMod
<1> HIDE DEF d, r, num
<1>5. d <= 4
  <2>1. SUFFICES ASSUME d >= 5 PROVE FALSE
    BY <1>4
  <2> DEFINE k == d - 5
             m == k * BITS
  <2>2. k \in Nat
    BY <1>4, <2>1
  <2>3. m \in Nat
    BY <1>1, <2>2
  <2>4. d * BITS = m + 5 * BITS
    BY <1>1, <1>4
  <2> HIDE DEF m
  <2> QED
    BY <1>1, <1>4, <2>3, <2>4 DEF num
<1> QED
  BY <1>1, <1>4, <1>2, <1>5 DEF StoredFrom

LEMMA StoredOutput ==
  ASSUME Inflating, Stored PROVE Inflating'
<1> DEFINE a == Aligned
           from == StoredFrom(a)
           len == HeaderWord(a, 0)
           more == SubSeq(call.bytes, from + 1, from + len)
           b == [at |-> from + len, num |-> 0, buf |-> 0,
                 taken |-> a.taken + (4 + len) * BITS]
<1>1. /\ pc = "stored"
      /\ \/ Refused
         \/ ~(from + len > Len(call.bytes)) /\ Write(more, b, AfterBlock)
  BY Zenon DEF Stored
<1>2. /\ bits \in Buffers /\ call.bytes \in Seq(Bytes)
      /\ Len(call.bytes) \in Nat /\ BITS \in Nat \ {0}
  BY Numbers, LenProperties DEF Inflating, BitsInv
<1>3. a \in Buffers
  <2> DEFINE num == bits.num
             r == num % BITS
  <2>1. num \in Nat
    BY <1>2 DEF Buffers
  <2> HIDE DEF num
  <2>2. r \in Nat /\ r <= num
    <3> DEFINE q == num \div BITS
               m == q * BITS
    <3>1. q \in Nat /\ r \in 0 .. BITS - 1 /\ num = m + r
      BY <1>2, <2>1, DivMod
    <3> HIDE DEF q
    <3>2. m \in Nat
      BY <1>2, <3>1
    <3> HIDE DEF m, r
    <3> QED
      BY <1>2, <2>1, <3>1, <3>2
  <2> USE DEF num
  <2> HIDE DEF r
  <2>3. Take(bits, r) \in Buffers
    BY <1>2, <2>2, TakeTyped
  <2> QED
    BY <2>3 DEF Aligned, r
<1> HIDE DEF a
<1>4. from \in Nat /\ len \in Nat /\ a.taken \in Nat
  BY <1>2, <1>3, StoredFromTyped, HeaderTyped DEF Buffers
<1> HIDE DEF from, len
<1>5. b \in Buffers
  <2>1. (4 + len) * BITS \in Nat /\ from + len \in Nat /\ 0 \in 0 .. 4 * BITS
    BY <1>2, <1>4
  <2> QED
    BY <1>4, <2>1 DEF Buffers
<1>6. CASE ~(from + len > Len(call.bytes)) /\ Write(more, b, AfterBlock)
  <2>1. more \in Seq(Bytes)
    BY <1>2, <1>4, <1>6, SubSeqProperties
  <2>2. IsSeq(more)
    BY <2>1, IsSeqOf
  <2>3. AfterBlock \in {"block", "done"}
    BY DEF AfterBlock
  <2> HIDE DEF more, b
  <2> QED
    BY <1>1, <1>5, <1>6, <2>2, <2>3, WriteKeeps
<1> QED
  BY <1>1, <1>6, Stops

-----------------------------------------------------------------------------
(* The codes a block brings along.                                         *)
LEMMA FirstSizeOutput ==
  ASSUME Inflating, FirstSize PROVE Inflating'
<1> DEFINE hlit == Receive(bits, HLIT)
           hdist == Receive(hlit.b, HDIST)
           hclen == Receive(hdist.b, HCLEN)
           none == [s \in 0 .. MAXLEN + 3 |-> 0]
<1>1. /\ pc = "sizes" /\ UNCHANGED <<pc, call, zout, limit, held>>
      /\ bits' = hclen.b
      /\ codes' = [hlit |-> hlit.v + END + 1, hdist |-> hdist.v + 1,
                   hclen |-> hclen.v + 4, got |-> 0, sizes |-> none,
                   z |-> NoCodes, lencodes |-> <<>>]
  BY Zenon DEF FirstSize
<1>2. bits \in Buffers /\ call.bytes \in Seq(Bytes)
  BY DEF Inflating, BitsInv
<1>3. hlit.v \in Nat /\ hlit.v < 2^HLIT /\ hlit.b \in Buffers
  BY <1>2, Numbers, ReceiveTyped
<1> HIDE DEF hlit
<1>4. hdist.v \in Nat /\ hdist.v < 2^HDIST /\ hdist.b \in Buffers
  BY <1>2, <1>3, Numbers, ReceiveTyped
<1> HIDE DEF hdist
<1>5. hclen.b \in Buffers
  BY <1>2, <1>4, Numbers, ReceiveTyped
<1> HIDE DEF hclen
<1>6. Sized'
  <2>1. none \in [0 .. MAXLEN + 3 -> 0 .. MAXLEN]
    BY Numbers
  <2> HIDE DEF none
  <2>2. /\ hlit.v + END + 1 \in END + 1 .. END + 2^HLIT
        /\ hdist.v + 1 \in 1 .. 2^HDIST
    <3>1. END \in Nat /\ 2^HLIT \in Nat /\ 2^HDIST \in Nat
      BY Numbers DEF END
    <3> QED
      BY <1>3, <1>4, <3>1
  <2>3. <<>> \in Seq(Nat)
    OBVIOUS
  <2> QED
    BY <1>1, <2>1, <2>2, <2>3 DEF Sized
<1>7. BitsInv'
  BY <1>1, <1>2, <1>5, <1>6 DEF BitsInv
<1>8. Output'
  BY <1>1, GoesOn DEF Running, Inflating
<1> QED
  BY <1>7, <1>8 DEF Inflating

LEMMA NextSizeOutput ==
  ASSUME Inflating, NextSize PROVE Inflating'
<1> DEFINE s == Receive(bits, HSIZE)
           p == SizePlace(codes.got)
<1>1. pc = "sizes" /\ codes # NoCodes /\ Sized /\ pc \in Running
  BY DEF NextSize, Inflating, BitsInv, Running
<1>2. bits \in Buffers /\ call.bytes \in Seq(Bytes)
  BY DEF Inflating, BitsInv
<1>3. CASE /\ bits' = s.b /\ codes' = [codes EXCEPT !.got = @ + 1, !.sizes[p] = s.v]
           /\ UNCHANGED <<pc, call, zout, limit, held>>
  <2>1. s.v \in Nat /\ s.v < 2^HSIZE /\ s.b \in Buffers
    BY <1>2, Numbers, ReceiveTyped
  <2> HIDE DEF s, p
  <2>2. s.v \in 0 .. MAXLEN
    <3>1. 2^HSIZE - 1 <= MAXLEN /\ 2^HSIZE \in Nat /\ MAXLEN \in Nat
      BY Numbers, FormatAssumption
    <3> QED
      BY <2>1, <3>1
  <2>3. Sized'
    <3>1. [codes.sizes EXCEPT ![p] = s.v] \in [0 .. MAXLEN + 3 -> 0 .. MAXLEN]
      BY <1>1, <2>2 DEF Sized
    <3>2. /\ DOMAIN codes' = DOMAIN codes
          /\ codes'.sizes = [codes.sizes EXCEPT ![p] = s.v]
          /\ codes'.hlit = codes.hlit /\ codes'.hdist = codes.hdist
          /\ codes'.lencodes = codes.lencodes
      BY <1>1, <1>3 DEF Sized
    <3> QED
      BY <1>1, <3>1, <3>2 DEF Sized
  <2>4. BitsInv'
    BY <1>1, <1>2, <1>3, <2>1, <2>3 DEF BitsInv
  <2>5. Output'
    BY <1>1, <1>3, GoesOn DEF Running, Inflating
  <2> QED
    BY <2>4, <2>5 DEF Inflating
<1>4. CASE /\ codes' = [codes EXCEPT !.z = Build(codes.sizes)]
           /\ pc' = "lengths"
           /\ UNCHANGED <<call, bits, zout, limit, held>>
  <2>1. Table(Build(codes.sizes), MAXLEN + 4)
    <3> DEFINE m == MAXLEN + 4
    <3>1. m \in Nat /\ m - 1 = MAXLEN + 3
      BY Numbers
    <3>2. codes.sizes \in [0 .. m - 1 -> 0 .. MAXLEN]
      BY <1>1, <3>1 DEF Sized
    <3> HIDE DEF m
    <3>3. Table(Build(codes.sizes), m)
      BY <3>1, <3>2, BuildTyped
    <3> QED
      BY <3>3 DEF m
  <2>2. /\ DOMAIN codes' = DOMAIN codes /\ codes'.sizes = codes.sizes
        /\ codes'.hlit = codes.hlit /\ codes'.hdist = codes.hdist
        /\ codes'.lencodes = codes.lencodes /\ codes'.z = Build(codes.sizes)
    BY <1>1, <1>4 DEF Sized
  <2>3. Sized' /\ Table(codes'.z, MAXLEN + 4)
    BY <1>1, <2>1, <2>2 DEF Sized
  <2>4. BitsInv'
    BY <1>2, <1>4, <2>3 DEF BitsInv
  <2>5. Output'
    BY <1>1, <1>4, GoesOn DEF Running, Inflating
  <2> QED
    BY <2>4, <2>5 DEF Inflating
<1>5. \/ Refused
      \/ /\ bits' = s.b /\ codes' = [codes EXCEPT !.got = @ + 1, !.sizes[p] = s.v]
         /\ UNCHANGED <<pc, call, zout, limit, held>>
      \/ /\ codes' = [codes EXCEPT !.z = Build(codes.sizes)]
         /\ pc' = "lengths"
         /\ UNCHANGED <<call, bits, zout, limit, held>>
  BY Zenon DEF NextSize
<1> QED
  BY <1>3, <1>4, <1>5, Stops

LEMMA AddLengthsKeeps ==
  ASSUME Inflating, pc = "lengths", NEW n \in Nat, NEW s \in Nat,
         NEW b \in Buffers, AddLengths(n, s, b)
  PROVE  Inflating'
<1> DEFINE run == [i \in 1 .. n |-> s]
<1>1. CASE Strays
  BY <1>1, Stops DEF Running
<1>2. CASE /\ codes' = [codes EXCEPT !.lencodes = @ \o run] /\ bits' = b
           /\ UNCHANGED <<pc, call, zout, limit, held>>
  <2>1. Sized /\ Table(codes.z, MAXLEN + 4) /\ call.bytes \in Seq(Bytes)
    BY DEF Inflating, BitsInv
  <2>2. codes.lencodes \o run \in Seq(Nat)
    <3>1. run \in Seq(Nat)
      OBVIOUS
    <3> HIDE DEF run
    <3> QED
      BY <2>1, <3>1, ConcatProperties DEF Sized
  <2> HIDE DEF run
  <2>3. /\ DOMAIN codes' = DOMAIN codes /\ codes'.sizes = codes.sizes
        /\ codes'.hlit = codes.hlit /\ codes'.hdist = codes.hdist
        /\ codes'.lencodes = codes.lencodes \o run /\ codes'.z = codes.z
    BY <1>2, <2>1 DEF Sized
  <2>4. Sized' /\ Table(codes'.z, MAXLEN + 4)
    BY <2>1, <2>2, <2>3 DEF Sized
  <2>5. BitsInv'
    BY <1>2, <2>1, <2>4 DEF BitsInv
  <2>6. Output'
    BY <1>2, GoesOn DEF Running, Inflating
  <2> QED
    BY <2>5, <2>6 DEF Inflating
<1>3. \/ Strays
      \/ /\ codes' = [codes EXCEPT !.lencodes = @ \o run] /\ bits' = b
         /\ UNCHANGED <<pc, call, zout, limit, held>>
  BY Zenon DEF AddLengths
<1> QED
  BY <1>1, <1>2, <1>3

LEMMA NextLengthOutput ==
  ASSUME Inflating, NextLength PROVE Inflating'
<1> DEFINE c == Symbol(bits, codes.z)
           bit == Repeat[c.v - MAXLEN][1]
           least == Repeat[c.v - MAXLEN][2]
           n == Receive(c.b, bit)
<1>1. /\ pc = "lengths" /\ pc \in Running /\ MAXLEN \in Nat
      /\ bits \in Buffers /\ call.bytes \in Seq(Bytes)
      /\ Sized /\ Table(codes.z, MAXLEN + 4)
  BY Numbers DEF NextLength, Inflating, BitsInv, Running
<1>2. c.v \in NoSymbols \cup 0 .. MAXLEN + 3 /\ c.b \in Buffers
  <2> DEFINE m == MAXLEN + 4
  <2>1. m \in Nat /\ m - 1 = MAXLEN + 3
    BY <1>1
  <2> HIDE DEF m
  <2>2. c.v \in NoSymbols \cup 0 .. m - 1 /\ c.b \in Buffers
    BY <1>1, <2>1, SymbolTyped DEF m
  <2> QED
    BY <2>1, <2>2
<1>3. \/ NotDecoded(c.v)
      \/ c.v \in 0 .. MAXLEN /\ AddLengths(1, c.v, c.b)
      \/ /\ c.v > MAXLEN
         /\ \E s \in IF c.v = MAXLEN + 1 THEN LengthBefore ELSE {0} :
              AddLengths(n.v + least, s, n.b)
  BY Zenon DEF NextLength
<1> HIDE DEF c
<1>4. CASE NotDecoded(c.v)
  BY <1>1, <1>4, NotDecodedStops
<1>5. CASE c.v \in 0 .. MAXLEN /\ AddLengths(1, c.v, c.b)
  BY <1>1, <1>2, <1>5, AddLengthsKeeps
<1>6. ASSUME c.v > MAXLEN,
             NEW s \in IF c.v = MAXLEN + 1 THEN LengthBefore ELSE {0},
             AddLengths(n.v + least, s, n.b)
      PROVE  Inflating'
  <2>1. c.v - MAXLEN \in 1 .. 3
    BY <1>1, <1>2, <1>6 DEF NoSymbols, NoSymbol, AssertFails
  <2>2. bit \in 0 .. 3 * BITS /\ least \in Nat
    BY <2>1, FormatAssumption
  <2> HIDE DEF bit, least
  <2>3. n.v \in Nat /\ n.b \in Buffers
    BY <1>1, <1>2, <2>2, ReceiveTyped
  <2> HIDE DEF n
  <2>4. s \in Nat
    <3>1. LengthBefore \subseteq Nat
      <4>1. CASE codes.lencodes = <<>>
        <5>1. 2^BITS \in Nat
          BY Numbers, PowerCounts
        <5> QED
          BY <4>1, <5>1 DEF LengthBefore
      <4>2. CASE codes.lencodes # <<>>
        <5> DEFINE l == codes.lencodes
        <5>1. l \in Seq(Nat) /\ l # <<>>
          BY <1>1, <4>2 DEF Sized
        <5> HIDE DEF l
        <5>2. Len(l) \in 1 .. Len(l)
          BY <5>1, EmptySeq, LenProperties
        <5>3. l[Len(l)] \in Nat
          BY <5>1, <5>2, ElementOfSeq
        <5> QED
          BY <4>2, <5>3 DEF LengthBefore, l
      <4> QED
        BY <4>1, <4>2
    <3> QED
      BY <1>6, <3>1
  <2>5. n.v + least \in Nat
    BY <2>2, <2>3
  <2> QED
    BY <1>1, <1>6, <2>3, <2>4, <2>5, AddLengthsKeeps
<1> QED
  BY <1>3, <1>4, <1>5, <1>6

LEMMA BuildCodesOutput ==
  ASSUME Inflating, BuildCodes PROVE Inflating'
<1> DEFINE l == codes.lencodes
           h == codes.hlit
           d == codes.hdist
           lit == Sizelist(1, h)
           dist == Sizelist(h + 1, h + d)
<1>1. pc = "lengths" /\ pc \in Running /\ Sized
  BY DEF BuildCodes, Inflating, BitsInv, Running
<1>2. CASE /\ Len(l) = h + d /\ ~TooLong
           /\ z_length' = Build(lit) /\ z_distance' = Build(dist)
           /\ codes' = NoCodes /\ pc' = "symbols"
           /\ UNCHANGED <<call, bits, zout, limit, held>>
  <2>1. /\ l \in Seq(Nat) /\ Len(l) = h + d /\ h \in Nat /\ d \in Nat
        /\ h <= LITERALS + 2^HLIT /\ d <= 2^HDIST
        /\ LITERALS + 2^HLIT \in Nat /\ 2^HDIST \in Nat /\ MAXLEN \in Nat
    <3>1. /\ l \in Seq(Nat) /\ Len(l) = h + d
          /\ h \in LITERALS + 1 .. LITERALS + 2^HLIT /\ d \in 1 .. 2^HDIST
      BY <1>1, <1>2 DEF Sized, END
    <3> HIDE DEF l, h, d
    <3> QED
      BY <3>1, Numbers
  <2> HIDE DEF l, h, d
  <2>2. ASSUME NEW i \in 1 .. h + d PROVE l[i] \in 0 .. MAXLEN
    <3>1. i \in 1 .. Len(l) /\ ~(l[i] > MAXLEN)
      BY <1>2, <2>1 DEF TooLong, l
    <3>2. l[i] \in Nat
      BY <2>1, <3>1, ElementOfSeq
    <3> QED
      BY <2>1, <3>1, <3>2
  <2>3. lit \in [0 .. h - 1 -> 0 .. MAXLEN]
    <3>1. \A k \in 0 .. h - 1 : 1 + k \in 1 .. h + d
      BY <2>1
    <3>2. lit = [k \in 0 .. h - 1 |-> l[1 + k]]
      BY DEF Sizelist, l
    <3> QED
      BY <2>2, <3>1, <3>2
  <2>4. dist \in [0 .. d - 1 -> 0 .. MAXLEN]
    <3>1. \A k \in 0 .. d - 1 : h + 1 + k \in 1 .. h + d
      BY <2>1
    <3>2. dist = [k \in 0 .. d - 1 |-> l[h + 1 + k]]
      <4>1. (h + d) - (h + 1) = d - 1
        BY <2>1
      <4>2. dist = [k \in 0 .. (h + d) - (h + 1) |-> l[h + 1 + k]]
        BY Zenon DEF Sizelist, l
      <4> QED
        BY <4>1, <4>2, Zenon
    <3> QED
      BY <2>2, <3>1, <3>2
  <2> HIDE DEF lit, dist
  <2>5. Table(Build(lit), LITERALS + 2^HLIT) /\ Table(Build(dist), 2^HDIST)
    <3> DEFINE m == LITERALS + 2^HLIT
               n == 2^HDIST
    <3>1. m \in Nat /\ n \in Nat /\ h <= m /\ d <= n
      BY <2>1
    <3> HIDE DEF m, n
    <3>2. Table(Build(lit), m) /\ Table(Build(dist), n)
      BY <2>1, <2>3, <2>4, <3>1, BuildTyped
    <3> QED
      BY <3>2 DEF m, n
  <2>6. Tables'
    BY <1>2, <2>5 DEF Tables
  <2>7. BitsInv'
    BY <1>2, <2>6 DEF Inflating, BitsInv
  <2>8. Output'
    BY <1>1, <1>2, GoesOn DEF Running, Inflating
  <2> QED
    BY <2>7, <2>8 DEF Inflating
<1>3. \/ Refused \/ Strays
      \/ /\ Len(l) = h + d /\ ~TooLong
         /\ z_length' = Build(lit) /\ z_distance' = Build(dist)
         /\ codes' = NoCodes /\ pc' = "symbols"
         /\ UNCHANGED <<call, bits, zout, limit, held>>
  BY Zenon DEF BuildCodes
<1> QED
  BY <1>1, <1>2, <1>3, Stops

-----------------------------------------------------------------------------
(* The symbols.                                                            *)
LEMMA MatchOutput ==
  ASSUME Inflating, pc = "symbols", NEW c, Match(c),
         c.v \in NoSymbols \cup 0 .. LITERALS + 2^HLIT - 1, c.b \in Buffers
  PROVE  Inflating'
<1> DEFINE base == LengthBase[c.v - END]
           extra == LengthExtra[c.v - END]
           more == Receive(c.b, extra)
           d == Symbol(more.b, z_distance)
           bit == DistExtra[d.v + 1]
           far == Receive(d.b, bit)
           len == base + more.v
           dist == DistBase[d.v + 1] + far.v
<1>1. /\ call.bytes \in Seq(Bytes) /\ Table(z_distance, 2^HDIST)
      /\ pc \in Running /\ LITERALS \in Nat /\ 2^HLIT \in Nat /\ 2^HDIST \in Nat
  BY Numbers DEF Inflating, BitsInv, Tables, Running
<1>2. base \in Nat /\ extra \in 0 .. 3 * BITS
  <2> DEFINE i == c.v - END
  <2>1. c.v > END
    BY DEF Match
  <2>2. i \in 1 .. 2^HLIT - 1
    BY <1>1, <2>1 DEF NoSymbols, NoSymbol, AssertFails, END
  <2>3. LengthBase[i] \in Nat /\ LengthExtra[i] \in 0 .. 3 * BITS
    <3> HIDE DEF i
    <3> QED
      BY <2>2, FormatAssumption
  <2> QED
    BY <2>3
<1>3. \/ d.v < 0 /\ NotDecoded(d.v)
      \/ /\ ~(d.v < 0)
         /\ \/ Refused
            \/ \E left : Write([i \in 1 .. len |-> left], far.b, pc)
            \/ Write(Copied(len, dist), far.b, pc)
  BY Zenon DEF Match
<1> HIDE DEF base, extra
<1>4. more.v \in Nat /\ more.b \in Buffers
  BY <1>1, <1>2, ReceiveTyped
<1>5. len \in Nat
  BY <1>2, <1>4
<1> HIDE DEF len, more
<1>6. d.v \in NoSymbols \cup 0 .. 2^HDIST - 1 /\ d.b \in Buffers
  <2> DEFINE m == 2^HDIST
  <2>1. m \in Nat /\ Table(z_distance, m)
    BY <1>1
  <2> HIDE DEF m
  <2>2. d.v \in NoSymbols \cup 0 .. m - 1 /\ d.b \in Buffers
    BY <1>1, <1>4, <2>1, SymbolTyped
  <2> QED
    BY <2>2 DEF m
<1> HIDE DEF d
<1>7. CASE d.v < 0 /\ NotDecoded(d.v)
  BY <1>1, <1>7, NotDecodedStops
<1>8. CASE Refused
  BY <1>8, Stops
<1>9. ASSUME ~(d.v < 0) PROVE far.b \in Buffers
  <2> DEFINE i == d.v + 1
  <2>1. i \in 1 .. 2^HDIST
    BY <1>1, <1>6, <1>9 DEF NoSymbols, NoSymbol, AssertFails
  <2> HIDE DEF i
  <2>2. DistExtra[i] \in 0 .. 3 * BITS
    BY <2>1, FormatAssumption
  <2>3. bit \in 0 .. 3 * BITS
    BY <2>2 DEF i
  <2> HIDE DEF bit
  <2> QED
    BY <1>1, <1>6, <2>3, ReceiveTyped
<1> HIDE DEF far, dist
<1>10. ASSUME NEW left, Write([i \in 1 .. len |-> left], far.b, pc), ~(d.v < 0)
       PROVE  Inflating'
  <2> DEFINE s == [i \in 1 .. len |-> left]
  <2>1. s = [i \in 1 .. len |-> s[i]]
    OBVIOUS
  <2>2. Write(s, far.b, pc)
    BY <1>10
  <2> HIDE DEF s
  <2>3. IsSeq(s)
    BY <1>5, <2>1, Listed
  <2> QED
    BY <1>9, <1>10, <2>2, <2>3, WriteKeeps
<1>11. ASSUME Write(Copied(len, dist), far.b, pc), ~(d.v < 0)
       PROVE  Inflating'
  <2> DEFINE s == Copied(len, dist)
  <2>1. s = [i \in 1 .. len |-> s[i]]
    BY DEF Copied
  <2>2. Write(s, far.b, pc)
    BY <1>11
  <2> HIDE DEF s
  <2>3. IsSeq(s)
    BY <1>5, <2>1, Listed
  <2> QED
    BY <1>9, <1>11, <2>2, <2>3, WriteKeeps
<1> QED
  BY <1>3, <1>7, <1>8, <1>10, <1>11

LEMMA SymbolOutput ==
  ASSUME Inflating, NextSymbol PROVE Inflating'
<1> DEFINE c == Symbol(bits, z_length)
<1>1. /\ pc = "symbols" /\ pc \in Running /\ codes = NoCodes
      /\ bits \in Buffers /\ call.bytes \in Seq(Bytes) /\ Tables
  BY DEF NextSymbol, Running, Inflating, BitsInv
<1>2. NotDecoded(c.v) \/ EndBlock(c) \/ Literal(c) \/ Match(c)
  BY Zenon DEF NextSymbol
<1>3. c.v \in NoSymbols \cup 0 .. LITERALS + 2^HLIT - 1 /\ c.b \in Buffers
  <2> DEFINE m == LITERALS + 2^HLIT
  <2>1. m \in Nat /\ Table(z_length, m)
    BY <1>1, Numbers DEF Tables
  <2>2. m - 1 = LITERALS + 2^HLIT - 1
    BY Numbers
  <2> HIDE DEF m
  <2>3. c.v \in NoSymbols \cup 0 .. m - 1 /\ c.b \in Buffers
    BY <1>1, <2>1, SymbolTyped
  <2> HIDE DEF c
  <2> QED
    BY <2>2, <2>3, Zenon
<1> HIDE DEF c
<1>4. CASE NotDecoded(c.v)
  BY <1>1, <1>4, NotDecodedStops
<1>5. CASE EndBlock(c)
  <2>1. AfterBlock \in {"block", "done"}
    BY DEF AfterBlock
  <2>2. pc' = AfterBlock /\ bits' = c.b /\ UNCHANGED <<call, codes, zout, limit, held>>
    BY <1>5 DEF EndBlock
  <2>3. BitsInv'
    BY <1>1, <1>3, <2>1, <2>2 DEF BitsInv
  <2>4. Output'
    BY <1>1, <2>1, <2>2, GoesOn DEF Running, Inflating
  <2> QED
    BY <2>3, <2>4 DEF Inflating
<1>6. CASE Literal(c)
  <2>1. Write(<<c.v>>, c.b, pc)
    BY <1>6 DEF Literal
  <2>2. IsSeq(<<c.v>>)
    <3>1. <<c.v>> \in Seq({c.v})
      OBVIOUS
    <3> QED
      BY <3>1, IsSeqOf
  <2> QED
    BY <1>1, <1>3, <2>1, <2>2, WriteKeeps
<1>7. CASE Match(c)
  BY <1>1, <1>3, <1>7, MatchOutput
<1> QED
  BY <1>2, <1>4, <1>5, <1>6, <1>7

LEMMA NextOutput ==
  ASSUME Inflating, Next PROVE Inflating'
BY StartOutput, BlockOutput, StoredOutput, FirstSizeOutput, NextSizeOutput,
   NextLengthOutput, BuildCodesOutput, SymbolOutput DEF Next

-----------------------------------------------------------------------------
(* The steps of the decoder.                                               *)
LEMMA IdleKeeps ==
  ASSUME Inflating, Uncalled, UNCHANGED zvars,
         ppc' = "chunk" => /\ ppc \in {"start", "chunk"}
                           /\ img'.first \/ Header(img'),
         ppc' # "start"
  PROVE  Inflating' /\ Uncalled'
<1>1. UNCHANGED <<pc, call, bits, codes, z_length, z_distance, zout, limit, held>>
  BY DEF zvars
<1>2. Output'
  BY <1>1 DEF Inflating, Output
<1>3. BitsInv'
  BY <1>1 DEF Inflating, BitsInv, Sized, Tables
<1>4. Uncalled'
  BY <1>1 DEF Uncalled
<1> QED
  BY <1>2, <1>3, <1>4 DEF Inflating

LEMMA ReturnOutput ==
  ASSUME Inflating, Uncalled, NEW r, NEW kept, Return(r, kept)
  PROVE  Inflating' /\ Uncalled'
<1>1. ppc' = "returned" /\ UNCHANGED zvars
  BY DEF Return
<1> QED
  BY <1>1, IdleKeeps

LEMMA StartIdle ==
  ASSUME Inflating, Uncalled, PngStart
  PROVE  Inflating' /\ Uncalled'
<1>1. CASE PngRefused
  BY <1>1, ReturnOutput DEF PngRefused, NotParsed
<1>2. CASE Return([ok |-> TRUE], heap)
  BY <1>2, ReturnOutput
<1>3. CASE ppc = "start" /\ ppc' = "chunk" /\ img' = img /\ UNCHANGED zvars
  <2>1. img'.first
    BY <1>3 DEF Uncalled
  <2> QED
    BY <1>3, <2>1, IdleKeeps
<1>4. \/ PngRefused \/ Return([ok |-> TRUE], heap)
      \/ ppc = "start" /\ ppc' = "chunk" /\ img' = img /\ UNCHANGED zvars
  BY DEF PngStart
<1> QED
  BY <1>1, <1>2, <1>3, <1>4

LEMMA NextChunkIdle ==
  ASSUME Inflating, Uncalled, ppc = "chunk", NEW i, NextChunk(i),
         \/ /\ i.first = img.first /\ i.x = img.x /\ i.y = img.y
            /\ i.n = img.n /\ i.depth = img.depth
         \/ Header(i)
  PROVE  Inflating' /\ Uncalled'
<1>1. img' = i /\ ppc' = "chunk" /\ UNCHANGED zvars
  BY DEF NextChunk
<1>2. i.first \/ Header(i)
  BY DEF Uncalled, Header
<1> QED
  BY <1>1, <1>2, IdleKeeps

LEMMA ChunkIdle ==
  ASSUME MemoryInv, Inflating, Uncalled, ppc = "chunk",
         CgBI \/ PLTE \/ TRNS \/ IDAT \/ OtherChunk
  PROVE  Inflating' /\ Uncalled'
<1>1. \/ \E r, kept : Return(r, kept)
      \/ NextChunk([img EXCEPT !.is_iphone = TRUE])
      \/ \E n, p : NextChunk([img EXCEPT !.pal_len = n, !.palette = p])
      \/ \E p : NextChunk([img EXCEPT !.pal_img_n = 4, !.palette = p])
      \/ \E t : NextChunk([img EXCEPT !.has_trans = TRUE, !.tc = t])
      \/ \E d, l : NextChunk([img EXCEPT !.idata = d, !.idata_limit = l])
      \/ NextChunk(img)
  <2>1. CASE CgBI
    BY <2>1 DEF CgBI
  <2>2. CASE PLTE
    BY <2>2, Zenon DEF PLTE, PngRefused, NotParsed
  <2>3. CASE TRNS
    BY <2>3, Zenon DEF TRNS, PngRefused, NotParsed, Informed
  <2>4. CASE IDAT
    BY <2>4, Zenon DEF IDAT, PngRefused, PngNoMemory, NotParsed, Informed
  <2>5. CASE OtherChunk
    BY <2>5, Zenon DEF OtherChunk, PngRefused, NotParsed
  <2> QED
    BY <2>1, <2>2, <2>3, <2>4, <2>5
<1>2. DOMAIN img = Fields
  BY DEF MemoryInv, Roomy
<1>3. CASE \E r, kept : Return(r, kept)
  BY <1>3, ReturnOutput
<1>4. CASE NextChunk([img EXCEPT !.is_iphone = TRUE])
  <2> DEFINE i == [img EXCEPT !.is_iphone = TRUE]
  <2>1. /\ i.first = img.first /\ i.x = img.x /\ i.y = img.y
        /\ i.n = img.n /\ i.depth = img.depth
    BY <1>2, FieldsAre
  <2> HIDE DEF i
  <2> QED
    BY <1>4, <2>1, NextChunkIdle DEF i
<1>5. ASSUME NEW n, NEW p, NextChunk([img EXCEPT !.pal_len = n, !.palette = p])
      PROVE  Inflating' /\ Uncalled'
  <2> DEFINE i == [img EXCEPT !.pal_len = n, !.palette = p]
  <2>1. /\ i.first = img.first /\ i.x = img.x /\ i.y = img.y
        /\ i.n = img.n /\ i.depth = img.depth
    BY <1>2, FieldsAre
  <2>2. NextChunk(i)
    BY <1>5
  <2> HIDE DEF i
  <2> QED
    BY <2>1, <2>2, NextChunkIdle
<1>6. ASSUME NEW p, NextChunk([img EXCEPT !.pal_img_n = 4, !.palette = p])
      PROVE  Inflating' /\ Uncalled'
  <2> DEFINE i == [img EXCEPT !.pal_img_n = 4, !.palette = p]
  <2>1. /\ i.first = img.first /\ i.x = img.x /\ i.y = img.y
        /\ i.n = img.n /\ i.depth = img.depth
    BY <1>2, FieldsAre
  <2>2. NextChunk(i)
    BY <1>6
  <2> HIDE DEF i
  <2> QED
    BY <2>1, <2>2, NextChunkIdle
<1>7. ASSUME NEW t, NextChunk([img EXCEPT !.has_trans = TRUE, !.tc = t])
      PROVE  Inflating' /\ Uncalled'
  <2> DEFINE i == [img EXCEPT !.has_trans = TRUE, !.tc = t]
  <2>1. /\ i.first = img.first /\ i.x = img.x /\ i.y = img.y
        /\ i.n = img.n /\ i.depth = img.depth
    BY <1>2, FieldsAre
  <2>2. NextChunk(i)
    BY <1>7
  <2> HIDE DEF i
  <2> QED
    BY <2>1, <2>2, NextChunkIdle
<1>8. ASSUME NEW d, NEW l, NextChunk([img EXCEPT !.idata = d, !.idata_limit = l])
      PROVE  Inflating' /\ Uncalled'
  <2> DEFINE i == [img EXCEPT !.idata = d, !.idata_limit = l]
  <2>1. /\ i.first = img.first /\ i.x = img.x /\ i.y = img.y
        /\ i.n = img.n /\ i.depth = img.depth
    BY <1>2, FieldsAre
  <2>2. NextChunk(i)
    BY <1>8
  <2> HIDE DEF i
  <2> QED
    BY <2>1, <2>2, NextChunkIdle
<1>9. CASE NextChunk(img)
  BY <1>9, NextChunkIdle
<1> QED
  BY <1>1, <1>3, <1>4, <1>5, <1>6, <1>7, <1>8, <1>9

-----------------------------------------------------------------------------
(* The size of a picture.                                                  *)
LEMMA TimesUp ==
  ASSUME NEW p \in Nat, NEW q \in Nat, p <= q, NEW b \in Nat
  PROVE  p * b <= q * b /\ p * b \in Nat /\ q * b \in Nat
<1> DEFINE d == q - p
           m == d * b
<1>1. d \in Nat
  OBVIOUS
<1>2. m \in Nat /\ p * b \in Nat /\ q * b \in Nat
  BY <1>1
<1>3. q * b = p * b + m
  OBVIOUS
<1> HIDE DEF m
<1> QED
  BY <1>2, <1>3

(* What is divided fits as often as that.                                  *)
LEMMA DivTimes ==
  ASSUME NEW a \in Nat, NEW b \in Nat \ {0}
  PROVE  a \div b \in Nat /\ (a \div b) * b <= a /\ (a \div b) * b \in Nat
<1> DEFINE q == a \div b
           r == a % b
           m == q * b
<1>1. q \in Nat /\ a = m + r /\ r \in 0 .. b - 1
  BY DivMod
<1>2. m \in Nat
  BY <1>1
<1> HIDE DEF m, q, r
<1>3. m <= a
  BY <1>1, <1>2
<1> QED
  BY <1>1, <1>2, <1>3 DEF m, q

LEMMA HeaderFits ==
  ASSUME NEW h, Supported(h)
  PROVE  /\ h.x \in 1 .. MAXDIM /\ h.y \in 1 .. MAXDIM
         /\ Components(h.color) \in Nat /\ h.depth \in 1 .. BITS
         /\ h.x * (h.y * Components(h.color)) <= AREA
<1> DEFINE x == h.x
           y == h.y
           n == Components(h.color)
           m == IF h.color = 3 THEN 4 ELSE n
           r == AREA \div x
           q == r \div m
<1>1. /\ x \in 1 .. MAXDIM /\ y \in 1 .. MAXDIM /\ h.depth \in 1 .. BITS
      /\ q >= y
  BY PngAssumption DEF Supported
<1>2. n \in 1 .. 4 /\ m \in 1 .. 4 /\ n <= m
  BY DEF Components
<1> HIDE DEF n, m
<1>3. x \in Nat \ {0} /\ y \in Nat /\ AREA \in Nat
  BY <1>1, PngAssumption
<1> HIDE DEF x, y
<1>4. r \in Nat /\ r * x <= AREA /\ r * x \in Nat
  BY <1>3, DivTimes
<1> HIDE DEF r
<1>5. q \in Nat /\ q * m <= r /\ q * m \in Nat
  BY <1>2, <1>4, DivTimes
<1> HIDE DEF q
<1>6. y * n <= r /\ y * n \in Nat
  <2>1. y * m <= q * m /\ y * m \in Nat
    BY <1>1, <1>2, <1>3, <1>5, TimesUp
  <2>2. n * y <= m * y /\ n * y \in Nat
    BY <1>2, <1>3, TimesUp
  <2>3. n * y = y * n /\ m * y = y * m
    BY <1>2, <1>3
  <2> QED
    BY <1>4, <1>5, <2>1, <2>2, <2>3
<1>7. x * (y * n) <= AREA
  <2> DEFINE k == y * n
  <2>1. k \in Nat /\ k <= r
    BY <1>6
  <2> HIDE DEF k
  <2>2. k * x <= r * x /\ k * x \in Nat
    BY <1>3, <1>4, <2>1, TimesUp
  <2>3. x * k = k * x
    BY <1>3, <2>1
  <2>4. x * k <= AREA
    BY <1>3, <1>4, <2>2, <2>3
  <2> QED
    BY <2>4 DEF k
<1> QED
  BY <1>1, <1>2, <1>7 DEF n, x, y

LEMMA IHDRIdle ==
  ASSUME MemoryInv, Inflating, Uncalled, ppc = "chunk", IHDR
  PROVE  Inflating' /\ Uncalled'
<1> DEFINE h == Chunk.data
           i == [img EXCEPT
                   !.first = FALSE, !.x = h.x, !.y = h.y, !.depth = h.depth,
                   !.color = h.color, !.interlace = h.interlace,
                   !.n = Components(h.color),
                   !.pal_img_n = IF h.color = 3 THEN 3 ELSE 0]
<1>1. \/ \E r, kept : Return(r, kept)
      \/ Supported(h) /\ NextChunk(i)
  BY Zenon DEF IHDR, PngRefused, NotParsed, Informed
<1>2. CASE \E r, kept : Return(r, kept)
  BY <1>2, ReturnOutput
<1>3. CASE Supported(h) /\ NextChunk(i)
  <2>1. DOMAIN img = Fields
    BY DEF MemoryInv, Roomy
  <2>2. /\ i.x = h.x /\ i.y = h.y /\ i.depth = h.depth
        /\ i.n = Components(h.color)
    BY <2>1, FieldsAre
  <2> HIDE DEF i, h
  <2>3. Header(i)
    BY <1>3, <2>2, HeaderFits DEF Header
  <2> QED
    BY <1>3, <2>3, NextChunkIdle
<1> QED
  BY <1>1, <1>2, <1>3
(* A picture has some bytes, one in front of each row, and an int tells    *)
(* how many.                                                               *)
LEMMA RawLenFits ==
  ASSUME Header(img)
  PROVE  RawLen \in Nat /\ RawLen > 0 /\ RawLen < INT
<1> DEFINE x == img.x
           y == img.y
           n == img.n
           d == img.depth
           a == x * d
           e == a + BITS - 1
           b == e \div BITS
           k == y * n
<1>1. /\ x \in Nat /\ y \in Nat /\ y > 0 /\ y <= MAXDIM /\ n \in Nat
      /\ d \in Nat /\ d <= BITS /\ BITS \in Nat \ {0}
      /\ MAXDIM \in Nat /\ AREA \in Nat /\ AREA + MAXDIM < INT
      /\ x * k <= AREA
  BY Numbers, PngAssumption DEF Header
<1>2. RawLen = b * y * n + y
  BY DEF RawLen
<1> HIDE DEF x, y, n, d
<1>3. a \in Nat /\ a <= x * BITS /\ x * BITS \in Nat
  <2>1. d * x <= BITS * x /\ d * x \in Nat /\ BITS * x \in Nat
    BY <1>1, TimesUp
  <2>2. d * x = x * d /\ BITS * x = x * BITS
    BY <1>1
  <2> QED
    BY <2>1, <2>2
<1> HIDE DEF a
<1>4. e \in Nat /\ e < x * BITS + BITS
  BY <1>1, <1>3
<1> HIDE DEF e
<1>5. b \in Nat /\ b * BITS <= e /\ b * BITS \in Nat
  BY <1>1, <1>4, DivTimes
<1> HIDE DEF b
<1>6. b <= x
  <2>1. SUFFICES ASSUME x + 1 <= b PROVE FALSE
    BY <1>1, <1>5
  <2>2. (x + 1) * BITS <= b * BITS
    BY <1>1, <1>5, <2>1, TimesUp
  <2>3. (x + 1) * BITS = x * BITS + BITS
    BY <1>1
  <2> QED
    BY <1>1, <1>3, <1>4, <1>5, <2>2, <2>3
<1>7. k \in Nat
  BY <1>1
<1>8. b * y * n = b * k
  BY <1>1, <1>5
<1> HIDE DEF k
<1>9. b * k <= x * k /\ b * k \in Nat /\ x * k \in Nat
  BY <1>1, <1>5, <1>6, <1>7, TimesUp
<1> DEFINE m == b * k
<1>10. m \in Nat /\ m <= AREA /\ RawLen = m + y
  BY <1>1, <1>2, <1>8, <1>9
<1> HIDE DEF m, RawLen
<1>11. INT \in Int
  <2>1. UINT \in Nat
    BY FormatAssumption
  <2> QED
    BY <2>1 DEF INT
<1> HIDE DEF INT
<1> QED
  BY <1>1, <1>10, <1>11

LEMMA IENDIdle ==
  ASSUME MemoryInv, Inflating, Uncalled, ppc = "chunk", IEND
  PROVE  Inflating' /\ Uncalled'
<1> DEFINE c == [bytes |-> IF img.is_iphone THEN img.idata
                           ELSE SubSeq(img.idata, 3, Len(img.idata)),
                 header |-> load.header /\ Len(img.idata) > 1,
                 parse_header |-> ~img.is_iphone,
                 expandable |-> TRUE, olen |-> RawLen,
                 known |-> IF img.idata = load.stream THEN "good" ELSE "any",
                 means |-> load.raw]
           Called == /\ ~img.first
                     /\ ppc' = "inflate" /\ pc' = "start" /\ limit' = RawLen
                     /\ call' = c
                     /\ img' = img /\ zout' = zout /\ held' = held
                     /\ bits' = bits /\ codes' = codes
<1>1. (\E r, kept : Return(r, kept)) \/ Called
  BY Zenon DEF IEND, PngRefused, NotParsed, Informed
<1>2. CASE \E r, kept : Return(r, kept)
  BY <1>2, ReturnOutput
<1>3. CASE Called
  <2>1. Header(img) /\ pc = "idle" /\ zout = <<>> /\ Output /\ BitsInv
    BY <1>3 DEF Uncalled, Inflating
  <2>2. RawLen \in Nat /\ RawLen > 0 /\ RawLen < INT
    BY <2>1, RawLenFits
  <2>3. /\ call'.bytes = IF img.is_iphone THEN img.idata
                         ELSE SubSeq(img.idata, 3, Len(img.idata))
        /\ call'.expandable = TRUE /\ call'.olen = RawLen
    BY <1>3
  <2>4. call'.bytes \in Seq(Bytes)
    <3>1. img.idata \in Seq(Bytes) /\ Len(img.idata) \in Nat
      BY LenProperties DEF MemoryInv, Roomy
    <3>2. SubSeq(img.idata, 3, Len(img.idata)) \in Seq(Bytes)
      BY <3>1, SubSeqProperties
    <3> QED
      BY <2>3, <3>1, <3>2
  <2>5. IsSeq(zout') /\ Len(zout') = 0
    <3>1. zout' = <<>>
      BY <1>3, <2>1
    <3> QED
      BY <3>1, NoBytes, Zenon
  <2>6. /\ pc' = "start" /\ limit' = RawLen /\ ~held'
        /\ bits' = bits /\ codes' = codes
    <3>1. ~held
      BY <2>1 DEF Output
    <3>2. UNCHANGED <<bits, codes>>
      BY <1>3
    <3> QED
      BY <1>3, <3>1, <3>2
  <2> HIDE DEF RawLen
  <2>7. Output'
    <3>1. limit' \in Nat /\ limit' > 0 /\ limit' < INT /\ Len(zout') <= limit'
      BY <2>2, <2>5, <2>6
    <3> QED
      BY <2>2, <2>3, <2>5, <2>6, <3>1 DEF Output, Running, Ended
  <2>8. BitsInv'
    BY <2>1, <2>4, <2>6 DEF BitsInv
  <2>9. Uncalled'
    BY <1>3 DEF Uncalled
  <2> QED
    BY <2>7, <2>8, <2>9 DEF Inflating
<1> QED
  BY <1>1, <1>2, <1>3

LEMMA PngNextOutput ==
  ASSUME MemoryInv, Inflating, Uncalled, PngNext
  PROVE  Inflating' /\ Uncalled'
<1>1. CASE PngStart
  BY <1>1, StartIdle
<1>2. CASE ParseChunk
  BY <1>2, ChunkIdle, IHDRIdle, IENDIdle DEF ParseChunk
<1>3. CASE \/ Inflated \/ PassBegin \/ Row \/ Unpack \/ NowhereToPlace \/ Place
           \/ Transform \/ Palette \/ Convert
  <2>1. \/ \E r, kept : Return(r, kept)
        \/ /\ ppc' \in {"pass", "row", "place", "transform", "palette",
                        "convert", "undefined"}
           /\ UNCHANGED zvars
    <3>1. CASE Inflated
      BY <3>1, Zenon DEF Inflated, PngRefused, NotParsed
    <3>2. CASE PassBegin
      BY <3>2, Zenon DEF PassBegin, PassFails
    <3>3. CASE Row
      BY <3>3, Zenon DEF Row, PassFails, PngStrays
    <3>4. CASE Unpack
      BY <3>4 DEF Unpack
    <3>5. CASE NowhereToPlace
      BY <3>5 DEF NowhereToPlace, PngStrays
    <3>6. CASE Place
      BY <3>6 DEF Place
    <3>7. CASE Transform
      BY <3>7 DEF Transform
    <3>8. CASE Palette
      BY <3>8, Zenon DEF Palette, PngNoMemory, NotParsed
    <3>9. CASE Convert
      BY <3>9, Zenon DEF Convert, PngStrays
    <3> QED
      BY <1>3, <3>1, <3>2, <3>3, <3>4, <3>5, <3>6, <3>7, <3>8, <3>9
  <2> QED
    BY <2>1, ReturnOutput, IdleKeeps
<1> QED
  BY <1>1, <1>2, <1>3 DEF PngNext

LEMMA OutputInvKeeps ==
  ASSUME OutputInv, [PngNext \/ InflaterNext \/ PngReturned]_<<vars, pngvars>>
  PROVE  OutputInv'
<1>1. MemoryInv' /\ MemoryInv /\ Inflating /\ Uncalled
  BY PngNextKeeps DEF OutputInv
<1>2. CASE PngNext
  BY <1>1, <1>2, PngNextOutput DEF OutputInv
<1>3. CASE InflaterNext
  <2>1. Inflating'
    BY <1>1, <1>3, NextOutput DEF InflaterNext
  <2>2. ppc' = ppc /\ ppc \in {"none", "inflate"}
    BY <1>3 DEF InflaterNext, pngvars
  <2>3. Uncalled'
    BY <2>2 DEF Uncalled
  <2> QED
    BY <1>1, <2>1, <2>3 DEF OutputInv
<1>4. CASE UNCHANGED <<vars, pngvars>>
  <2>1. UNCHANGED <<pc, call, bits, codes, z_length, z_distance, zout, limit,
                    held, ppc, img>>
    BY <1>4 DEF vars, pngvars
  <2>2. Output'
    BY <1>1, <2>1 DEF Inflating, Output
  <2>3. BitsInv'
    BY <1>1, <2>1 DEF Inflating, BitsInv, Sized, Tables
  <2>4. Uncalled'
    BY <1>1, <2>1 DEF Uncalled
  <2> QED
    BY <1>1, <2>2, <2>3, <2>4 DEF OutputInv, Inflating
<1> QED
  BY <1>2, <1>3, <1>4 DEF PngReturned

(* Whatever the stream and the file are, what the inflater writes is in    *)
(* the room there is for it, which is that of the caller or, for an entry  *)
(* point that allocates, as much as is needed however often it is doubled, *)
(* and never more than an int tells; a call that fails keeps nothing       *)
(* allocated (stbi__zexpand, stbi_zlib_decode_buffer), and only one whose  *)
(* output may grow comes to a loop that does not end.  The bits read ahead *)
(* are as many as are asked for, every symbol is one that the tables have  *)
(* an entry for, and the first room, that of the picture's rows, is a      *)
(* number an int tells: what is written would be in no order without that. *)
THEOREM OutputFitsHolds == PngSpec => []OutputFits
<1>1. PngInit => OutputInv
  BY RoomyInit, OutputInit DEF OutputInv
<1>2. /\ OutputInv
      /\ [PngNext \/ InflaterNext \/ PngReturned]_<<vars, pngvars>>
      => OutputInv'
  BY OutputInvKeeps
<1>3. OutputInv => OutputFits
  BY OutputMeans DEF OutputInv, Inflating
<1> QED
  BY <1>1, <1>2, <1>3, PTL DEF PngSpec
=============================================================================
