---------------------------- MODULE AxfsToolProofs ----------------------------
(***************************************************************************)
(* Proofs about AxfsTool: readFile stays inside its buffer, but for XIP    *)
(* pages that the file does not fill, and brings the bytes that the kernel *)
(* would, for any images that are laid out as the tool takes them          *)
(* (LaidOut), and ls prints the tree, if it is one (IsTree, Complete).     *)
(***************************************************************************)
EXTENDS AxfsTool, FiniteSetTheorems, SequenceTheorems, WellFoundedInduction,
        TLAPS

(* A sequence, of whatever it holds.                                       *)
IsSeq(s) == s \in Seq({s[k] : k \in DOMAIN s})

(* The regions lie in memory as they lie in the image, and in the order in *)
(* which load reads them.                                                  *)
Memory ==
  /\ image \in Mounts /\ wanted \in Wanted
  /\ pc \in {"open", "load", "ls", "read", "print", "exit", "aborted"}
  /\ IsFiniteSet(DOMAIN loaded)
  /\ DOMAIN loaded = {Regions[k] : k \in 1 .. Cardinality(DOMAIN loaded)}
  /\ Cardinality(DOMAIN loaded) <= Len(Regions)
  /\ \A name \in DOMAIN loaded : loaded[name] = region[image][name]
  /\ pc \in {"ls", "read", "print"} => ~Missing

(* The calls of ls under way are of directories.                           *)
FrameType == [first : Nat, numFiles : Nat, i : Nat]

Calls ==
  /\ frames \in Seq(FrameType)
  /\ pc \in {"ls", "print"} => frames # <<>>

(* The buffer holds the cblock that cachedBlock names, if that inflates.   *)
Buffered ==
  /\ DOMAIN cblock_buffer = 0 .. CblockSize - 1
  /\ cachedBlock # NoBlock =>
       /\ cachedBlock \in Blocks
       /\ \/ cachedBlock \in sbi[image].bad_cblocks
          \/ \A i \in 0 .. sbi[image].cblock_len[cachedBlock] - 1 :
               cblock_buffer[i] = CBlockByte(image, cachedBlock, i)

(* Byte i of what the call has copied is that byte of the file.            *)
Right(i) ==
  LET r == PageOf(rd.id, i - 1)
  IN  out[i] = NodeByte(r, (i - 1) % PAGE_CACHE_SIZE) \/ Corrupt(r)

(* The call of readFile under way: it is for a link that ls has met or for *)
(* the file main reads.                                                    *)
Called ==
  /\ rd \in [id : Nat, cap : Nat, length : Nat, node : Nat]
  /\ rd.id \in DOMAIN sbi[image].inode_file_size
  /\ \/ IsLink(image, rd.id) /\ rd.cap = LINK
     \/ rd.id \in Wanted /\ rd.cap = FileSize(PageOf(rd.id, 0))
  /\ IsSeq(out)

(* It stands at the start of a page until it ends.                         *)
Reading ==
  /\ Called
  /\ Len(out) + rd.length = Total
  /\ rd.length > 0 =>
       \E k \in Nat :
         /\ Len(out) = k * PAGE_CACHE_SIZE
         /\ rd.node = sbi[image].inode_array_index[rd.id] + k
  /\ \A i \in 1 .. Len(out) : Right(i)

(* It has gone beyond its end, with an XIP page.                           *)
Strays ==
  /\ Called
  /\ Overreaches
  /\ rd.length < WORD
  /\ Total <= Len(out)
  /\ \A i \in 1 .. Total : Right(i)

Reads ==
  /\ pc = "read" => Reading \/ Strays
  /\ pc = "print" => rd.length = 0
  /\ pc \in {"open", "load", "ls", "exit"} => rd = NoFile /\ out = <<>>
  /\ Fits

ToolInv == Memory /\ Calls /\ Buffered /\ Reads

AllLaidOut == \A m \in Mounts : LaidOut(m)

-----------------------------------------------------------------------------
(* Sequences.                                                              *)

LEMMA Listed ==
  ASSUME NEW n \in Nat, NEW s, s = [k \in 1 .. n |-> s[k]]
  PROVE  IsSeq(s) /\ Len(s) = n /\ DOMAIN s = 1 .. n
<1>1. s \in [1 .. n -> {s[k] : k \in DOMAIN s}]
  OBVIOUS
<1>2. s \in Seq({s[k] : k \in DOMAIN s})
  BY <1>1
<1>3. DOMAIN s = 1 .. Len(s) /\ Len(s) \in Nat
  BY <1>2, LenProperties
<1> QED
  BY <1>1, <1>2, <1>3 DEF IsSeq

LEMMA Joined ==
  ASSUME NEW s, NEW t, IsSeq(s), IsSeq(t)
  PROVE  /\ IsSeq(s \o t) /\ Len(s \o t) = Len(s) + Len(t)
         /\ Len(s) \in Nat /\ Len(t) \in Nat
         /\ \A k \in 1 .. Len(s) : (s \o t)[k] = s[k]
         /\ \A k \in 1 .. Len(t) : (s \o t)[Len(s) + k] = t[k]
<1> DEFINE A == {s[k] : k \in DOMAIN s}
           B == {t[k] : k \in DOMAIN t}
           S == A \cup B
           u == s \o t
<1>1. s \in Seq(A) /\ t \in Seq(B)
  BY DEF IsSeq
<1>2. /\ Len(s) \in Nat /\ Len(t) \in Nat
      /\ s \in [1 .. Len(s) -> A] /\ t \in [1 .. Len(t) -> B]
  BY <1>1, LenProperties
<1>3. s \in Seq(S) /\ t \in Seq(S)
  BY <1>1
<1> HIDE DEF A, B, S
<1>4. /\ u \in Seq(S) /\ Len(u) = Len(s) + Len(t)
      /\ \A k \in 1 .. Len(s) + Len(t) :
           u[k] = IF k <= Len(s) THEN s[k] ELSE t[k - Len(s)]
  BY <1>3, ConcatProperties
<1>5. ASSUME NEW k \in 1 .. Len(s) PROVE u[k] = s[k]
  <2>1. k \in 1 .. Len(s) + Len(t) /\ k <= Len(s)
    BY <1>2
  <2> QED
    BY <2>1, <1>4
<1>6. ASSUME NEW k \in 1 .. Len(t) PROVE u[Len(s) + k] = t[k]
  <2> DEFINE j == Len(s) + k
  <2>1. j \in 1 .. Len(s) + Len(t) /\ ~(j <= Len(s)) /\ j - Len(s) = k
    BY <1>2
  <2> HIDE DEF j
  <2>2. u[j] = t[k]
    BY <2>1, <1>4
  <2> QED
    BY <2>2 DEF j
<1>7. u = [k \in 1 .. Len(u) |-> u[k]] /\ Len(u) \in Nat
  <2>1. u \in [1 .. Len(u) -> S]
    BY <1>4, LenProperties
  <2>2. Len(u) \in Nat
    BY <1>2, <1>4
  <2> HIDE DEF u
  <2> QED
    BY <2>1, <2>2
<1> HIDE DEF u
<1>8. IsSeq(u)
  BY <1>7, Listed
<1> QED
  BY <1>2, <1>4, <1>5, <1>6, <1>8 DEF u

-----------------------------------------------------------------------------
(* Division.                                                               *)
LEMMA DivMod ==
  ASSUME NEW a \in Nat, NEW b \in Nat \ {0}
  PROVE  /\ a \div b \in Nat /\ a % b \in 0 .. b - 1
         /\ a = (a \div b) * b + (a % b)
OBVIOUS

LEMMA DivModUnique ==
  ASSUME NEW q \in Nat, NEW b \in Nat \ {0}, NEW r \in 0 .. b - 1
  PROVE  (q * b + r) \div b = q /\ (q * b + r) % b = r
<1> DEFINE a == q * b + r
           d == q - (a \div b)
<1>1. a \in Nat
  OBVIOUS
<1>2. /\ a \div b \in Nat /\ a % b \in 0 .. b - 1
      /\ q * b + r = (a \div b) * b + (a % b)
  BY <1>1, DivMod
<1>3. d \in Int /\ d * b = (a % b) - r
  BY <1>2
<1>4. ~(d >= 1)
  <2>1. d >= 1 => d * b >= b
    BY <1>3
  <2> QED
    BY <1>2, <1>3, <2>1
<1>5. ~(d <= -1)
  <2>1. d <= -1 => d * b <= -b
    BY <1>3
  <2> QED
    BY <1>2, <1>3, <2>1
<1>6. d = 0
  BY <1>3, <1>4, <1>5
<1> QED
  BY <1>2, <1>3, <1>6

LEMMA Small ==
  ASSUME NEW a \in Nat, NEW b \in Nat \ {0}, a < b
  PROVE  a % b = a
<1>1. a \in 0 .. b - 1 /\ 0 * b + a = a
  OBVIOUS
<1> QED
  BY <1>1, DivModUnique

(* A page that begins in a file is one of its pages.                       *)
LEMMA PageInFile ==
  ASSUME NEW k \in Nat, NEW size \in Nat, NEW b \in Nat \ {0}, k * b < size
  PROVE  k < (size + b - 1) \div b
<1> DEFINE a == size + b - 1
           q == a \div b
<1>1. a \in Nat /\ k * b \in Nat
  OBVIOUS
<1>2. q \in Nat /\ a % b \in 0 .. b - 1 /\ a = q * b + (a % b)
  BY <1>1, DivMod
<1>3. a >= k * b + b
  BY <1>1
<1>4. q * b > k * b
  <2> HIDE DEF q, a
  <2>1. q * b \in Nat
    BY <1>2
  <2> QED
    BY <1>1, <1>2, <1>3, <2>1
<1> HIDE DEF q
<1>5. ~(q <= k)
  <2>1. q <= k => q * b <= k * b
    BY <1>2
  <2> QED
    BY <1>1, <1>2, <1>4, <2>1
<1> QED
  BY <1>2, <1>5 DEF q

-----------------------------------------------------------------------------
(* What an image holds.                                                    *)

LEMMA Constants ==
  /\ BYTE \in Nat \ {0} /\ PERM \in Nat \ {0} /\ WORD \in Nat \ {0}
  /\ LINK \in Nat \ {0} /\ PAGE_CACHE_SIZE \in Nat \ {0} /\ Wanted \subseteq Nat
  /\ \A m \in Mounts : TablesOK(sbi[m])
  BY ToolAssumption, ImageAssumption

(* No region is read twice.                                                *)
LEMMA RegionsDiffer ==
  /\ Len(Regions) = 18 /\ DOMAIN Regions = 1 .. 18
  /\ \A j, k \in 1 .. 18 : Regions[j] = Regions[k] => j = k
  BY DEF Regions

(* Once nothing is missing, every region is in memory.                     *)
LEMMA AllLoaded ==
  ASSUME Memory, ~Missing, NEW k \in 1 .. 18
  PROVE  loaded[Regions[k]] = region[image][Regions[k]]
<1>1. Cardinality(DOMAIN loaded) \in Nat
  BY FS_CardinalityType DEF Memory
<1>2. Cardinality(DOMAIN loaded) = 18
  BY <1>1, RegionsDiffer DEF Memory, Missing
<1> QED
  BY <1>2 DEF Memory

Names == {"xip", "byte_aligned", "node_type", "node_index", "cnode_offset",
  "cnode_index", "banode_offset", "cblock_offset", "inode_file_size",
  "inode_name_offset", "inode_num_entries", "inode_mode_index",
  "inode_array_index", "modes"}

LEMMA InMemory ==
  ASSUME Memory, ~Missing, NEW name \in Names
  PROVE  loaded[name] = region[image][name]
<1>1. \E k \in 1 .. 18 : name = Regions[k]
  BY DEF Names, Regions
<1> QED
  BY <1>1, AllLoaded

(* What the tool looks up in a table is what the table holds.              *)
LEMMA LookedUp ==
  ASSUME Memory, ~Missing, NEW name \in Names, NEW f,
         Stores(image, name, f), NEW i \in Nat, In(name, i)
  PROVE  i \in DOMAIN f /\ Get(name, i) = f[i]
<1>1. loaded[name] = region[image][name]
  BY InMemory
<1>2. i < region[image][name].max_index /\ region[image][name].max_index \in Nat
  BY <1>1 DEF In, Stores
<1>3. i \in DOMAIN f
  BY <1>2 DEF Stores
<1> QED
  BY <1>1, <1>3 DEF Get, Stores

LEMMA Tables ==
  ASSUME AllLaidOut, Memory, ~Missing, NEW i \in Nat
  PROVE  /\ In("inode_file_size", i) =>
              /\ i \in DOMAIN sbi[image].inode_file_size
              /\ Get("inode_file_size", i) = sbi[image].inode_file_size[i]
              /\ sbi[image].inode_file_size[i] \in Nat
         /\ In("inode_array_index", i) =>
              /\ Get("inode_array_index", i) = sbi[image].inode_array_index[i]
              /\ sbi[image].inode_array_index[i] \in Nat
         /\ In("inode_num_entries", i) => Get("inode_num_entries", i) \in Nat
         /\ In("node_type", i) => Get("node_type", i) = sbi[image].node_type[i]
         /\ In("node_index", i) =>
              /\ Get("node_index", i) = sbi[image].node_index[i]
              /\ sbi[image].node_index[i] \in Nat
         /\ In("cnode_offset", i) =>
              /\ Get("cnode_offset", i) = sbi[image].cnode_offset[i]
              /\ sbi[image].cnode_offset[i] \in Nat
         /\ In("cnode_index", i) =>
              /\ Get("cnode_index", i) = sbi[image].cnode_index[i]
         /\ In("banode_offset", i) =>
              /\ Get("banode_offset", i) = sbi[image].banode_offset[i]
              /\ sbi[image].banode_offset[i] \in Nat
         /\ In("cblock_offset", i) => Get("cblock_offset", i) = packed[image][i]
<1>1. image \in Mounts /\ TablesOK(sbi[image]) /\ StoresTables(image)
  BY Constants DEF Memory, AllLaidOut, LaidOut
<1>2. In("inode_file_size", i) =>
        /\ i \in DOMAIN sbi[image].inode_file_size
        /\ Get("inode_file_size", i) = sbi[image].inode_file_size[i]
        /\ sbi[image].inode_file_size[i] \in Nat
  BY <1>1, LookedUp DEF Names, StoresTables, TablesOK
<1>3. In("inode_array_index", i) =>
        /\ Get("inode_array_index", i) = sbi[image].inode_array_index[i]
        /\ sbi[image].inode_array_index[i] \in Nat
  BY <1>1, LookedUp DEF Names, StoresTables, TablesOK
<1>4. In("inode_num_entries", i) => Get("inode_num_entries", i) \in Nat
  BY <1>1, LookedUp DEF Names, StoresTables
<1>5. In("node_type", i) => Get("node_type", i) = sbi[image].node_type[i]
  BY <1>1, LookedUp DEF Names, StoresTables
<1>6. In("node_index", i) =>
        /\ Get("node_index", i) = sbi[image].node_index[i]
        /\ sbi[image].node_index[i] \in Nat
  BY <1>1, LookedUp DEF Names, StoresTables, TablesOK
<1>7. In("cnode_offset", i) =>
        /\ Get("cnode_offset", i) = sbi[image].cnode_offset[i]
        /\ sbi[image].cnode_offset[i] \in Nat
  BY <1>1, LookedUp DEF Names, StoresTables, TablesOK
<1>8. In("cnode_index", i) => Get("cnode_index", i) = sbi[image].cnode_index[i]
  BY <1>1, LookedUp DEF Names, StoresTables
<1>9. In("banode_offset", i) =>
        /\ Get("banode_offset", i) = sbi[image].banode_offset[i]
        /\ sbi[image].banode_offset[i] \in Nat
  BY <1>1, LookedUp DEF Names, StoresTables, TablesOK
<1>10. In("cblock_offset", i) => Get("cblock_offset", i) = packed[image][i]
  BY <1>1, LookedUp DEF Names, StoresTables
<1> QED
  BY <1>2, <1>3, <1>4, <1>5, <1>6, <1>7, <1>8, <1>9, <1>10

-----------------------------------------------------------------------------
(* The memory.                                                             *)
LEMMA MemoryInit == Init => Memory
  BY FS_EmptySet, RegionsDiffer DEF Init, Memory

LEMMA MemoryNext == Memory /\ [Next \/ Gone]_vars => Memory'
<1> SUFFICES ASSUME Memory, [Next \/ Gone]_vars PROVE Memory'
  OBVIOUS
<1>1. CASE Open
  BY <1>1 DEF Open, Abort, Memory
<1>2. CASE LoadRegion
  <2> DEFINE n == Cardinality(DOMAIN loaded)
             name == Regions[n + 1]
  <2>1. n \in Nat /\ n < 18 /\ Len(Regions) = 18
    BY <1>2, FS_CardinalityType, RegionsDiffer DEF Memory, LoadRegion, Missing
  <2>2. CASE ~Loadable(region[image][name])
    BY <1>2, <2>2 DEF LoadRegion, Abort, Memory
  <2>3. CASE Loadable(region[image][name])
    <3>1. /\ loaded' = [x \in DOMAIN loaded \cup {name} |->
                          IF x = name THEN region[image][x] ELSE loaded[x]]
          /\ UNCHANGED <<pc, image, wanted>> /\ pc = "load"
      BY <1>2, <2>3 DEF LoadRegion
    <3>2. DOMAIN loaded' = DOMAIN loaded \cup {name}
      BY <3>1
    <3>3. DOMAIN loaded = {Regions[k] : k \in 1 .. n}
      BY DEF Memory
    <3>4. name \notin DOMAIN loaded
      <4> HIDE DEF n
      <4>1. \A k \in 1 .. n : k \in 1 .. 18 /\ n + 1 \in 1 .. 18 /\ k # n + 1
        BY <2>1
      <4> QED
        BY <3>3, <4>1, RegionsDiffer
    <3>5. IsFiniteSet(DOMAIN loaded') /\ Cardinality(DOMAIN loaded') = n + 1
      <4>1. IsFiniteSet(DOMAIN loaded)
        BY DEF Memory
      <4> HIDE DEF name
      <4> QED
        BY <3>2, <3>4, <4>1, FS_AddElement
    <3>6. DOMAIN loaded' = {Regions[k] : k \in 1 .. n + 1}
      <4> HIDE DEF n
      <4>1. 1 .. n + 1 = (1 .. n) \cup {n + 1}
        BY <2>1
      <4> QED
        BY <3>2, <3>3, <4>1
    <3>7. \A x \in DOMAIN loaded' : loaded'[x] = region[image][x]
      BY <3>1, <3>2 DEF Memory
    <3> HIDE DEF n, name
    <3>8. DOMAIN loaded' = {Regions[k] : k \in 1 .. Cardinality(DOMAIN loaded')}
      BY <3>5, <3>6
    <3>9. Cardinality(DOMAIN loaded') <= Len(Regions)
      BY <2>1, <3>5
    <3> QED
      BY <3>1, <3>5, <3>7, <3>8, <3>9 DEF Memory
  <2> QED
    BY <2>2, <2>3
<1>3. CASE Loaded
  BY <1>3 DEF Loaded, Abort, Memory, Missing
<1>4. CASE LsEntry
  BY <1>4 DEF LsEntry, Abort, Memory, Missing
<1>5. CASE LsLink
  BY <1>5 DEF LsLink, Abort, Memory, Missing
<1>6. CASE LsReturn
  BY <1>6 DEF LsReturn, Memory, Missing
<1>7. CASE ReadNode
  BY <1>7 DEF ReadNode, ReadAligned, ReadXip, ReadCompressed, Copied, Abort, Memory, Missing
<1>8. CASE LsTerminate \/ LsPrint \/ ReadReturns
  BY <1>8 DEF LsTerminate, LsPrint, ReadReturns, Memory, Missing
<1>9. CASE UNCHANGED vars
  BY <1>9 DEF vars, Memory, Missing
<1> QED
  BY <1>1, <1>2, <1>3, <1>4, <1>5, <1>6, <1>7, <1>8, <1>9 DEF Next, Gone

-----------------------------------------------------------------------------
(* The calls of ls.                                                        *)
LEMMA CallsFacts ==
  ASSUME Calls, pc = "ls" \/ frames # <<>>
  PROVE  /\ Len(frames) \in Nat \ {0} /\ Top \in FrameType
         /\ Entry \in Nat /\ Advanced \in Seq(FrameType)
         /\ Len(Advanced) = Len(frames)
<1>1. frames \in Seq(FrameType) /\ frames # <<>>
  BY DEF Calls
<1>2. Len(frames) \in Nat \ {0}
  BY <1>1
<1>3. Top \in FrameType
  BY <1>1, <1>2 DEF Top
<1>4. Entry \in Nat
  BY <1>3 DEF Entry, FrameType
<1> DEFINE e == [Top EXCEPT !.i = Top.i + 1]
<1>5. e \in FrameType
  BY <1>3 DEF FrameType
<1>6. Advanced = [frames EXCEPT ![Len(frames)] = e]
  BY DEF Advanced, Top
<1> HIDE DEF e
<1>7. Advanced \in Seq(FrameType) /\ Len(Advanced) = Len(frames)
  BY <1>1, <1>2, <1>5, <1>6, ExceptSeq
<1> QED
  BY <1>2, <1>3, <1>4, <1>7

LEMMA FrameIs ==
  ASSUME AllLaidOut, Memory, ~Missing, NEW id \in Nat,
         In("inode_num_entries", id), In("inode_array_index", id)
  PROVE  Frame(id) \in FrameType
  BY Tables DEF Frame, FrameType

LEMMA CallsInit == Init => Calls
  BY DEF Init, Calls

LEMMA CallsNext ==
  AllLaidOut /\ Memory /\ Calls /\ [Next \/ Gone]_vars => Calls'
<1> SUFFICES ASSUME AllLaidOut, Memory, Calls, [Next \/ Gone]_vars PROVE Calls'
  OBVIOUS
<1>1. CASE Open
  BY <1>1 DEF Open, Abort, Calls
<1>2. CASE LoadRegion
  BY <1>2 DEF LoadRegion, Abort, Calls
<1>3. CASE Loaded
  <2>1. CASE In("inode_num_entries", 0) /\ In("inode_array_index", 0)
    <3>1. frames' = <<Frame(0)>> /\ ~Missing
      BY <1>3, <2>1 DEF Loaded
    <3>2. Frame(0) \in FrameType
      BY <2>1, <3>1, FrameIs
    <3> QED
      BY <3>1, <3>2 DEF Calls
  <2> QED
    BY <1>3, <2>1 DEF Loaded, Abort, Calls
<1>4. CASE LsEntry
  <2>0. pc = "ls" /\ ~Missing /\ Entry \in Nat /\ Calls
    BY <1>4, CallsFacts DEF LsEntry, Memory
  <2>1. \/ UNCHANGED frames /\ pc' = "aborted"
        \/ pc' = pc /\ frames' = Advanced
        \/ /\ pc' = pc /\ frames' = Descended(Entry)
           /\ In("inode_num_entries", Entry) /\ In("inode_array_index", Entry)
    BY <1>4 DEF LsEntry, Abort
  <2>2. /\ Advanced \in Seq(FrameType) /\ Len(Advanced) = Len(frames)
        /\ Len(frames) \in Nat \ {0}
    BY <2>0, CallsFacts
  <2>3. CASE UNCHANGED frames /\ pc' = "aborted"
    BY <2>3 DEF Calls
  <2>4. CASE pc' = pc /\ frames' = Advanced
    BY <2>2, <2>4 DEF Calls
  <2>5. CASE /\ pc' = pc /\ frames' = Descended(Entry)
             /\ In("inode_num_entries", Entry) /\ In("inode_array_index", Entry)
    <3>1. Frame(Entry) \in FrameType
      BY <2>0, <2>5, FrameIs
    <3>2. Descended(Entry) \in Seq(FrameType) /\ Descended(Entry) # <<>>
      BY <2>2, <3>1, AppendProperties DEF Descended
    <3> QED
      BY <2>5, <3>2 DEF Calls
  <2> QED
    BY <2>1, <2>3, <2>4, <2>5
<1>5. CASE LsLink
  BY <1>5 DEF LsLink, Abort, Calls
<1>6. CASE LsReturn
  <2>1. /\ pc = "ls" /\ frames' = SubSeq(frames, 1, Len(frames) - 1)
        /\ pc' = "ls" => frames' # <<>>
        /\ pc' # "print"
    BY <1>6 DEF LsReturn
  <2>2. frames \in Seq(FrameType) /\ Len(frames) \in Nat \ {0}
    BY <2>1, CallsFacts DEF Calls
  <2>3. \A k \in 1 .. Len(frames) - 1 : frames[k] \in FrameType
    BY <2>2, LenProperties
  <2>4. SubSeq(frames, 1, Len(frames) - 1) \in Seq(FrameType)
    BY <2>2, <2>3, SubSeqProperties
  <2> QED
    BY <2>1, <2>4 DEF Calls
<1>7. CASE ReadNode
  BY <1>7 DEF ReadNode, ReadAligned, ReadXip, ReadCompressed, Copied, Abort, Calls
<1>8. CASE LsTerminate \/ LsPrint \/ ReadReturns
  <2>1. CASE LsTerminate \/ ReadReturns
    BY <2>1 DEF LsTerminate, ReadReturns, Calls
  <2>2. CASE LsPrint
    <3>1. frames # <<>> /\ frames' = Advanced /\ pc' = "ls"
      BY <2>2 DEF LsPrint, Calls
    <3>2. Advanced \in Seq(FrameType) /\ Len(Advanced) \in Nat \ {0}
      BY <3>1, CallsFacts
    <3> QED
      BY <3>1, <3>2 DEF Calls
  <2> QED
    BY <1>8, <2>1, <2>2
<1>9. CASE UNCHANGED vars
  BY <1>9 DEF vars, Calls
<1> QED
  BY <1>1, <1>2, <1>3, <1>4, <1>5, <1>6, <1>7, <1>8, <1>9 DEF Next, Gone

-----------------------------------------------------------------------------
(* The buffer.                                                             *)

(* It has the cblock that is asked for, whether it had it or inflates it.  *)
LEMMA HeldRight ==
  ASSUME AllLaidOut, Memory, ~Missing, Buffered, NEW c \in Blocks,
         In("cblock_offset", c + 1)
  PROVE  /\ DOMAIN Held(c) = 0 .. CblockSize - 1
         /\ \/ c \in sbi[image].bad_cblocks
            \/ \A i \in 0 .. sbi[image].cblock_len[c] - 1 :
                 Held(c)[i] = CBlockByte(image, c, i)
<1>1. /\ TablesOK(sbi[image]) /\ c \in Nat /\ NoBlock \notin Blocks
      /\ sbi[image].cblock_len[c] \in 1 .. CblockSize /\ CblockSize \in Nat
  <2>1. TablesOK(sbi[image])
    BY Constants DEF Memory
  <2>2. Blocks \subseteq Nat
    BY <2>1 DEF TablesOK, Blocks
  <2>3. sbi[image].cblock_len[c] \in 1 .. CblockSize /\ CblockSize \in Nat
    BY <2>1 DEF TablesOK, Blocks, CblockSize
  <2> QED
    BY <2>1, <2>2, <2>3 DEF NoBlock
<1>2. CASE IsCached(c)
  <2>1. Held(c) = cblock_buffer /\ c = cachedBlock
    BY <1>2 DEF Held, IsCached
  <2>2. cachedBlock # NoBlock
    BY <1>1, <2>1
  <2> QED
    BY <2>1, <2>2 DEF Buffered
<1>3. CASE ~IsCached(c)
  <2> DEFINE from == packed[image][c]
             len == packed[image][c + 1] - from
  <2>1. c + 1 \in Nat
    BY <1>1
  <2>2. In("cblock_offset", c)
    <3>1. image \in Mounts /\ StoresTables(image)
      BY DEF AllLaidOut, LaidOut, Memory
    <3>2. loaded["cblock_offset"].max_index \in Nat
      BY <3>1, InMemory DEF StoresTables, Stores, Names
    <3> QED
      BY <1>1, <3>2 DEF In
  <2>3. /\ Get("cblock_offset", c) = packed[image][c]
        /\ Get("cblock_offset", c + 1) = packed[image][c + 1]
    BY <1>1, <2>1, <2>2, Tables
  <2>4. Held(c) = Inflated(from, len)
    BY <1>3, <2>3 DEF Held
  <2> DEFINE there == {d \in Blocks \ sbi[image].bad_cblocks :
                         packed[image][d] = from /\ packed[image][d + 1] - from = len}
  <2>5. c \notin sbi[image].bad_cblocks => there = {c}
    <3>1. \A d \in Blocks : packed[image][d] = packed[image][c] => d = c
      BY DEF AllLaidOut, LaidOut, Memory, Blocks
    <3> QED
      BY <3>1
  <2> HIDE DEF from, len
  <2>6. Inflated(from, len) =
          [i \in DOMAIN cblock_buffer |->
             IF there = {} THEN Junk
             ELSE IF i < sbi[image].cblock_len[CHOOSE d \in there : TRUE]
                  THEN CBlockByte(image, CHOOSE d \in there : TRUE, i)
                  ELSE cblock_buffer[i]]
    BY DEF Inflated
  <2> HIDE DEF there
  <2>7. ASSUME c \notin sbi[image].bad_cblocks,
               NEW i \in 0 .. sbi[image].cblock_len[c] - 1
        PROVE  Inflated(from, len)[i] = CBlockByte(image, c, i)
    <3>1. (CHOOSE d \in there : TRUE) = c /\ there # {}
      BY <2>5, <2>7
    <3>2. i \in DOMAIN cblock_buffer /\ i < sbi[image].cblock_len[c]
      BY <1>1 DEF Buffered
    <3> QED
      BY <2>6, <3>1, <3>2
  <2> QED
    BY <2>4, <2>6, <2>7 DEF Buffered
<1> QED
  BY <1>2, <1>3

-----------------------------------------------------------------------------
(* A piece of the file.                                                    *)

Page(k) == [m |-> image, ino |-> rd.id, index |-> k]

LEMMA PageIs ==
  ASSUME NEW k \in Nat, NEW j \in 0 .. PAGE_CACHE_SIZE - 1
  PROVE  /\ PageOf(rd.id, k * PAGE_CACHE_SIZE + j) = Page(k)
         /\ (k * PAGE_CACHE_SIZE + j) % PAGE_CACHE_SIZE = j
  BY Constants, DivModUnique DEF PageOf, Page

(* Where the call stands, at page k of its inode.                          *)
Stands(k) ==
  /\ k \in Nat
  /\ Len(out) = k * PAGE_CACHE_SIZE /\ Len(out) \in Nat
  /\ rd.length \in 1 .. WORD - 1
  /\ rd.node = ArrayIndex(Page(k)) /\ rd.node \in Nat
  /\ sbi[image].inode_array_index[rd.id] \in Nat
  /\ FileSize(Page(k)) \in Nat /\ InFile(Page(k))
  /\ rd.length <= FileSize(Page(k)) - k * PAGE_CACHE_SIZE
  /\ StoredOK(Page(k))
  /\ rd.length = Total - k * PAGE_CACHE_SIZE
  /\ NodeType(Page(k)) = XIP =>
       /\ PAGE_CACHE_SIZE <= rd.length \/ Overreaches
       /\ StoresBytes(image, "xip", NodeIndex(Page(k)) * PAGE_CACHE_SIZE,
            NodeIndex(Page(k)) * PAGE_CACHE_SIZE + PAGE_CACHE_SIZE, XIPByte)
  /\ NodeType(Page(k)) = Compressed =>
       Least(sbi[image].cblock_size - CnodeOffset(Page(k)),
             FileSize(Page(k)) - k * PAGE_CACHE_SIZE) = FileBytes(Page(k))

LEMMA StandsSomewhere ==
  ASSUME AllLaidOut, Memory, Reading, rd.length > 0
  PROVE  \E k \in Nat : Stands(k)
<1>1. PICK k \in Nat :
        /\ Len(out) = k * PAGE_CACHE_SIZE
        /\ rd.node = sbi[image].inode_array_index[rd.id] + k
  BY DEF Reading, Called
<1> DEFINE size == sbi[image].inode_file_size[rd.id]
           r == Page(k)
<1>2. /\ size \in Nat /\ size < WORD
      /\ sbi[image].inode_array_index[rd.id] \in Nat
      /\ IsLink(image, rd.id) => Readable(image, rd.id, Least(size, LINK))
      /\ rd.id \in Wanted => Readable(image, rd.id, size)
  BY Constants DEF AllLaidOut, LaidOut, Memory, Reading, Called, TablesOK
<1>3. FileSize(r) = size /\ FileSize(PageOf(rd.id, 0)) = size
  BY DEF FileSize, Page, PageOf
<1>4. Readable(image, rd.id, Total)
  <2>1. Least(size, size) = size
    BY DEF Least
  <2> QED
    BY <1>2, <1>3, <2>1 DEF Reading, Called, Total
<1>5. Total \in Nat /\ Total <= size
  BY <1>2, <1>3, Constants DEF Total, Least, Reading, Called
<1>6. k * PAGE_CACHE_SIZE \in Nat /\ Len(out) \in 0 .. Total - 1
  BY <1>1, <1>5, Constants DEF Reading, Called
<1>7. PageOf(rd.id, Len(out)) = r
  <2>1. 0 \in 0 .. PAGE_CACHE_SIZE - 1 /\ Len(out) = k * PAGE_CACHE_SIZE + 0
    BY <1>1, <1>6, Constants
  <2> QED
    BY <2>1, PageIs
<1>8. r = [m |-> image, ino |-> rd.id, index |-> Len(out) \div PAGE_CACHE_SIZE]
  BY <1>7 DEF PageOf
<1>9. /\ StoredOK(r)
      /\ NodeType(r) = XIP =>
           StoresBytes(image, "xip", NodeIndex(r) * PAGE_CACHE_SIZE,
             NodeIndex(r) * PAGE_CACHE_SIZE + PAGE_CACHE_SIZE, XIPByte)
      /\ NodeType(r) = Compressed =>
           Least(sbi[image].cblock_size - CnodeOffset(r),
                 FileSize(r) - r.index * PAGE_CACHE_SIZE) = FileBytes(r)
  <2> HIDE DEF r
  <2> QED
    BY <1>4, <1>6, <1>8 DEF Readable
<1>10. r.index = k
  BY DEF Page
<1>11. rd.node = ArrayIndex(r) /\ rd.node \in Nat
  BY <1>1, <1>2 DEF ArrayIndex, Page
<1>12. InFile(r)
  <2>1. k * PAGE_CACHE_SIZE < size
    BY <1>1, <1>2, <1>5, <1>6
  <2> HIDE DEF size
  <2>2. k < (size + PAGE_CACHE_SIZE - 1) \div PAGE_CACHE_SIZE
    BY <1>2, <2>1, PageInFile, Constants
  <2> HIDE DEF r
  <2> QED
    BY <1>3, <1>10, <2>2 DEF InFile, MaxBlock
<1>13. rd.length \in 1 .. WORD - 1 /\ rd.length = Total - k * PAGE_CACHE_SIZE
  <2>1. rd.length \in Nat /\ Len(out) + rd.length = Total
    BY DEF Reading, Called
  <2> HIDE DEF size
  <2> QED
    BY <1>1, <1>2, <1>5, <1>6, <2>1, Constants
<1>14. NodeType(r) = XIP => PAGE_CACHE_SIZE <= rd.length \/ Overreaches
  <2> SUFFICES ASSUME NodeType(r) = XIP, ~(PAGE_CACHE_SIZE <= rd.length)
               PROVE  Overreaches
    OBVIOUS
  <2>1. rd.length \in 0 .. PAGE_CACHE_SIZE - 1 /\ rd.length # 0
    BY <1>13, Constants
  <2>2. Total = k * PAGE_CACHE_SIZE + rd.length
    BY <1>5, <1>6, <1>13, <2>1
  <2>3. PageOf(rd.id, Total) = r /\ Total % PAGE_CACHE_SIZE = rd.length
    BY <2>1, <2>2, PageIs
  <2> QED
    BY <2>1, <2>3 DEF Overreaches
<1>15. rd.length <= size - k * PAGE_CACHE_SIZE
  BY <1>2, <1>5, <1>6, <1>13
<1> HIDE DEF size, r
<1>16. Stands(k)
  BY <1>1, <1>2, <1>3, <1>6, <1>9, <1>10, <1>11, <1>12, <1>13, <1>14, <1>15
  DEF Stands, r
<1> QED
  BY <1>16

(* The bytes of the page that the call wants.                              *)
Piece == Least(PAGE_CACHE_SIZE, rd.length)

(* A byte of page r is right, before a step and behind it.                 *)
LEMMA RightNow ==
  ASSUME NEW i, NEW r, r = PageOf(rd.id, i - 1), Right(i)
  PROVE  out[i] = NodeByte(r, (i - 1) % PAGE_CACHE_SIZE) \/ Corrupt(r)
BY DEF Right

LEMMA RightNext ==
  ASSUME NEW i, NEW r, r = PageOf(rd.id, i - 1)',
         out'[i] = NodeByte(r, (i - 1) % PAGE_CACHE_SIZE) \/ Corrupt(r)
  PROVE  Right(i)'
BY DEF Right, NodeByte, Corrupt, InFile, MaxBlock, FileSize, NodeType,
       NodeIndex, CnodeIndex, CnodeOffset, BanodeOffset, ArrayIndex

(* As long as a call goes on, it is asked for the same.                    *)
LEMMA OverreachesKept ==
  ASSUME UNCHANGED image, rd'.id = rd.id, rd'.cap = rd.cap
  PROVE  /\ Total' = Total /\ Overreaches' = Overreaches
         /\ FileSize(PageOf(rd.id, 0))' = FileSize(PageOf(rd.id, 0))
<1>1. /\ Total' = Total
      /\ FileSize(PageOf(rd.id, 0))' = FileSize(PageOf(rd.id, 0))
  BY DEF Total, FileSize, PageOf
<1>2. PageOf(rd.id, Total)' = PageOf(rd.id, Total)
  BY <1>1 DEF PageOf
<1>3. NodeType(PageOf(rd.id, Total))' = NodeType(PageOf(rd.id, Total))
  BY <1>2 DEF NodeType, ArrayIndex
<1> QED
  BY <1>1, <1>3 DEF Overreaches

(* A piece that is copied brings the call to the next page, or to the end. *)
LEMMA PieceCopied ==
  ASSUME Reading, NEW k \in Nat, Stands(k), NEW src, IsSeq(src),
         Len(src) = Piece, Copied(src), UNCHANGED image,
         \A j \in 1 .. Piece :
           src[j] = NodeByte(Page(k), j - 1) \/ Corrupt(Page(k))
  PROVE  Reading' /\ Fits'
<1> DEFINE n == Len(src)
<1>1. /\ n \in Nat \ {0} /\ n <= PAGE_CACHE_SIZE /\ n <= rd.length
      /\ n < rd.length => n = PAGE_CACHE_SIZE
  BY Constants DEF Piece, Least, Stands
<1>2. /\ out' = out \o src
      /\ rd' = [rd EXCEPT !.length = (@ - n) % WORD, !.node = @ + 1]
  BY DEF Copied
<1>3. /\ IsSeq(out') /\ Len(out') = Len(out) + n
      /\ \A i \in 1 .. Len(out) : out'[i] = out[i]
      /\ \A j \in 1 .. n : out'[Len(out) + j] = src[j]
  <2>1. IsSeq(out)
    BY DEF Reading, Called
  <2>2. /\ IsSeq(out \o src) /\ Len(out \o src) = Len(out) + n
        /\ \A i \in 1 .. Len(out) : (out \o src)[i] = out[i]
        /\ \A j \in 1 .. n : (out \o src)[Len(out) + j] = src[j]
    BY <2>1, Joined
  <2> QED
    BY <1>2, <2>2
<1> HIDE DEF n
<1>4. (rd.length - n) % WORD = rd.length - n
  <2>1. rd.length - n \in Nat /\ rd.length - n < WORD
    BY <1>1, Constants DEF Stands
  <2> QED
    BY <2>1, Small, Constants
<1>5. /\ rd' \in [id : Nat, cap : Nat, length : Nat, node : Nat]
      /\ rd'.id = rd.id /\ rd'.cap = rd.cap
      /\ rd'.length = rd.length - n /\ rd'.node = rd.node + 1
  <2>1. rd \in [id : Nat, cap : Nat, length : Nat, node : Nat]
    BY DEF Reading, Called
  <2>2. rd.length - n \in Nat /\ rd.node + 1 \in Nat
    BY <1>1, <2>1
  <2>3. rd' = [rd EXCEPT !.length = rd.length - n, !.node = rd.node + 1]
    BY <1>2, <1>4
  <2> QED
    BY <2>1, <2>2, <2>3
<1>6. Total' = Total
  BY <1>5 DEF Total, FileSize, PageOf
<1>7. Len(out') + rd'.length = Total
  BY <1>1, <1>3, <1>5 DEF Reading, Called, Stands
<1>8. ASSUME rd'.length > 0
      PROVE  /\ k + 1 \in Nat
             /\ Len(out') = (k + 1) * PAGE_CACHE_SIZE
             /\ rd'.node = sbi[image].inode_array_index[rd.id] + (k + 1)
  <2>1. n = PAGE_CACHE_SIZE
    BY <1>1, <1>5, <1>8 DEF Stands
  <2>2. (k + 1) * PAGE_CACHE_SIZE = k * PAGE_CACHE_SIZE + PAGE_CACHE_SIZE
    BY Constants
  <2>3. rd.node = sbi[image].inode_array_index[rd.id] + k
    BY DEF Stands, ArrayIndex, Page
  <2>4. rd.node + 1 = sbi[image].inode_array_index[rd.id] + (k + 1)
    <3>1. sbi[image].inode_array_index[rd.id] \in Nat
      BY DEF Stands
    <3>2. ASSUME NEW a \in Nat, NEW b, b = a + k PROVE b + 1 = a + (k + 1)
      BY <3>2
    <3> QED
      BY <2>3, <3>1, <3>2, Zenon
  <2> QED
    BY <1>3, <1>5, <2>1, <2>2, <2>4 DEF Stands
<1>9. ASSUME NEW i \in 1 .. Len(out') PROVE Right(i)'
  <2>1. Len(out) \in Nat
    BY DEF Stands
  <2>2. CASE i <= Len(out)
    <3>1. i \in 1 .. Len(out)
      BY <2>1, <2>2
    <3>2. Right(i) /\ out'[i] = out[i]
      BY <1>3, <3>1 DEF Reading, Called
    <3>3. PICK r : r = PageOf(rd.id, i - 1)
      OBVIOUS
    <3>4. r = PageOf(rd.id, i - 1)'
      BY <1>5, <3>3 DEF PageOf
    <3> QED
      BY <3>2, <3>3, <3>4, RightNow, RightNext
  <2>3. CASE ~(i <= Len(out))
    <3> DEFINE j == i - Len(out)
    <3>1. j \in 1 .. n /\ i = Len(out) + j /\ j - 1 \in 0 .. PAGE_CACHE_SIZE - 1
      BY <1>1, <1>3, <2>1, <2>3, Constants
    <3>2. i - 1 = k * PAGE_CACHE_SIZE + (j - 1)
      <4>1. Len(out) = k * PAGE_CACHE_SIZE
        BY DEF Stands
      <4> HIDE DEF j
      <4>2. i - 1 = Len(out) + (j - 1)
        BY <1>1, <2>1, <3>1
      <4> QED
        BY <4>1, <4>2
    <3>3. out'[i] = NodeByte(Page(k), j - 1) \/ Corrupt(Page(k))
      <4> HIDE DEF j
      <4>1. j \in 1 .. Piece
        BY <3>1 DEF n
      <4>2. out'[Len(out) + j] = src[j]
        BY <1>3, <3>1
      <4> QED
        BY <3>1, <4>1, <4>2
    <3> HIDE DEF j
    <3>4. PageOf(rd.id, i - 1) = Page(k) /\ (i - 1) % PAGE_CACHE_SIZE = j - 1
      BY <3>1, <3>2, PageIs DEF Stands
    <3>5. PageOf(rd.id, i - 1)' = Page(k)
      BY <1>5, <3>4 DEF PageOf
    <3>6. PICK r : r = Page(k)
      OBVIOUS
    <3>7. out'[i] = NodeByte(r, (i - 1) % PAGE_CACHE_SIZE) \/ Corrupt(r)
      BY <3>3, <3>4, <3>6
    <3> QED
      BY <3>5, <3>6, <3>7, RightNext
  <2> QED
    BY <2>2, <2>3
<1>10. Reading'
  BY <1>3, <1>5, <1>6, <1>7, <1>8, <1>9 DEF Reading, Called, FileSize, PageOf
<1>11. Fits'
  <2>1. Total' <= rd'.cap /\ rd'.length \in Nat /\ Len(out') \in Nat /\ rd'.cap \in Nat
    <3>1. Len(out) \in Nat /\ FileSize(PageOf(rd.id, 0)) \in Nat
      BY DEF Stands, FileSize, PageOf, Page
    <3>2. rd'.length \in Nat /\ rd'.cap \in Nat /\ rd.cap = rd'.cap
      BY <1>5
    <3>3. Total <= rd.cap
      BY <3>1, <3>2 DEF Total, Least
    <3> QED
      BY <1>1, <1>3, <1>6, <3>1, <3>2, <3>3
  <2> QED
    BY <1>6, <1>7, <2>1 DEF Fits, InRoom
<1> QED
  BY <1>10, <1>11

(* The bytes of the piece all lie in the page, and in the file.            *)
LEMMA PieceBytes ==
  ASSUME NEW k \in Nat, Stands(k)
  PROVE  /\ Piece \in Nat \ {0} /\ Piece <= PAGE_CACHE_SIZE /\ Piece <= rd.length
         /\ Piece <= FileBytes(Page(k)) /\ FileBytes(Page(k)) \in Nat
<1>1. /\ rd.length \in Nat \ {0} /\ Len(out) = k * PAGE_CACHE_SIZE /\ Len(out) \in Nat
      /\ FileSize(Page(k)) \in Nat
      /\ rd.length <= FileSize(Page(k)) - Len(out)
      /\ Page(k).index = k
  BY DEF Stands, Page
<1>2. FileBytes(Page(k)) = LET rest == FileSize(Page(k)) - Len(out)
                           IN  IF rest < PAGE_CACHE_SIZE THEN rest ELSE PAGE_CACHE_SIZE
  BY <1>1 DEF FileBytes
<1> QED
  BY <1>1, <1>2, Constants DEF Piece, Least

(* What readFile looks up of the node it stands at.                        *)
LEMMA NodeIs ==
  ASSUME AllLaidOut, Memory, ~Missing, NEW k \in Nat, Stands(k), NodeThere
  PROVE  /\ Get("node_type", rd.node) = NodeType(Page(k))
         /\ Get("node_index", rd.node) = NodeIndex(Page(k))
         /\ NodeIndex(Page(k)) \in Nat
         /\ Page(k).m = image /\ image \in Mounts /\ TablesOK(sbi[image])
<1>1. rd.node = ArrayIndex(Page(k)) /\ rd.node \in Nat
  BY DEF Stands
<1>2. /\ Get("node_type", rd.node) = sbi[image].node_type[rd.node]
      /\ Get("node_index", rd.node) = sbi[image].node_index[rd.node]
      /\ sbi[image].node_index[rd.node] \in Nat
  BY <1>1, Tables DEF NodeThere
<1> QED
  BY <1>1, <1>2, Constants DEF NodeType, NodeIndex, Page, Memory

LEMMA AlignedRight ==
  ASSUME AllLaidOut, Memory, ~Missing, Reading, NEW k \in Nat, Stands(k),
         NodeThere, ReadAligned, pc' # "aborted"
  PROVE  Reading' /\ Fits'
<1> DEFINE off == Get("banode_offset", Get("node_index", rd.node))
           src == [j \in 1 .. AlignedLength(rd.length) |->
                     Byte("byte_aligned", off + j - 1)]
           r == Page(k)
<1>1. /\ NodeType(r) = Byte_Aligned
      /\ In("banode_offset", NodeIndex(r)) /\ Copied(src) /\ UNCHANGED image
  BY NodeIs DEF ReadAligned, Abort
<1>2. off = BanodeOffset(r) /\ off \in Nat
  BY <1>1, NodeIs, Tables DEF BanodeOffset
<1>3. AlignedLength(rd.length) = Piece
  BY DEF AlignedLength, Piece
<1>4. IsSeq(src) /\ Len(src) = Piece
  <2>1. Piece \in Nat
    BY PieceBytes
  <2> HIDE DEF off
  <2>2. src = [j \in 1 .. Piece |-> src[j]]
    BY <1>3
  <2> HIDE DEF src
  <2> QED
    BY <2>1, <2>2, Listed
<1>5. ASSUME NEW j \in 1 .. Piece PROVE src[j] = NodeByte(r, j - 1)
  <2>1. off + FileBytes(r) <= sbi[image].byte_aligned_size
    BY <1>1, <1>2, NodeIs DEF Stands, StoredOK
  <2>2. /\ Piece \in Nat /\ Piece <= FileBytes(r) /\ FileBytes(r) \in Nat
        /\ sbi[image].byte_aligned_size \in Nat
    BY PieceBytes, NodeIs DEF TablesOK
  <2> HIDE DEF off, r
  <2> DEFINE b == off + j - 1
  <2>3. b \in 0 .. sbi[image].byte_aligned_size - 1 /\ b = off + (j - 1)
    BY <1>2, <2>1, <2>2
  <2>4. src[j] = Byte("byte_aligned", b)
    BY <1>3
  <2> HIDE DEF b, src
  <2>5. loaded["byte_aligned"] = region[image]["byte_aligned"]
    BY InMemory DEF Names
  <2>6. /\ b \in DOMAIN region[image]["byte_aligned"].data
        /\ region[image]["byte_aligned"].data[b] = BAByte(image, b)
    BY <2>3, NodeIs DEF AllLaidOut, LaidOut, StoresBytes
  <2>7. src[j] = BAByte(image, b)
    BY <2>4, <2>5, <2>6 DEF Byte
  <2>8. NodeByte(r, j - 1) = BAByte(image, off + (j - 1))
    BY <1>1, <1>2, NodeIs DEF NodeByte, r, Byte_Aligned, Compressed
  <2> QED
    BY <2>3, <2>7, <2>8
<1> HIDE DEF src
<1> QED
  BY <1>1, <1>4, <1>5, PieceCopied

(* What is copied when the end is passed, or was.                          *)
LEMMA GoesAstray ==
  ASSUME Called, Overreaches, NEW src, IsSeq(src), Copied(src), UNCHANGED image,
         Total \in Nat, Total <= Len(out) + Len(src),
         \A i \in 1 .. Total : i <= Len(out) => Right(i),
         \A i \in 1 .. Total : i > Len(out) =>
           LET q == PageOf(rd.id, i - 1)
           IN  src[i - Len(out)] = NodeByte(q, (i - 1) % PAGE_CACHE_SIZE)
  PROVE  Strays' /\ Fits'
<1> DEFINE n == Len(src)
<1>1. /\ out' = out \o src
      /\ rd' = [rd EXCEPT !.length = (@ - n) % WORD, !.node = @ + 1]
  BY DEF Copied
<1>2. /\ IsSeq(out') /\ Len(out') = Len(out) + n
      /\ Len(out) \in Nat /\ n \in Nat
      /\ \A i \in 1 .. Len(out) : out'[i] = out[i]
      /\ \A j \in 1 .. n : out'[Len(out) + j] = src[j]
  <2>1. IsSeq(out)
    BY DEF Called
  <2> QED
    BY <1>1, <2>1, Joined
<1> HIDE DEF n
<1>3. /\ rd' \in [id : Nat, cap : Nat, length : Nat, node : Nat]
      /\ rd'.id = rd.id /\ rd'.cap = rd.cap /\ rd'.length < WORD
  <2>1. rd \in [id : Nat, cap : Nat, length : Nat, node : Nat]
    BY DEF Called
  <2>2. PICK l : l = (rd.length - n) % WORD
    OBVIOUS
  <2>3. l \in 0 .. WORD - 1
    BY <1>2, <2>1, <2>2, Constants
  <2>4. rd' = [rd EXCEPT !.length = l, !.node = rd.node + 1]
    BY <1>1, <2>2
  <2>5. l \in Nat /\ l < WORD /\ rd.node + 1 \in Nat
    BY <2>1, <2>3, Constants
  <2> QED
    BY <2>1, <2>4, <2>5
<1>4. Total' = Total /\ Overreaches'
  BY <1>3, OverreachesKept
<1>5. ASSUME NEW i \in 1 .. Total PROVE Right(i)'
  <2>1. PICK r : r = PageOf(rd.id, i - 1)
    OBVIOUS
  <2>2. r = PageOf(rd.id, i - 1)'
    BY <1>3, <2>1 DEF PageOf
  <2>3. CASE i <= Len(out)
    <3>1. Right(i) /\ out'[i] = out[i]
      BY <1>2, <2>3
    <3> QED
      BY <2>1, <2>2, <3>1, RightNow, RightNext
  <2>4. CASE ~(i <= Len(out))
    <3>1. PICK j : j = i - Len(out)
      OBVIOUS
    <3>2. j \in 1 .. n /\ i = Len(out) + j
      BY <1>2, <2>4, <3>1 DEF n
    <3>3. out'[i] = src[j]
      BY <1>2, <3>2
    <3>4. i > Len(out)
      BY <1>2, <2>4
    <3>5. src[j] = NodeByte(r, (i - 1) % PAGE_CACHE_SIZE)
      BY <2>1, <3>1, <3>4
    <3> QED
      BY <2>2, <3>3, <3>5, RightNext
  <2> QED
    BY <2>3, <2>4
<1>6. Called'
  BY <1>2, <1>3 DEF Called, FileSize, PageOf
<1>7. Strays'
  BY <1>2, <1>3, <1>4, <1>5, <1>6 DEF Strays, n
<1> QED
  BY <1>4, <1>7 DEF Fits

LEMMA XipRight ==
  ASSUME AllLaidOut, Memory, ~Missing, Reading, NEW k \in Nat, Stands(k),
         NodeThere, ReadXip
  PROVE  (Reading \/ Strays)' /\ Fits'
<1> DEFINE at == Get("node_index", rd.node) * PAGE_CACHE_SIZE
           src == [j \in 1 .. PAGE_CACHE_SIZE |-> Byte("xip", at + j - 1)]
           r == Page(k)
<1>1. NodeType(r) = XIP /\ Copied(src) /\ UNCHANGED image
  BY NodeIs DEF ReadXip
<1>2. at = NodeIndex(r) * PAGE_CACHE_SIZE /\ at \in Nat
  BY NodeIs, Constants
<1>3. /\ PAGE_CACHE_SIZE <= rd.length \/ Overreaches
      /\ StoresBytes(image, "xip", at, at + PAGE_CACHE_SIZE, XIPByte)
  BY <1>1, <1>2 DEF Stands
<1> HIDE DEF at
<1>4. IsSeq(src) /\ Len(src) = PAGE_CACHE_SIZE
  <2>1. src = [j \in 1 .. PAGE_CACHE_SIZE |-> src[j]]
    OBVIOUS
  <2> HIDE DEF src
  <2> QED
    BY <2>1, Listed, Constants
<1>5. ASSUME NEW j \in 1 .. PAGE_CACHE_SIZE PROVE src[j] = NodeByte(r, j - 1)
  <2> DEFINE b == at + j - 1
  <2>1. b \in at .. at + PAGE_CACHE_SIZE - 1 /\ b = at + (j - 1)
    BY <1>2, Constants
  <2>2. src[j] = Byte("xip", b)
    OBVIOUS
  <2> HIDE DEF b, src
  <2>3. loaded["xip"] = region[image]["xip"]
    BY InMemory DEF Names
  <2>4. b \in DOMAIN region[image]["xip"].data /\ region[image]["xip"].data[b] = XIPByte(image, b)
    BY <1>2, <1>3, <2>1, Constants DEF StoresBytes
  <2>5. src[j] = XIPByte(image, b)
    BY <2>2, <2>3, <2>4 DEF Byte
  <2>6. NodeByte(r, j - 1) = XIPByte(image, NodeIndex(r) * PAGE_CACHE_SIZE + (j - 1))
    BY <1>1, NodeIs DEF NodeByte, XIP, Byte_Aligned, Compressed
  <2> QED
    BY <1>2, <2>1, <2>5, <2>6
<1> HIDE DEF src
<1>6. CASE PAGE_CACHE_SIZE <= rd.length
  <2>1. Piece = PAGE_CACHE_SIZE
    BY <1>6, Constants DEF Piece, Least, Stands
  <2> QED
    BY <1>1, <1>4, <1>5, <2>1, PieceCopied
<1>7. CASE ~(PAGE_CACHE_SIZE <= rd.length)
  <2>1. /\ Overreaches /\ Called /\ \A i \in 1 .. Len(out) : Right(i)
        /\ Len(out) \in Nat /\ Total \in Nat
        /\ Len(out) <= Total /\ Total <= Len(out) + Len(src)
    BY <1>3, <1>4, <1>7, Constants DEF Reading, Stands
  <2>2. ASSUME NEW i \in 1 .. Total, i > Len(out)
        PROVE  LET q == PageOf(rd.id, i - 1)
               IN  src[i - Len(out)] = NodeByte(q, (i - 1) % PAGE_CACHE_SIZE)
    <3> DEFINE j == i - Len(out)
    <3>1. j \in 1 .. PAGE_CACHE_SIZE /\ j - 1 \in 0 .. PAGE_CACHE_SIZE - 1
      BY <1>4, <2>1, <2>2, Constants
    <3>2. Len(out) = k * PAGE_CACHE_SIZE
      BY DEF Stands
    <3>3. i - 1 = k * PAGE_CACHE_SIZE + (j - 1)
      BY <2>1, <2>2, <3>2
    <3> HIDE DEF j
    <3>4. PageOf(rd.id, i - 1) = r /\ (i - 1) % PAGE_CACHE_SIZE = j - 1
      BY <3>1, <3>3, PageIs
    <3>5. src[j] = NodeByte(r, j - 1)
      BY <1>5, <3>1
    <3> QED
      BY <3>4, <3>5 DEF j
  <2>3. \A i \in 1 .. Total : i <= Len(out) => Right(i)
    BY <2>1
  <2> HIDE DEF r
  <2>4. Strays' /\ Fits'
    BY <1>1, <1>4, <2>1, <2>2, <2>3, GoesAstray
  <2> QED
    BY <2>4
<1> QED
  BY <1>6, <1>7

LEMMA CompressedRight ==
  ASSUME AllLaidOut, Memory, ~Missing, Buffered, Reading, NEW k \in Nat, Stands(k),
         NodeThere, ReadCompressed, pc' # "aborted"
  PROVE  Reading' /\ Fits' /\ Buffered'
<1> DEFINE r == Page(k)
           off == CnodeOffset(r)
           c == CnodeIndex(r)
           src == [j \in 1 .. Least((CblockSize - off) % WORD, rd.length) |->
                     Buffer(cblock_buffer', off + j - 1)]
<1>1. /\ Get("node_index", rd.node) = NodeIndex(r) /\ NodeIndex(r) \in Nat
      /\ r.m = image /\ image \in Mounts /\ TablesOK(sbi[image])
      /\ NodeType(r) = Compressed
  BY NodeIs DEF ReadCompressed
<1>2. CompressedThere(NodeIndex(r))
  BY <1>1 DEF ReadCompressed, Abort
<1>3. /\ Get("cnode_offset", NodeIndex(r)) = off /\ off \in Nat
      /\ Get("cnode_index", NodeIndex(r)) = c
  BY <1>1, <1>2, Tables DEF CompressedThere, CnodeOffset, CnodeIndex
<1>4. /\ c \in Blocks /\ off + FileBytes(r) <= sbi[image].cblock_len[c]
      /\ sbi[image].cblock_len[c] \in 1 .. CblockSize /\ CblockSize \in Nat
  BY <1>1 DEF Stands, StoredOK, TablesOK, Blocks, CblockSize, CnodeIndex
<1>5. In("cblock_offset", c + 1)
  BY <1>2, <1>3 DEF CompressedThere
<1>6. /\ cachedBlock' = c /\ cblock_buffer' = Held(c)
      /\ Copied(src) /\ UNCHANGED image
  BY <1>1, <1>2, <1>3 DEF ReadCompressed
<1>7. /\ DOMAIN cblock_buffer' = 0 .. CblockSize - 1
      /\ \/ c \in sbi[image].bad_cblocks
         \/ \A i \in 0 .. sbi[image].cblock_len[c] - 1 :
              cblock_buffer'[i] = CBlockByte(image, c, i)
  BY <1>4, <1>5, <1>6, HeldRight
<1>8. Buffered'
  BY <1>4, <1>6, <1>7 DEF Buffered, Blocks, CblockSize
<1>p. /\ Piece \in Nat \ {0} /\ Piece <= PAGE_CACHE_SIZE /\ Piece <= rd.length
      /\ Piece <= FileBytes(r) /\ FileBytes(r) \in Nat
  BY PieceBytes
<1>9. Least((CblockSize - off) % WORD, rd.length) = Piece
  <2> DEFINE rest == FileSize(r) - k * PAGE_CACHE_SIZE
             room == CblockSize - off
  <2>1. /\ Least(room, rest) = FileBytes(r)
        /\ rd.length <= rest /\ rd.length \in Nat /\ k * PAGE_CACHE_SIZE \in Nat
        /\ FileSize(r) \in Nat /\ r.index = k
    BY <1>1 DEF Stands, CblockSize, Page
  <2>2. FileBytes(r) = IF rest < PAGE_CACHE_SIZE THEN rest ELSE PAGE_CACHE_SIZE
    BY <2>1 DEF FileBytes
  <2>3. rest \in Int /\ room \in Int
    BY <1>3, <1>4, <2>1
  <2>4. room % WORD = room
    <3>1. CblockSize < WORD
      BY <1>1 DEF AllLaidOut, LaidOut, CblockSize
    <3>2. /\ off \in Nat /\ CblockSize \in Nat /\ FileBytes(r) \in Nat
          /\ sbi[image].cblock_len[c] \in 1 .. CblockSize
          /\ off + FileBytes(r) <= sbi[image].cblock_len[c]
      BY <1>3, <1>4, <1>p
    <3> HIDE DEF off, r, c, rest
    <3>3. room \in Nat /\ room < WORD
      BY <3>1, <3>2, Constants
    <3> QED
      BY <3>3, Small, Constants
  <2> HIDE DEF rest, room, off, r
  <2> QED
    BY <2>1, <2>2, <2>3, <2>4, Constants DEF Least, Piece, room
<1>10. IsSeq(src) /\ Len(src) = Piece
  <2> HIDE DEF off
  <2>1. src = [j \in 1 .. Piece |-> src[j]]
    BY <1>9
  <2> HIDE DEF src
  <2> QED
    BY <1>p, <2>1, Listed
<1>11. ASSUME NEW j \in 1 .. Piece
       PROVE  src[j] = NodeByte(r, j - 1) \/ Corrupt(r)
  <2> DEFINE b == off + j - 1
  <2>1. CASE c \in sbi[image].bad_cblocks
    BY <1>1, <2>1 DEF Corrupt, Stands
  <2>2. CASE c \notin sbi[image].bad_cblocks
    <3>1. src[j] = Buffer(cblock_buffer', b)
      BY <1>9
    <3> HIDE DEF src, off, r
    <3>2. b \in 0 .. sbi[image].cblock_len[c] - 1 /\ b = off + (j - 1)
      BY <1>3, <1>4, <1>p
    <3>3. Buffer(cblock_buffer', b) = CBlockByte(image, c, b)
      <4>1. b \in DOMAIN cblock_buffer'
        BY <1>4, <1>7, <3>2
      <4> QED
        BY <1>7, <2>2, <3>2, <4>1 DEF Buffer
    <3>4. NodeByte(r, j - 1) = CBlockByte(image, c, off + (j - 1))
      BY <1>1 DEF NodeByte, Byte_Aligned, Compressed, off
    <3> QED
      BY <3>1, <3>2, <3>3, <3>4
  <2> QED
    BY <2>1, <2>2
<1> HIDE DEF src
<1> QED
  BY <1>6, <1>8, <1>10, <1>11, PieceCopied

(* A call that strays goes on to, or is given up.                          *)
LEMMA StraysOn ==
  ASSUME AllLaidOut, Memory, ~Missing, Buffered, Strays, NodeThere,
         ReadAligned \/ ReadXip \/ ReadCompressed, pc' # "aborted"
  PROVE  Strays' /\ Fits' /\ Buffered'
<1>1. /\ Called /\ Overreaches /\ rd.length \in Nat /\ rd.node \in Nat
      /\ Total <= Len(out) /\ \A i \in 1 .. Total : Right(i)
  BY DEF Strays, Called
<1>2. Len(out) \in Nat /\ Total \in Nat
  <2>1. Len(out) \in Nat
    BY <1>1, Joined DEF Called
  <2>2. sbi[image].inode_file_size[rd.id] \in Nat /\ rd.cap \in Nat
    BY <1>1, Constants DEF Called, Memory, TablesOK
  <2> QED
    BY <2>1, <2>2 DEF Total, Least, FileSize, PageOf
<1>3. ASSUME NEW n \in Nat, NEW src, src = [j \in 1 .. n |-> src[j]],
             Copied(src), UNCHANGED image
      PROVE  Strays' /\ Fits'
  <2>1. IsSeq(src) /\ Len(src) = n
    BY <1>3, Listed
  <2>2. Total <= Len(out) + Len(src) /\ \A i \in 1 .. Total : ~(i > Len(out))
    BY <1>1, <1>2, <2>1
  <2> QED
    BY <1>1, <1>2, <1>3, <2>1, <2>2, GoesAstray
<1>4. Get("node_index", rd.node) \in Nat
  BY <1>1, Tables DEF NodeThere
<1>5. CASE ReadAligned
  <2> DEFINE off == Get("banode_offset", Get("node_index", rd.node))
             src == [j \in 1 .. AlignedLength(rd.length) |->
                       Byte("byte_aligned", off + j - 1)]
  <2>1. Copied(src) /\ UNCHANGED <<image, cblock_buffer, cachedBlock>>
    BY <1>5 DEF ReadAligned, Abort
  <2>2. AlignedLength(rd.length) \in Nat
    BY <1>1, Constants DEF AlignedLength, Least
  <2> HIDE DEF off
  <2>3. src = [j \in 1 .. AlignedLength(rd.length) |-> src[j]]
    OBVIOUS
  <2> HIDE DEF src
  <2>4. Strays' /\ Fits'
    BY <1>3, <2>1, <2>2, <2>3
  <2> QED
    BY <2>1, <2>4 DEF Buffered, Blocks, CblockSize
<1>6. CASE ReadXip
  <2> DEFINE at == Get("node_index", rd.node) * PAGE_CACHE_SIZE
             src == [j \in 1 .. PAGE_CACHE_SIZE |-> Byte("xip", at + j - 1)]
  <2>1. Copied(src) /\ UNCHANGED <<image, cblock_buffer, cachedBlock>>
    BY <1>6 DEF ReadXip
  <2> HIDE DEF at
  <2>2. src = [j \in 1 .. PAGE_CACHE_SIZE |-> src[j]]
    OBVIOUS
  <2> HIDE DEF src
  <2>3. Strays' /\ Fits'
    BY <1>3, <2>1, <2>2, Constants
  <2> QED
    BY <2>1, <2>3 DEF Buffered, Blocks, CblockSize
<1>7. CASE ReadCompressed
  <2> DEFINE x == Get("node_index", rd.node)
             off == Get("cnode_offset", x)
             c == Get("cnode_index", x)
             n == Least((CblockSize - off) % WORD, rd.length)
             src == [j \in 1 .. n |-> Buffer(cblock_buffer', off + j - 1)]
  <2>1. CompressedThere(x)
    BY <1>7 DEF ReadCompressed, Abort
  <2>2. /\ cachedBlock' = c /\ cblock_buffer' = Held(c)
        /\ Copied(src) /\ UNCHANGED image
    BY <1>7, <2>1 DEF ReadCompressed
  <2>3. /\ TablesOK(sbi[image]) /\ Stores(image, "cnode_index", sbi[image].cnode_index)
        /\ CblockSize \in Nat
    BY Constants DEF Memory, AllLaidOut, LaidOut, StoresTables, TablesOK, CblockSize
  <2>4. x \in DOMAIN sbi[image].cnode_index /\ c = sbi[image].cnode_index[x]
    BY <1>4, <2>1, <2>3, LookedUp DEF CompressedThere, Names
  <2>5. c \in Blocks /\ In("cblock_offset", c + 1)
    BY <2>1, <2>3, <2>4 DEF TablesOK, Blocks, CompressedThere
  <2>6. off \in Nat
    BY <1>4, <2>1, Tables DEF CompressedThere
  <2> HIDE DEF x, off, c
  <2>7. n \in Nat
    <3>1. (CblockSize - off) % WORD \in Nat
      BY <2>3, <2>6, Constants
    <3> QED
      BY <1>1, <3>1 DEF Least
  <2> HIDE DEF n
  <2>8. src = [j \in 1 .. n |-> src[j]]
    OBVIOUS
  <2> HIDE DEF src
  <2>9. Strays' /\ Fits'
    BY <1>3, <2>2, <2>7, <2>8
  <2>10. Buffered'
    <3>1. /\ DOMAIN Held(c) = 0 .. CblockSize - 1
          /\ \/ c \in sbi[image].bad_cblocks
             \/ \A i \in 0 .. sbi[image].cblock_len[c] - 1 :
                  Held(c)[i] = CBlockByte(image, c, i)
      BY <2>5, HeldRight
    <3> QED
      BY <2>2, <2>5, <3>1 DEF Buffered, Blocks, CblockSize
  <2> QED
    BY <2>9, <2>10
<1> QED
  BY <1>5, <1>6, <1>7

-----------------------------------------------------------------------------
(* The calls of readFile.                                                  *)

LEMMA FileIs ==
  ASSUME AllLaidOut, Memory, ~Missing, NEW id \in Nat, NEW cap \in Nat, FileThere(id),
         \/ IsLink(image, id) /\ cap = LINK
         \/ id \in Wanted /\ cap = Get("inode_file_size", id),
         rd' = ReadFile(id, cap), out' = <<>>, UNCHANGED image
  PROVE  Reading' /\ Fits'
<1> DEFINE size == sbi[image].inode_file_size[id]
<1>1. /\ id \in DOMAIN sbi[image].inode_file_size
      /\ Get("inode_file_size", id) = size /\ size \in Nat
      /\ Get("inode_array_index", id) = sbi[image].inode_array_index[id]
      /\ sbi[image].inode_array_index[id] \in Nat
  BY Tables DEF FileThere
<1>2. /\ rd'.id = id /\ rd'.cap = cap /\ rd'.length = Least(size, cap)
      /\ rd'.node = sbi[image].inode_array_index[id]
      /\ rd' \in [id : Nat, cap : Nat, length : Nat, node : Nat]
  BY <1>1 DEF ReadFile, Least
<1>3. FileSize(PageOf(rd.id, 0))' = size /\ Total' = Least(size, cap)
  BY <1>2 DEF Total, FileSize, PageOf
<1>4. IsSeq(out') /\ Len(out') = 0
  BY DEF IsSeq
<1>5. Least(size, cap) \in Nat
  BY <1>1 DEF Least
<1>6. 0 = 0 * PAGE_CACHE_SIZE /\ rd'.node = sbi[image].inode_array_index[id] + 0
  BY <1>1, <1>2, Constants
<1> HIDE DEF size
<1>7. Reading'
  BY <1>1, <1>2, <1>3, <1>4, <1>5, <1>6 DEF Reading, Called
<1> QED
  BY <1>2, <1>4, <1>7 DEF Fits, InRoom

LEMMA LinkIs ==
  ASSUME Memory, ~Missing, NEW id, Kind(id) = "link"
  PROVE  IsLink(image, id)
<1>1. /\ loaded["modes"] = region[image]["modes"]
      /\ loaded["inode_mode_index"] = region[image]["inode_mode_index"]
  BY InMemory DEF Names
<1>2. KindIn(loaded, id) = KindIn(region[image], id)
  BY <1>1 DEF KindIn
<1> QED
  BY <1>2 DEF IsLink, Kind

LEMMA ToolInit == Init => ToolInv
<1> SUFFICES ASSUME Init PROVE ToolInv
  OBVIOUS
<1>1. Buffered
  BY DEF Init, Buffered
<1>2. Reads
  BY Constants DEF Init, Reads, Fits, InRoom, NoFile
<1> QED
  BY <1>1, <1>2, MemoryInit, CallsInit DEF ToolInv

LEMMA ReadNodeRight ==
  ASSUME AllLaidOut, Memory, Buffered, Reads, ReadNode
  PROVE  Buffered' /\ Reads'
<1>1. pc = "read" /\ rd.length > 0 /\ (Reading \/ Strays) /\ ~Missing
  BY DEF ReadNode, Reads, Memory
<1>2. CASE pc' = "aborted"
  <2>1. UNCHANGED <<rd, out, cblock_buffer, cachedBlock, image>>
    BY <1>1, <1>2 DEF ReadNode, ReadAligned, ReadXip, ReadCompressed, Abort
  <2>2. InRoom' = InRoom /\ Overreaches' = Overreaches
    BY <2>1, OverreachesKept DEF InRoom
  <2>3. ~InRoom => Overreaches
    BY <1>1 DEF Reads, Fits
  <2> QED
    BY <1>2, <2>1, <2>2, <2>3 DEF Reads, Fits, Buffered, Blocks, CblockSize
<1>s. CASE pc' # "aborted" /\ Strays
  <2>1. NodeThere /\ pc' = pc /\ (ReadAligned \/ ReadXip \/ ReadCompressed)
    BY <1>s DEF ReadNode, Abort, ReadAligned, ReadXip, ReadCompressed
  <2> QED
    BY <1>1, <1>s, <2>1, StraysOn DEF Reads
<1>3. CASE pc' # "aborted" /\ Reading
  <2>1. PICK k \in Nat : Stands(k)
    BY <1>1, <1>3, StandsSomewhere
  <2>2. NodeThere /\ pc' = pc /\ (ReadAligned \/ ReadXip \/ ReadCompressed)
    BY <1>3 DEF ReadNode, Abort, ReadAligned, ReadXip, ReadCompressed
  <2>3. CASE ReadAligned
    <3>1. UNCHANGED <<cblock_buffer, cachedBlock, image>>
      BY <1>3, <2>3 DEF ReadAligned, Abort
    <3>2. Reading' /\ Fits'
      BY <1>1, <1>3, <2>1, <2>2, <2>3, AlignedRight
    <3> QED
      BY <1>1, <2>2, <3>1, <3>2 DEF Reads, Buffered, Blocks, CblockSize
  <2>4. CASE ReadXip
    <3>1. UNCHANGED <<cblock_buffer, cachedBlock, image>>
      BY <2>4 DEF ReadXip
    <3>2. (Reading \/ Strays)' /\ Fits'
      BY <1>1, <1>3, <2>1, <2>2, <2>4, XipRight
    <3> QED
      BY <1>1, <2>2, <3>1, <3>2 DEF Reads, Buffered, Blocks, CblockSize
  <2>5. CASE ReadCompressed
    BY <1>1, <1>3, <2>1, <2>2, <2>5, CompressedRight DEF Reads
  <2> QED
    BY <2>2, <2>3, <2>4, <2>5
<1> QED
  BY <1>1, <1>2, <1>s, <1>3

(* The name of a link that ends before linkName does is ended in it.       *)
LEMMA TerminateFits ==
  ASSUME AllLaidOut, Memory, ~Missing, Reads, LsTerminate
  PROVE  Fits'
<1> DEFINE size == FileSize(PageOf(rd.id, 0))
<1>1. /\ pc = "read" /\ rd.length = 0 /\ pc' = "print" /\ UNCHANGED <<image, rd>>
      /\ out' = Terminated(out, Get("inode_file_size", rd.id))
      /\ Reading \/ Strays
  BY DEF LsTerminate, Reads
<1>2. Overreaches' = Overreaches /\ size' = size
  BY <1>1, OverreachesKept
<1>3. CASE Overreaches
  BY <1>2, <1>3 DEF Fits
<1>4. CASE Reading
  <2>1. /\ IsSeq(out) /\ Len(out) \in Nat /\ Len(out) + 0 = Total
        /\ rd.id \in Nat /\ rd.cap \in Nat
        /\ rd.id \in DOMAIN sbi[image].inode_file_size
    BY <1>1, <1>4, Joined DEF Reading, Called
  <2>2. /\ image \in Mounts /\ Stores(image, "inode_file_size", sbi[image].inode_file_size)
        /\ size \in Nat
    BY <2>1, Constants DEF Memory, AllLaidOut, LaidOut, StoresTables, TablesOK,
       FileSize, PageOf
  <2>3. Get("inode_file_size", rd.id) = size
    <3>1. loaded["inode_file_size"] = region[image]["inode_file_size"]
      BY InMemory DEF Names
    <3> QED
      BY <2>1, <2>2, <3>1 DEF Get, Stores, FileSize, PageOf
  <2> DEFINE n == IF size < Len(out) THEN Len(out) ELSE size + 1
  <2>4. n \in Nat /\ Total = Least(size, rd.cap)
    BY <2>1, <2>2 DEF Total
  <2>5. Len(out') = n
    <3>1. out' = [i \in 1 .. n |-> out'[i]]
      BY <1>1, <2>3 DEF Terminated
    <3> HIDE DEF n
    <3> QED
      BY <2>4, <3>1, Listed
  <2>6. size < rd.cap => n <= rd.cap
    BY <2>1, <2>2, <2>4 DEF Least
  <2> HIDE DEF n, size
  <2> QED
    BY <1>1, <1>2, <2>1, <2>2, <2>5, <2>6 DEF Fits, InRoom, size
<1> QED
  BY <1>1, <1>3, <1>4 DEF Strays

LEMMA ToolNext == AllLaidOut /\ ToolInv /\ [Next \/ Gone]_vars => ToolInv'
<1> SUFFICES ASSUME AllLaidOut, ToolInv, [Next \/ Gone]_vars PROVE ToolInv'
  OBVIOUS
<1>1. Memory /\ Calls /\ Buffered /\ Reads
  BY DEF ToolInv
<1>2. Memory' /\ Calls'
  BY <1>1, MemoryNext, CallsNext
<1> USE <1>1
<1>a. ASSUME rd' = NoFile, out' = <<>> PROVE Fits'
  BY <1>a DEF Fits, InRoom, NoFile
<1>3. CASE Open \/ LoadRegion \/ Loaded \/ LsEntry
  <2>1. /\ UNCHANGED <<image, rd, out, cblock_buffer, cachedBlock>>
        /\ pc \in {"open", "load", "ls"} /\ pc' \in {"load", "ls", "aborted"}
    BY <1>3 DEF Open, LoadRegion, Loaded, LsEntry, Abort
  <2>2. rd' = NoFile /\ out' = <<>>
    BY <2>1 DEF Reads
  <2>3. Fits'
    BY <1>a, <2>2
  <2> QED
    BY <1>2, <2>1, <2>2, <2>3 DEF ToolInv, Buffered, Reads, Blocks, CblockSize
<1>4. CASE LsLink
  <2>1. UNCHANGED <<image, out, cblock_buffer, cachedBlock>> /\ pc = "ls" /\ ~Missing
    BY <1>4 DEF LsLink, Abort, Memory
  <2>2. Buffered'
    BY <2>1 DEF Buffered, Blocks, CblockSize
  <2>3. CASE FileThere(Entry)
    <3>1. /\ Entry \in Nat /\ IsLink(image, Entry) /\ out' = <<>>
          /\ rd' = ReadFile(Entry, LINK) /\ pc' = "read"
      BY <1>4, <2>1, <2>3, CallsFacts, LinkIs DEF LsLink, Reads
    <3>2. Reading' /\ Fits'
      BY <2>1, <2>3, <3>1, FileIs, Constants
    <3> QED
      BY <1>2, <2>2, <3>1, <3>2 DEF ToolInv, Reads
  <2>4. CASE ~FileThere(Entry)
    <3>1. pc' = "aborted" /\ rd' = NoFile /\ out' = <<>>
      BY <1>4, <2>4 DEF LsLink, Abort, Reads
    <3> QED
      BY <1>a, <1>2, <2>2, <3>1 DEF ToolInv, Reads
  <2> QED
    BY <2>3, <2>4
<1>5. CASE LsReturn
  <2>1. UNCHANGED <<image, out, cblock_buffer, cachedBlock>> /\ pc = "ls" /\ ~Missing
    BY <1>5 DEF LsReturn, Memory
  <2>2. Buffered'
    BY <2>1 DEF Buffered, Blocks, CblockSize
  <2>3. CASE frames' = <<>> /\ FileThere(wanted)
    <3>1. /\ wanted \in Nat /\ wanted \in Wanted /\ out' = <<>> /\ pc' = "read"
          /\ rd' = ReadFile(wanted, Get("inode_file_size", wanted))
      BY <1>5, <2>1, <2>3, Constants DEF LsReturn, Memory, Reads
    <3>2. Get("inode_file_size", wanted) \in Nat
      BY <2>1, <2>3, <3>1, Tables DEF FileThere
    <3>3. Reading' /\ Fits'
      BY <2>1, <2>3, <3>1, <3>2, FileIs
    <3> QED
      BY <1>2, <2>2, <3>1, <3>3 DEF ToolInv, Reads
  <2>4. CASE ~(frames' = <<>> /\ FileThere(wanted))
    <3>1. rd' = NoFile /\ out' = <<>> /\ pc' \in {"ls", "aborted"}
      BY <1>5, <2>1, <2>4 DEF LsReturn, Reads
    <3> QED
      BY <1>a, <1>2, <2>1, <2>2, <3>1 DEF ToolInv, Reads
  <2> QED
    BY <2>3, <2>4
<1>6. CASE ReadNode
  BY <1>2, <1>6, ReadNodeRight DEF ToolInv
<1>7. CASE LsPrint \/ ReadReturns
  <2>1. /\ UNCHANGED <<image, cblock_buffer, cachedBlock>>
        /\ rd' = NoFile /\ out' = <<>> /\ pc' \in {"ls", "exit"}
    BY <1>7 DEF LsPrint, ReadReturns
  <2> QED
    BY <1>a, <1>2, <2>1 DEF ToolInv, Buffered, Reads, Blocks, CblockSize
<1>b. CASE LsTerminate
  <2>1. /\ UNCHANGED <<image, rd, cblock_buffer, cachedBlock>>
        /\ pc = "read" /\ rd.length = 0 /\ pc' = "print" /\ ~Missing
    BY <1>b DEF LsTerminate, Memory
  <2>2. Fits'
    BY <1>b, <2>1, TerminateFits
  <2> QED
    BY <1>2, <2>1, <2>2 DEF ToolInv, Buffered, Reads, Blocks, CblockSize
<1>8. CASE UNCHANGED vars
  <2>1. UNCHANGED <<pc, image, rd, out, cblock_buffer, cachedBlock>>
    BY <1>8 DEF vars
  <2>2. Total' = Total
    BY <2>1 DEF Total, FileSize, PageOf
  <2>3. \A i : Right(i)' <=> Right(i)
    BY <2>1
    DEF Right, FileSize, PageOf, NodeByte, Corrupt, InFile, MaxBlock, NodeType,
        NodeIndex, CnodeIndex, CnodeOffset, BanodeOffset, ArrayIndex
  <2>k. Overreaches' = Overreaches /\ InRoom' = InRoom
        /\ FileSize(PageOf(rd.id, 0))' = FileSize(PageOf(rd.id, 0))
    BY <2>1, OverreachesKept DEF InRoom
  <2>4. (Reading \/ Strays) => (Reading \/ Strays)'
    <3>1. Called' = Called
      BY <2>1 DEF Called, FileSize, PageOf
    <3>2. Reading => Reading'
      BY <2>1, <2>2, <2>3, <3>1 DEF Reading
    <3>3. Strays => Strays'
      BY <2>1, <2>2, <2>3, <2>k, <3>1 DEF Strays
    <3> QED
      BY <3>2, <3>3
  <2>5. Buffered'
    BY <2>1 DEF Buffered, Blocks, CblockSize
  <2>6. Reads'
    BY <2>1, <2>4, <2>k DEF Reads, Fits
  <2> QED
    BY <1>2, <2>5, <2>6 DEF ToolInv
<1> QED
  BY <1>3, <1>4, <1>5, <1>6, <1>7, <1>b, <1>8 DEF Next, Gone

LEMMA ToolInvariant == AllLaidOut => (Spec => []ToolInv)
<1> SUFFICES ASSUME AllLaidOut PROVE Spec => []ToolInv
  OBVIOUS
<1> QED
  BY ToolInit, ToolNext, PTL DEF Spec

-----------------------------------------------------------------------------
(* readFile and ls write nothing behind the room that there is for it,     *)
(* whatever kinds of nodes a file is made of, but when the file, or what a *)
(* link has room for, ends within an XIP page, and when a link is not      *)
(* shorter than linkName (axfs.cpp, readFile and ls).                      *)
THEOREM FitsHolds == AllLaidOut => (Spec => []Fits)
<1> SUFFICES ASSUME AllLaidOut PROVE Spec => []Fits
  OBVIOUS
<1>1. ToolInv => Fits
  BY DEF ToolInv, Reads
<1> QED
  BY <1>1, ToolInvariant, PTL

(* What readFile copies is what the kernel's readpage would put there, and *)
(* it copies the whole file, or as much of it as was asked for, whichever  *)
(* cblock earlier calls have left in the buffer (axfs.cpp, readFile).      *)
THEOREM ReadRightHolds == AllLaidOut => (Spec => []ReadRight)
<1> SUFFICES ASSUME AllLaidOut PROVE Spec => []ReadRight
  OBVIOUS
<1>1. ToolInv => ReadRight
  <2> SUFFICES ASSUME Memory, Reading \/ Strays PROVE
        /\ \A i \in 1 .. Least(Len(out), Total) : Right(i)
        /\ rd.length = 0 => Len(out) = Total \/ Overreaches
    BY DEF ToolInv, Reads, ReadRight, Right
  <2>1. Len(out) \in Nat /\ Total \in Nat
    <3>1. Len(out) \in Nat /\ rd.cap \in Nat
      BY Joined DEF Reading, Strays, Called
    <3>2. FileSize(PageOf(rd.id, 0)) \in Nat
      BY Constants DEF Memory, Reading, Strays, Called, TablesOK, FileSize, PageOf
    <3> QED
      BY <3>1, <3>2 DEF Total, Least
  <2>2. CASE Reading
    BY <2>1, <2>2 DEF Reading, Least
  <2>3. CASE Strays
    BY <2>1, <2>3 DEF Strays, Least
  <2> QED
    BY <2>2, <2>3
<1> QED
  BY <1>1, ToolInvariant, PTL

-----------------------------------------------------------------------------
(***************************************************************************)
(* The tree.  What follows is about any image and any listing of it, not   *)
(* about a state, so that it can be used before a step and behind it.      *)
(***************************************************************************)
Before == OpToRel(<, Nat)

LEMMA LeastIs ==
  ASSUME NEW T, T \subseteq Nat, T # {}
  PROVE  \E x \in T : \A y \in T : x <= y
<1>1. PICK x \in T : \A y \in T : ~(<<y, x>> \in Before)
  BY NatLessThanWellFounded, WFMin, Zenon DEF Before
<1>2. \A y \in T : x <= y
  <2> TAKE y \in T
  <2>1. (<<y, x>> \in Before) <=> y < x
    BY Zenon DEF Before, OpToRel
  <2> QED
    BY <1>1, <2>1
<1> QED
  BY <1>2

(* An inode is an entry of the directory that it is in, and of no other.   *)
LEMMA DirIs ==
  ASSUME NEW m, IsTree(m), NEW d \in Inodes(m), NEW id \in EntriesOf(m, d)
  PROVE  /\ Dir(m, id) = d /\ id \in Inodes(m) \ {0}
         /\ tree[m].level[id] = tree[m].level[d] + 1
         /\ tree[m].level[id] \in Nat /\ tree[m].level[d] \in Nat
<1>1. id \in Inodes(m) /\ tree[m].level[id] = tree[m].level[d] + 1
  BY DEF IsTree
<1>2. tree[m].level[id] \in Nat /\ tree[m].level[d] \in Nat /\ tree[m].level[0] = 0
  BY <1>1 DEF IsTree
<1>3. id # 0
  BY <1>1, <1>2
<1>4. \A e \in Inodes(m) : id \in EntriesOf(m, e) => e = d
  BY DEF IsTree
<1>5. Dir(m, id) = d
  BY <1>4 DEF Dir
<1> QED
  BY <1>1, <1>2, <1>3, <1>5

LEMMA InDir ==
  ASSUME NEW m, IsTree(m), NEW id \in Inodes(m) \ {0}
  PROVE  /\ Dir(m, id) \in Inodes(m) /\ id \in EntriesOf(m, Dir(m, id))
         /\ tree[m].level[id] = tree[m].level[Dir(m, id)] + 1
<1>1. PICK d \in Inodes(m) : id \in EntriesOf(m, d)
  BY DEF IsTree
<1> QED
  BY <1>1, DirIs

(* The way up from x to a.                                                 *)
Up(m, x, a) ==
  \E n \in Nat : \E s \in [0 .. n -> Inodes(m)] :
    /\ s[0] = x /\ s[n] = a
    /\ \A i \in 0 .. n - 1 : s[i] # 0 /\ s[i + 1] = Dir(m, s[i])

LEMMA UpIs ==
  ASSUME NEW m, IsTree(m), NEW x \in Inodes(m), NEW a
  PROVE  Up(m, x, a) <=> a = x \/ (x # 0 /\ Up(m, Dir(m, x), a))
<1>1. ASSUME Up(m, x, a) PROVE a = x \/ (x # 0 /\ Up(m, Dir(m, x), a))
  <2>0. PICK n \in Nat : \E s \in [0 .. n -> Inodes(m)] :
          /\ s[0] = x /\ s[n] = a
          /\ \A i \in 0 .. n - 1 : s[i] # 0 /\ s[i + 1] = Dir(m, s[i])
    BY <1>1 DEF Up
  <2>1. PICK s \in [0 .. n -> Inodes(m)] :
          /\ s[0] = x /\ s[n] = a
          /\ \A i \in 0 .. n - 1 : s[i] # 0 /\ s[i + 1] = Dir(m, s[i])
    BY <2>0
  <2>2. CASE n = 0
    BY <2>1, <2>2
  <2>3. CASE n # 0
    <3> DEFINE t == [i \in 0 .. n - 1 |-> s[i + 1]]
    <3>1. n - 1 \in Nat /\ 0 \in 0 .. n - 1 /\ n - 1 \in 0 .. n - 1
      BY <2>3
    <3>2. t \in [0 .. n - 1 -> Inodes(m)]
      <4>1. \A i \in 0 .. n - 1 : i + 1 \in 0 .. n
        OBVIOUS
      <4> QED
        BY <4>1
    <3>3. t[0] = Dir(m, x) /\ t[n - 1] = a /\ x # 0
      BY <2>1, <3>1
    <3>4. \A i \in 0 .. n - 1 - 1 : t[i] # 0 /\ t[i + 1] = Dir(m, t[i])
      <4> TAKE i \in 0 .. n - 1 - 1
      <4>1. i \in 0 .. n - 1 /\ i + 1 \in 0 .. n - 1
        BY <3>1
      <4>2. s[i + 1] # 0 /\ s[i + 1 + 1] = Dir(m, s[i + 1])
        BY <2>1, <4>1
      <4> QED
        BY <4>1, <4>2
    <3> HIDE DEF t
    <3>5. Up(m, Dir(m, x), a)
      BY <3>1, <3>2, <3>3, <3>4 DEF Up
    <3> QED
      BY <3>3, <3>5
  <2> QED
    BY <2>2, <2>3
<1>2. ASSUME a = x PROVE Up(m, x, a)
  <2> DEFINE s == [i \in 0 .. 0 |-> x]
  <2>1. /\ s \in [0 .. 0 -> Inodes(m)] /\ s[0] = x /\ s[0] = a
        /\ \A i \in 0 .. 0 - 1 : s[i] # 0 /\ s[i + 1] = Dir(m, s[i])
    BY <1>2
  <2> HIDE DEF s
  <2> QED
    BY <2>1 DEF Up
<1>3. ASSUME x # 0, Up(m, Dir(m, x), a) PROVE Up(m, x, a)
  <2>0. PICK n \in Nat : \E s \in [0 .. n -> Inodes(m)] :
          /\ s[0] = Dir(m, x) /\ s[n] = a
          /\ \A i \in 0 .. n - 1 : s[i] # 0 /\ s[i + 1] = Dir(m, s[i])
    BY <1>3 DEF Up
  <2>1. PICK s \in [0 .. n -> Inodes(m)] :
          /\ s[0] = Dir(m, x) /\ s[n] = a
          /\ \A i \in 0 .. n - 1 : s[i] # 0 /\ s[i + 1] = Dir(m, s[i])
    BY <2>0
  <2> DEFINE t == [i \in 0 .. n + 1 |-> IF i = 0 THEN x ELSE s[i - 1]]
  <2>2. n + 1 \in Nat /\ 0 \in 0 .. n + 1 /\ n + 1 \in 0 .. n + 1
    OBVIOUS
  <2>3. t \in [0 .. n + 1 -> Inodes(m)]
    <3>1. \A i \in 0 .. n + 1 : i # 0 => i - 1 \in 0 .. n
      OBVIOUS
    <3> QED
      BY <3>1
  <2>4. t[0] = x /\ t[n + 1] = a
    BY <2>1, <2>2
  <2>5. \A i \in 0 .. n + 1 - 1 : t[i] # 0 /\ t[i + 1] = Dir(m, t[i])
    <3> TAKE i \in 0 .. n + 1 - 1
    <3>1. i \in 0 .. n + 1 /\ i + 1 \in 0 .. n + 1 /\ i + 1 # 0 /\ i + 1 - 1 = i
      OBVIOUS
    <3>2. t[i + 1] = s[i]
      BY <3>1
    <3>3. CASE i = 0
      BY <1>3, <2>1, <2>2, <3>2, <3>3
    <3>4. CASE i # 0
      <4>1. i - 1 \in 0 .. n - 1 /\ i - 1 + 1 = i
        BY <3>1, <3>4
      <4>2. s[i - 1] # 0 /\ s[i - 1 + 1] = Dir(m, s[i - 1])
        BY <2>1, <4>1
      <4>3. t[i] = s[i - 1]
        BY <3>1, <3>4
      <4> QED
        BY <3>2, <4>1, <4>2, <4>3
    <3> QED
      BY <3>3, <3>4
  <2> HIDE DEF t
  <2> QED
    BY <2>2, <2>3, <2>4, <2>5 DEF Up
<1> QED
  BY <1>1, <1>2, <1>3

Climbs(m, f) ==
  f = [x \in Inodes(m) |-> IF x = 0 THEN {0} ELSE {x} \cup f[Dir(m, x)]]

LEMMA ClimbsSomehow ==
  ASSUME NEW m, IsTree(m)
  PROVE  \E f : Climbs(m, f)
<1> DEFINE f == [x \in Inodes(m) |-> {a \in Inodes(m) : Up(m, x, a)}]
           g(x) == IF x = 0 THEN {0} ELSE {x} \cup f[Dir(m, x)]
<1>1. ASSUME NEW x \in Inodes(m) PROVE f[x] = g(x)
  <2>1. CASE x = 0
    BY <2>1, UpIs
  <2>2. CASE x # 0
    <3>1. Dir(m, x) \in Inodes(m)
      BY <2>2, InDir
    <3>2. f[Dir(m, x)] = {a \in Inodes(m) : Up(m, Dir(m, x), a)}
      BY <3>1
    <3>3. f[x] = {a \in Inodes(m) : Up(m, x, a)}
      OBVIOUS
    <3>4. \A a \in Inodes(m) : Up(m, x, a) <=> a = x \/ Up(m, Dir(m, x), a)
      BY <2>2, UpIs
    <3> HIDE DEF f
    <3> QED
      BY <2>2, <3>2, <3>3, <3>4
  <2> QED
    BY <2>1, <2>2
<1>2. f = [x \in Inodes(m) |-> f[x]]
  OBVIOUS
<1> HIDE DEF f
<1>3. f = [x \in Inodes(m) |-> g(x)]
  BY <1>1, <1>2
<1> QED
  BY <1>3 DEF Climbs

LEMMA WithinIs ==
  ASSUME NEW m, IsTree(m), NEW x \in Inodes(m)
  PROVE  Within(m, x) = IF x = 0 THEN {0} ELSE {x} \cup Within(m, Dir(m, x))
<1>1. PICK f : f = (CHOOSE h : Climbs(m, h)) /\ Climbs(m, f)
  BY ClimbsSomehow, Zenon
<1>2. \A y : Within(m, y) = f[y]
  BY <1>1, Zenon DEF Within, Climbs
<1>3. f[x] = IF x = 0 THEN {0} ELSE {x} \cup f[Dir(m, x)]
  BY <1>1 DEF Climbs
<1> QED
  BY <1>2, <1>3

(* With an inode, also the directory that it is in.                        *)
LEMMA WithinClosed ==
  ASSUME NEW m, IsTree(m), NEW x \in Inodes(m), NEW e \in Within(m, x), e # 0
  PROVE  Dir(m, e) \in Within(m, x)
<1> DEFINE Bad == {y \in Inodes(m) : e \in Within(m, y) /\ Dir(m, e) \notin Within(m, y)}
           T == {tree[m].level[y] : y \in Bad}
<1>1. SUFFICES ASSUME x \in Bad PROVE FALSE
  OBVIOUS
<1>2. T \subseteq Nat /\ T # {}
  BY <1>1 DEF IsTree
<1>3. PICK l \in T : \A k \in T : l <= k
  <2> HIDE DEF T
  <2> QED
    BY <1>2, LeastIs
<1>4. PICK y \in Bad : tree[m].level[y] = l
  OBVIOUS
<1>5. y # 0
  BY <1>4, WithinIs
<1>6. /\ Dir(m, y) \in Inodes(m) /\ tree[m].level[y] = tree[m].level[Dir(m, y)] + 1
      /\ tree[m].level[Dir(m, y)] \in Nat
  BY <1>4, <1>5, InDir DEF IsTree
<1>7. Within(m, y) = {y} \cup Within(m, Dir(m, y))
  BY <1>4, <1>5, WithinIs
<1>8. Dir(m, y) \notin Bad
  <2>1. Dir(m, y) \in Bad => tree[m].level[Dir(m, y)] \in T
    OBVIOUS
  <2> HIDE DEF Bad, T
  <2> QED
    BY <1>2, <1>3, <1>4, <1>6, <2>1
<1>9. Dir(m, y) \in Within(m, Dir(m, y))
  BY <1>6, WithinIs
<1> QED
  BY <1>4, <1>6, <1>7, <1>8, <1>9

-----------------------------------------------------------------------------
(* The directory that call k of ls is for, whether it is the innermost one *)
(* or waits behind the entry that the next call is for.                    *)
Path(fr, k) == IF k = 1 THEN 0 ELSE fr[k - 1].first + fr[k - 1].i - 1

IsShown(sh, id) == \E j \in 1 .. Len(sh) : sh[j].id = id

(* The calls are those for a path down the tree.                           *)
Stacked(m, fr) ==
  /\ fr \in Seq(FrameType)
  /\ \A k \in 1 .. Len(fr) :
       /\ Path(fr, k) \in Inodes(m) /\ tree[m].kind[Path(fr, k)] = "dir"
       /\ tree[m].level[Path(fr, k)] = k - 1
       /\ fr[k].first = sbi[m].inode_array_index[Path(fr, k)]
       /\ fr[k].numFiles = tree[m].num_entries[Path(fr, k)]
       /\ fr[k].i <= fr[k].numFiles
       /\ k < Len(fr) => fr[k].i > 0

(* Of the directories on the path, what has a line is what comes before    *)
(* the place where the call is; of all others that have one, everything.   *)
Reached(m, fr, sh) ==
  \A k \in 1 .. Len(fr) : \A id \in EntriesOf(m, Path(fr, k)) :
    IsShown(sh, id) <=> id < fr[k].first + fr[k].i

Through(m, fr, sh) ==
  \A d \in Inodes(m) :
    (d = 0 \/ IsShown(sh, d)) /\ (\A k \in 1 .. Len(fr) : Path(fr, k) # d)
    => \A id \in EntriesOf(m, d) : IsShown(sh, id)

(* The directories on the path have their lines.                           *)
Led(fr, sh) ==
  \A k \in 2 .. Len(fr) :
    \E j \in 1 .. Len(sh) : sh[j].id = Path(fr, k) /\ sh[j].level = k - 2

(* The last line is of the directory that is begun, or within the entry    *)
(* that the innermost call has left behind.                                *)
LastLine(m, fr, sh) ==
  LET n == Len(fr)
  IN  n > 0 =>
        IF fr[n].i = 0
        THEN IF n = 1 THEN Len(sh) = 0 ELSE Len(sh) > 0 /\ sh[Len(sh)].id = Path(fr, n)
        ELSE Len(sh) > 0 /\ fr[n].first + fr[n].i - 1 \in Within(m, sh[Len(sh)].id)

(* ListedInOrder, of lines that are of inodes.                             *)
InPlace(m, sh, k) ==
  LET id == sh[k].id
      d  == Dir(m, id)
  IN  /\ \A j \in 1 .. k - 1 : sh[j].id # id
      /\ IF d = 0 THEN sh[k].level = 0
         ELSE \E j \in 1 .. k - 1 : sh[j].id = d /\ sh[k].level = sh[j].level + 1
      /\ IF id - 1 \in EntriesOf(m, d)
         THEN k > 1 /\ id - 1 \in Within(m, sh[k - 1].id)
         ELSE IF d = 0 THEN k = 1 ELSE sh[k - 1].id = d

Ordered(m, sh) ==
  /\ IsSeq(sh)
  /\ \A k \in 1 .. Len(sh) : sh[k].id \in Inodes(m) \ {0} /\ InPlace(m, sh, k)

Listing(m, fr, sh) ==
  /\ Stacked(m, fr) /\ Reached(m, fr, sh) /\ Through(m, fr, sh)
  /\ Led(fr, sh) /\ LastLine(m, fr, sh) /\ Ordered(m, sh)

LEMMA EntriesAre ==
  ASSUME NEW m, NEW fr, Stacked(m, fr), NEW k \in 1 .. Len(fr)
  PROVE  /\ Path(fr, k) \in Inodes(m)
         /\ fr[k] \in FrameType /\ Len(fr) \in Nat
         /\ EntriesOf(m, Path(fr, k)) = fr[k].first .. fr[k].first + fr[k].numFiles - 1
<1>1. fr \in Seq(FrameType) /\ Len(fr) \in Nat /\ fr[k] \in FrameType
  BY LenProperties DEF Stacked
<1> QED
  BY <1>1 DEF Stacked, EntriesOf

(* No directory is on the path twice.                                      *)
LEMMA PathOnce ==
  ASSUME NEW m, NEW fr, Stacked(m, fr), NEW j \in 1 .. Len(fr), NEW k \in 1 .. Len(fr),
         Path(fr, j) = Path(fr, k)
  PROVE  j = k
<1>1. tree[m].level[Path(fr, j)] = j - 1 /\ tree[m].level[Path(fr, k)] = k - 1
  BY DEF Stacked
<1>2. Len(fr) \in Nat /\ j - 1 = k - 1
  BY <1>1, LenProperties DEF Stacked
<1> QED
  BY <1>2

LEMMA Lengthened ==
  ASSUME NEW sh, IsSeq(sh), NEW line
  PROVE  /\ IsSeq(Append(sh, line)) /\ Len(sh) \in Nat
         /\ Len(Append(sh, line)) = Len(sh) + 1
         /\ Append(sh, line)[Len(sh) + 1] = line
         /\ \A k \in 1 .. Len(sh) : Append(sh, line)[k] = sh[k]
<1> DEFINE A == {sh[k] : k \in DOMAIN sh} \cup {line}
           t == Append(sh, line)
<1>1. sh \in Seq(A)
  <2> DEFINE B == {sh[k] : k \in DOMAIN sh}
  <2>1. sh \in Seq(B) /\ B \subseteq A
    BY DEF IsSeq
  <2> HIDE DEF A, B
  <2> QED
    BY <2>1
<1>2. line \in A
  OBVIOUS
<1> HIDE DEF A
<1>3. /\ t \in Seq(A) /\ Len(sh) \in Nat /\ Len(t) = Len(sh) + 1
      /\ t[Len(sh) + 1] = line /\ \A k \in 1 .. Len(sh) : t[k] = sh[k]
  BY <1>1, <1>2, AppendProperties, LenProperties
<1>4. t = [k \in 1 .. Len(t) |-> t[k]] /\ Len(t) \in Nat
  <2>1. t \in [1 .. Len(t) -> A] /\ Len(t) \in Nat
    BY <1>3, LenProperties
  <2> HIDE DEF t
  <2> QED
    BY <2>1
<1>5. IsSeq(t)
  <2> HIDE DEF t
  <2> QED
    BY <1>4, Listed
<1> QED
  BY <1>3, <1>5

(* A line is in place whatever comes behind it.                            *)
LEMMA StaysInPlace ==
  ASSUME NEW m, NEW sh, NEW t, NEW n \in Nat, NEW k \in 1 .. n,
         \A j \in 1 .. n : t[j] = sh[j], InPlace(m, sh, k)
  PROVE  InPlace(m, t, k)
<1>1. /\ t[k] = sh[k] /\ \A j \in 1 .. k - 1 : t[j] = sh[j]
      /\ k > 1 => t[k - 1] = sh[k - 1]
  OBVIOUS
<1>2. CASE k > 1
  BY <1>1, <1>2 DEF InPlace
<1>3. CASE k = 1
  BY <1>1, <1>3 DEF InPlace
<1> QED
  BY <1>2, <1>3

(* What has a line is below a directory that has one.                      *)
LEMMA ShownBelow ==
  ASSUME NEW m, NEW sh, Ordered(m, sh), NEW id, IsShown(sh, id), Dir(m, id) # 0
  PROVE  IsShown(sh, Dir(m, id))
<1>1. PICK k \in 1 .. Len(sh) : sh[k].id = id
  BY DEF IsShown
<1>2. InPlace(m, sh, k) /\ Len(sh) \in Nat
  BY LenProperties DEF Ordered, IsSeq
<1>3. \E j \in 1 .. k - 1 : sh[j].id = Dir(m, id)
  BY <1>1, <1>2 DEF InPlace
<1> QED
  BY <1>2, <1>3 DEF IsShown

-----------------------------------------------------------------------------
(* A line more.                                                            *)

(* The innermost call of fr has gone on by an entry, in gr.                *)
Moved(fr, gr) ==
  LET n == Len(fr)
  IN  /\ Len(gr) >= n
      /\ \A k \in 1 .. n - 1 : gr[k] = fr[k]
      /\ gr[n].first = fr[n].first /\ gr[n].numFiles = fr[n].numFiles
      /\ gr[n].i = fr[n].i + 1

(* Where the innermost call is.                                            *)
Here(fr) == fr[Len(fr)].first + fr[Len(fr)].i

(* How the calls go on behind that entry: into it, if it is a directory.   *)
GoesOn(m, fr, gr) ==
  /\ gr \in Seq(FrameType) /\ Moved(fr, gr)
  /\ IF tree[m].kind[Here(fr)] # "dir" THEN Len(gr) = Len(fr)
     ELSE /\ Len(gr) = Len(fr) + 1
          /\ gr[Len(gr)].first = sbi[m].inode_array_index[Here(fr)]
          /\ gr[Len(gr)].numFiles = tree[m].num_entries[Here(fr)]
          /\ gr[Len(gr)].i = 0

LEMMA HereIs ==
  ASSUME NEW m, IsTree(m), NEW fr, Stacked(m, fr), Len(fr) > 0,
         fr[Len(fr)].i < fr[Len(fr)].numFiles
  PROVE  /\ Len(fr) \in Nat \ {0} /\ Path(fr, Len(fr)) \in Inodes(m)
         /\ Here(fr) \in EntriesOf(m, Path(fr, Len(fr)))
         /\ Here(fr) \in Inodes(m) \ {0} /\ Dir(m, Here(fr)) = Path(fr, Len(fr))
         /\ tree[m].level[Here(fr)] = Len(fr)
<1> DEFINE n == Len(fr)
<1>1. n \in Nat \ {0}
  BY LenProperties DEF Stacked
<1>2. /\ Path(fr, n) \in Inodes(m) /\ fr[n] \in FrameType
      /\ EntriesOf(m, Path(fr, n)) = fr[n].first .. fr[n].first + fr[n].numFiles - 1
  BY <1>1, EntriesAre
<1>3. Here(fr) \in EntriesOf(m, Path(fr, n))
  BY <1>2 DEF Here, FrameType
<1>4. /\ Here(fr) \in Inodes(m) \ {0} /\ Dir(m, Here(fr)) = Path(fr, n)
      /\ tree[m].level[Here(fr)] = tree[m].level[Path(fr, n)] + 1
  BY <1>2, <1>3, DirIs
<1>5. tree[m].level[Path(fr, n)] = n - 1
  BY <1>1 DEF Stacked
<1> QED
  BY <1>1, <1>2, <1>3, <1>4, <1>5

LEMMA PathGoesOn ==
  ASSUME NEW m, IsTree(m), NEW fr, Stacked(m, fr), Len(fr) > 0,
         fr[Len(fr)].i < fr[Len(fr)].numFiles, NEW gr, GoesOn(m, fr, gr)
  PROVE  /\ \A k \in 1 .. Len(fr) : Path(gr, k) = Path(fr, k)
         /\ Len(gr) > Len(fr) => Path(gr, Len(gr)) = Here(fr)
         /\ Stacked(m, gr)
<1> DEFINE n == Len(fr)
<1>1. n \in Nat \ {0} /\ fr[n] \in FrameType /\ Len(gr) \in {n, n + 1}
  BY HereIs, EntriesAre DEF GoesOn
<1>2. ASSUME NEW k \in 1 .. n PROVE Path(gr, k) = Path(fr, k)
  <2>1. k # 1 => gr[k - 1] = fr[k - 1]
    BY <1>1 DEF GoesOn, Moved
  <2> QED
    BY <2>1 DEF Path
<1>3. ASSUME Len(gr) > n PROVE Path(gr, Len(gr)) = Here(fr)
  <2>1. Len(gr) = n + 1 /\ n + 1 # 1 /\ n + 1 - 1 = n
    BY <1>1, <1>3
  <2>2. Path(gr, n + 1) = gr[n].first + gr[n].i - 1
    BY <2>1 DEF Path
  <2>3. gr[n].first = fr[n].first /\ gr[n].i = fr[n].i + 1
    BY DEF GoesOn, Moved
  <2>4. fr[n].first \in Nat /\ fr[n].i \in Nat
    BY <1>1 DEF FrameType
  <2>5. Path(gr, n + 1) = fr[n].first + fr[n].i
    BY <2>2, <2>3, <2>4
  <2> QED
    BY <2>1, <2>5 DEF Here
<1>4. ASSUME NEW k \in 1 .. Len(gr)
      PROVE  /\ Path(gr, k) \in Inodes(m) /\ tree[m].kind[Path(gr, k)] = "dir"
             /\ tree[m].level[Path(gr, k)] = k - 1
             /\ gr[k].first = sbi[m].inode_array_index[Path(gr, k)]
             /\ gr[k].numFiles = tree[m].num_entries[Path(gr, k)]
             /\ gr[k].i <= gr[k].numFiles
             /\ k < Len(gr) => gr[k].i > 0
  <2>1. CASE k < n
    <3>1. k \in 1 .. n /\ k \in 1 .. n - 1 /\ gr[k] = fr[k]
      BY <1>1, <2>1 DEF GoesOn, Moved
    <3> QED
      BY <1>2, <2>1, <3>1 DEF Stacked
  <2>2. CASE k = n
    <3>1. k \in 1 .. n /\ Path(gr, k) = Path(fr, k)
      BY <1>1, <1>2, <2>2
    <3>2. /\ gr[k].first = fr[k].first /\ gr[k].numFiles = fr[k].numFiles
          /\ gr[k].i = fr[k].i + 1 /\ fr[k].i < fr[k].numFiles
          /\ fr[k].i \in Nat /\ fr[k].numFiles \in Nat
      BY <1>1, <2>2 DEF GoesOn, Moved, FrameType
    <3>3. gr[k].i <= gr[k].numFiles /\ gr[k].i > 0
      BY <3>2
    <3> QED
      BY <3>1, <3>2, <3>3 DEF Stacked
  <2>3. CASE k > n
    <3>1. k = Len(gr) /\ Len(gr) = n + 1 /\ Len(gr) > n
      BY <1>1, <2>3
    <3>2. /\ tree[m].kind[Here(fr)] = "dir"
          /\ gr[k].first = sbi[m].inode_array_index[Here(fr)]
          /\ gr[k].numFiles = tree[m].num_entries[Here(fr)]
          /\ gr[k].i = 0
      BY <1>1, <3>1 DEF GoesOn
    <3>3. Path(gr, k) = Here(fr) /\ tree[m].level[Here(fr)] = k - 1
      BY <1>1, <1>3, <3>1, HereIs
    <3>4. gr[k] \in FrameType
      BY <3>1, LenProperties DEF GoesOn
    <3>5. gr[k].i <= gr[k].numFiles
      BY <3>2, <3>4 DEF FrameType
    <3> QED
      BY <3>1, <3>2, <3>3, <3>5, HereIs
  <2> QED
    BY <1>1, <2>1, <2>2, <2>3
<1>5. Stacked(m, gr)
  BY <1>4 DEF Stacked, GoesOn
<1> QED
  BY <1>2, <1>3, <1>5

LEMMA LineAdded ==
  ASSUME NEW m, IsTree(m), NEW fr, NEW sh, Listing(m, fr, sh), Len(fr) > 0,
         fr[Len(fr)].i < fr[Len(fr)].numFiles,
         NEW line, line.id = Here(fr), line.level = Len(fr) - 1,
         NEW gr, GoesOn(m, fr, gr)
  PROVE  Listing(m, gr, Append(sh, line))
<1> DEFINE n == Len(fr)
           id == Here(fr)
           d == Path(fr, n)
           t == Append(sh, line)
           l == Len(sh)
<1>1. /\ Stacked(m, fr) /\ Reached(m, fr, sh) /\ Through(m, fr, sh)
      /\ Led(fr, sh) /\ LastLine(m, fr, sh) /\ Ordered(m, sh)
  BY DEF Listing
<1>2. /\ n \in Nat \ {0} /\ d \in Inodes(m) /\ id \in EntriesOf(m, d)
      /\ id \in Inodes(m) \ {0} /\ Dir(m, id) = d /\ tree[m].level[id] = n
      /\ fr[n] \in FrameType /\ tree[m].level[d] = n - 1
  BY <1>1, HereIs, EntriesAre DEF Stacked
<1>3. /\ \A k \in 1 .. n : Path(gr, k) = Path(fr, k)
      /\ Len(gr) > n => Path(gr, Len(gr)) = id
      /\ Stacked(m, gr)
  BY <1>1, PathGoesOn
<1>4. /\ IsSeq(t) /\ l \in Nat /\ Len(t) = l + 1 /\ t[l + 1] = line
      /\ \A k \in 1 .. l : t[k] = sh[k]
  BY <1>1, Lengthened DEF Ordered
<1>5. /\ Len(gr) \in {n, n + 1}
      /\ Len(gr) = n + 1 <=> tree[m].kind[id] = "dir"
  BY <1>2 DEF GoesOn
<1>6. /\ \A k \in 1 .. n - 1 : gr[k] = fr[k]
      /\ gr[n].first = fr[n].first /\ gr[n].i = fr[n].i + 1
      /\ Len(gr) > n => gr[Len(gr)].i = 0
  BY <1>2 DEF GoesOn, Moved
<1>7. ~IsShown(sh, id)
  <2>1. id = fr[n].first + fr[n].i /\ n \in 1 .. Len(fr)
    BY <1>2 DEF Here
  <2>2. IsShown(sh, id) => id < fr[n].first + fr[n].i
    BY <1>1, <1>2, <2>1 DEF Reached
  <2>3. fr[n].first + fr[n].i \in Nat
    BY <1>2 DEF FrameType
  <2> HIDE DEF n
  <2> QED
    BY <2>1, <2>2, <2>3
<1>8. ASSUME NEW x PROVE IsShown(t, x) <=> IsShown(sh, x) \/ x = id
  <2>1. ASSUME NEW j \in 1 .. l + 1, t[j].id = x PROVE IsShown(sh, x) \/ x = id
    <3>1. CASE j = l + 1
      BY <1>4, <2>1, <3>1
    <3>2. CASE j # l + 1
      <4>1. j \in 1 .. l
        BY <1>4, <3>2
      <4> QED
        BY <1>4, <2>1, <4>1 DEF IsShown
    <3> QED
      BY <3>1, <3>2
  <2>2. ASSUME NEW j \in 1 .. l, sh[j].id = x PROVE IsShown(t, x)
    <3>1. j \in 1 .. Len(t) /\ t[j] = sh[j]
      BY <1>4
    <3> HIDE DEF t
    <3> QED
      BY <2>2, <3>1 DEF IsShown
  <2>3. IsShown(t, id)
    <3>1. l + 1 \in 1 .. Len(t) /\ t[l + 1].id = id
      BY <1>4
    <3> HIDE DEF t, id
    <3> QED
      BY <3>1 DEF IsShown
  <2> HIDE DEF t, id
  <2> QED
    BY <1>4, <2>1, <2>2, <2>3 DEF IsShown
<1> HIDE DEF t, id, d, l, n
<1>9. Reached(m, gr, t)
  <2> SUFFICES ASSUME NEW k \in 1 .. Len(gr), NEW x \in EntriesOf(m, Path(gr, k))
               PROVE  IsShown(t, x) <=> x < gr[k].first + gr[k].i
    BY DEF Reached
  <2>1. CASE k < n
    <3>1. k \in 1 .. n - 1 /\ k \in 1 .. n /\ n \in 1 .. n /\ gr[k] = fr[k] /\ Path(gr, k) = Path(fr, k)
      BY <1>2, <1>3, <1>5, <1>6, <2>1
    <3>2. x # id
      <4>1. x = id => Path(fr, k) = d
        BY <1>1, <1>2, <3>1, EntriesAre, DirIs DEF n
      <4>2. Path(fr, k) # d
        BY <1>1, <1>2, <2>1, <3>1, PathOnce DEF n, d
      <4> QED
        BY <4>1, <4>2
    <3>3. IsShown(sh, x) <=> x < fr[k].first + fr[k].i
      BY <1>1, <3>1 DEF Reached, n
    <3> QED
      BY <1>8, <3>1, <3>2, <3>3
  <2>2. CASE k = n
    <3>1. n \in 1 .. n /\ Path(gr, n) = d
      BY <1>2, <1>3 DEF d
    <3>2. IsShown(sh, x) <=> x < fr[n].first + fr[n].i
      BY <1>1, <2>2, <3>1 DEF Reached, n, d
    <3>3. id = fr[n].first + fr[n].i
      BY DEF id, n, Here
    <3>4. x \in Int
      <4>1. EntriesOf(m, d) = fr[n].first .. fr[n].first + fr[n].numFiles - 1
        BY <1>1, <3>1, EntriesAre DEF n, d
      <4> QED
        BY <1>2, <2>2, <3>1, <4>1 DEF FrameType
    <3>5. x < fr[n].first + (fr[n].i + 1) <=> x < fr[n].first + fr[n].i \/ x = fr[n].first + fr[n].i
      <4>1. fr[n].first \in Nat /\ fr[n].i \in Nat
        BY <1>2 DEF FrameType
      <4>2. ASSUME NEW a \in Nat, NEW b \in Nat, NEW y \in Int
            PROVE  (y < a + (b + 1)) <=> (y < a + b \/ y = a + b)
        OBVIOUS
      <4> QED
        BY <3>4, <4>1, <4>2
    <3> QED
      BY <1>6, <1>8, <2>2, <3>2, <3>3, <3>5
  <2>3. CASE k > n
    <3>1. k = Len(gr) /\ Len(gr) > n /\ Path(gr, k) = id /\ gr[k].i = 0
      BY <1>2, <1>3, <1>5, <1>6, <2>3
    <3>2. /\ EntriesOf(m, id) = gr[k].first .. gr[k].first + gr[k].numFiles - 1
          /\ gr[k] \in FrameType
      BY <1>3, <3>1, EntriesAre
    <3>3. ~(x < gr[k].first + gr[k].i)
      BY <3>1, <3>2 DEF FrameType
    <3>4. Dir(m, x) = id /\ x # id
      <4>1. /\ Dir(m, x) = id /\ tree[m].level[x] = tree[m].level[id] + 1
            /\ tree[m].level[id] \in Nat
        BY <1>2, <3>1, DirIs
      <4> QED
        BY <4>1
    <3>5. ~IsShown(sh, x)
      BY <1>1, <1>2, <1>7, <3>4, ShownBelow
    <3> QED
      BY <1>8, <3>3, <3>4, <3>5
  <2> QED
    BY <1>2, <1>5, <2>1, <2>2, <2>3
<1>10. Through(m, gr, t)
  <2> SUFFICES ASSUME NEW e \in Inodes(m), e = 0 \/ IsShown(t, e),
                      \A k \in 1 .. Len(gr) : Path(gr, k) # e,
                      NEW x \in EntriesOf(m, e)
               PROVE  IsShown(t, x)
    BY DEF Through
  <2>1. e # id
    <3>1. CASE Len(gr) > n
      <4>1. Len(gr) \in 1 .. Len(gr)
        BY <1>2, <3>1, <1>5
      <4> QED
        BY <1>3, <3>1, <4>1
    <3>2. CASE ~(Len(gr) > n)
      <4>1. tree[m].kind[id] # "dir"
        BY <1>2, <1>5, <3>2
      <4> QED
        BY <4>1 DEF EntriesOf
    <3> QED
      BY <3>1, <3>2
  <2>2. e = 0 \/ IsShown(sh, e)
    BY <1>8, <2>1
  <2>3. \A k \in 1 .. Len(fr) : Path(fr, k) # e
    <3> TAKE k \in 1 .. Len(fr)
    <3>1. k \in 1 .. n /\ k \in 1 .. Len(gr)
      BY <1>2, <1>5 DEF n
    <3> QED
      BY <1>3, <3>1
  <2>4. IsShown(sh, x)
    BY <1>1, <2>2, <2>3 DEF Through
  <2> QED
    BY <1>8, <2>4
<1>11. Led(gr, t)
  <2> SUFFICES ASSUME NEW k \in 2 .. Len(gr)
               PROVE  \E j \in 1 .. Len(t) : t[j].id = Path(gr, k) /\ t[j].level = k - 2
    BY DEF Led
  <2>1. CASE k <= n
    <3>1. k \in 2 .. Len(fr) /\ k \in 1 .. n
      BY <1>2, <2>1 DEF n
    <3>2. PICK j \in 1 .. Len(sh) : sh[j].id = Path(fr, k) /\ sh[j].level = k - 2
      BY <1>1, <3>1 DEF Led
    <3>3. j \in 1 .. Len(t) /\ t[j] = sh[j]
      BY <1>4 DEF l
    <3> QED
      BY <1>3, <3>1, <3>2, <3>3
  <2>2. CASE k > n
    <3>1. k = n + 1 /\ k = Len(gr) /\ Len(gr) > n
      BY <1>2, <1>5, <2>2
    <3>2. l + 1 \in 1 .. Len(t) /\ t[l + 1].id = id /\ t[l + 1].level = n - 1
      BY <1>4 DEF id, n
    <3> QED
      BY <1>2, <1>3, <3>1, <3>2
  <2> QED
    BY <1>2, <2>1, <2>2
<1>12. id \in Within(m, id)
  BY <1>2, WithinIs
<1>13. LastLine(m, gr, t)
  <2>1. Len(t) > 0 /\ t[Len(t)].id = id
    BY <1>4 DEF id
  <2>2. CASE Len(gr) = n
    <3>1. gr[n].i # 0 /\ gr[n].first + gr[n].i - 1 = id
      BY <1>2, <1>6 DEF id, n, Here, FrameType
    <3> QED
      BY <1>12, <2>1, <2>2, <3>1 DEF LastLine
  <2>3. CASE Len(gr) = n + 1
    <3>1. Len(gr) > n /\ Len(gr) # 1 /\ gr[Len(gr)].i = 0 /\ Path(gr, Len(gr)) = id
      BY <1>2, <1>3, <1>6, <2>3
    <3> QED
      BY <2>1, <3>1 DEF LastLine
  <2> QED
    BY <1>5, <2>2, <2>3
<1>14. InPlace(m, t, l + 1)
  <2>1. t[l + 1].id = id /\ t[l + 1].level = n - 1 /\ Dir(m, id) = d
    BY <1>2, <1>4 DEF id, n
  <2>2. \A j \in 1 .. l : t[j].id # id
    <3> TAKE j \in 1 .. l
    <3>1. j \in 1 .. l /\ t[j] = sh[j]
      BY <1>4
    <3> QED
      BY <1>7, <3>1 DEF IsShown, l
  <2>3. IF d = 0 THEN n - 1 = 0
        ELSE \E j \in 1 .. l : t[j].id = d /\ n - 1 = t[j].level + 1
    <3>1. CASE n = 1
      BY <3>1 DEF d, Path
    <3>2. CASE n # 1
      <4>1. d # 0 /\ n \in 2 .. Len(fr)
        <5>1. tree[m].level[0] = 0 /\ n - 1 # 0
          BY <1>2, <3>2 DEF IsTree
        <5>2. d # 0
          BY <1>2, <5>1
        <5>3. n \in 2 .. n
          BY <1>2, <3>2
        <5> QED
          BY <5>2, <5>3 DEF n
      <4>2. PICK j \in 1 .. Len(sh) : sh[j].id = d /\ sh[j].level = n - 2
        BY <1>1, <4>1 DEF Led, d
      <4>3. j \in 1 .. l /\ t[j] = sh[j]
        BY <1>4 DEF l
      <4>4. n - 1 = n - 2 + 1
        BY <1>2
      <4> QED
        BY <4>1, <4>2, <4>3, <4>4
    <3> QED
      BY <3>1, <3>2
  <2>4. IF id - 1 \in EntriesOf(m, d) THEN l > 0 /\ id - 1 \in Within(m, t[l].id)
        ELSE IF d = 0 THEN l = 0 ELSE t[l].id = d
    <3>0. /\ id = fr[n].first + fr[n].i /\ n \in 1 .. Len(fr) /\ n > 0
          /\ EntriesOf(m, d) = fr[n].first .. fr[n].first + fr[n].numFiles - 1
          /\ fr[n].i \in Nat /\ fr[n].first \in Nat /\ fr[n].numFiles \in Nat
          /\ fr[n].i < fr[n].numFiles
      BY <1>1, <1>2, EntriesAre DEF id, n, d, Here, FrameType
    <3>1. CASE fr[n].i = 0
      <4>1. id - 1 \notin EntriesOf(m, d)
        BY <3>0, <3>1
      <4>2. CASE n = 1
        <5>1. l = 0 /\ d = 0
          BY <1>1, <3>0, <3>1, <4>2 DEF LastLine, n, l, d, Path
        <5> QED
          BY <4>1, <5>1
      <4>3. CASE n # 1
        <5>1. l > 0 /\ sh[l].id = d
          BY <1>1, <3>0, <3>1, <4>3 DEF LastLine, n, l, d
        <5>2. d # 0
          BY <1>2, <4>3 DEF IsTree
        <5>3. l \in 1 .. l
          BY <1>4, <5>1
        <5> QED
          BY <1>4, <4>1, <5>1, <5>2, <5>3
      <4> QED
        BY <4>2, <4>3
    <3>2. CASE fr[n].i # 0
      <4>1. id - 1 \in EntriesOf(m, d) /\ id - 1 = fr[n].first + fr[n].i - 1
        <5>1. fr[n].i \in Nat /\ fr[n].first \in Nat /\ fr[n].numFiles \in Nat
          BY ONLY <3>0
        <5>2. id - 1 = fr[n].first + fr[n].i - 1
          BY ONLY <3>0
        <5>3. fr[n].first + fr[n].i - 1
                \in fr[n].first .. fr[n].first + fr[n].numFiles - 1
          BY ONLY <3>0, <3>2, <5>1
        <5> QED
          BY ONLY <3>0, <5>2, <5>3
      <4>2. l > 0 /\ fr[n].first + fr[n].i - 1 \in Within(m, sh[l].id)
        <5>1. LastLine(m, fr, sh) /\ Len(fr) > 0 /\ fr[Len(fr)].i # 0
          BY <1>1, <3>0, <3>2 DEF n
        <5> QED
          BY ONLY <5>1 DEF LastLine, n, l
      <4>3. l \in 1 .. l /\ l > 0
        BY <1>4, <4>2
      <4> QED
        BY <1>4, <4>1, <4>2, <4>3
    <3> QED
      BY <3>1, <3>2
  <2>5. PICK k \in Nat : k = l + 1 /\ k - 1 = l
    BY <1>4
  <2>6. t[k].id = id /\ Dir(m, t[k].id) = d /\ t[k].level = n - 1
    BY <2>1, <2>5
  <2>7. \A j \in 1 .. k - 1 : t[j].id # t[k].id
    BY <2>2, <2>5, <2>6
  <2>8. IF d = 0 THEN t[k].level = 0
        ELSE \E j \in 1 .. k - 1 : t[j].id = d /\ t[k].level = t[j].level + 1
    BY <2>3, <2>5, <2>6
  <2>9. (k > 1 <=> l > 0) /\ (k = 1 <=> l = 0)
    BY <1>4, <2>5
  <2>10. IF t[k].id - 1 \in EntriesOf(m, d)
         THEN k > 1 /\ t[k].id - 1 \in Within(m, t[k - 1].id)
         ELSE IF d = 0 THEN k = 1 ELSE t[k - 1].id = d
    BY <2>4, <2>5, <2>6, <2>9
  <2>11. InPlace(m, t, k)
    BY <2>6, <2>7, <2>8, <2>10 DEF InPlace
  <2> QED
    BY <2>5, <2>11
<1>15. Ordered(m, t)
  <2> SUFFICES ASSUME NEW k \in 1 .. Len(t)
               PROVE  t[k].id \in Inodes(m) \ {0} /\ InPlace(m, t, k)
    BY <1>4 DEF Ordered
  <2>1. CASE k = l + 1
    BY <1>2, <1>4, <1>14, <2>1 DEF id
  <2>2. CASE k # l + 1
    <3>1. k \in 1 .. l /\ t[k] = sh[k] /\ l \in Nat
      BY <1>4, <2>2
    <3>2. sh[k].id \in Inodes(m) \ {0} /\ InPlace(m, sh, k)
      BY <1>1, <3>1 DEF Ordered, l
    <3> QED
      BY <1>4, <3>1, <3>2, StaysInPlace
  <2> QED
    BY <2>1, <2>2
<1> QED
  BY <1>3, <1>9, <1>10, <1>11, <1>13, <1>15 DEF Listing, t

-----------------------------------------------------------------------------
(* A call of ls begins, returns, and is the last to.                       *)

LEMMA ListingBegins ==
  ASSUME NEW m, IsTree(m), NEW fr \in Seq(FrameType), Len(fr) = 1, fr[1].i = 0,
         fr[1].first = sbi[m].inode_array_index[0],
         fr[1].numFiles = tree[m].num_entries[0]
  PROVE  Listing(m, fr, <<>>)
<1>1. /\ Path(fr, 1) = 0 /\ 0 \in Inodes(m) /\ tree[m].kind[0] = "dir"
      /\ tree[m].level[0] = 0
  BY DEF Path, IsTree
<1>2. fr[1] \in FrameType
  BY LenProperties
<1>3. Stacked(m, fr)
  BY <1>1, <1>2 DEF Stacked, FrameType
<1>4. \A x : ~IsShown(<<>>, x)
  BY DEF IsShown
<1>5. EntriesOf(m, 0) = fr[1].first .. fr[1].first + fr[1].numFiles - 1
  BY <1>1 DEF EntriesOf
<1>6. Reached(m, fr, <<>>)
  <2> SUFFICES ASSUME NEW x \in EntriesOf(m, 0)
               PROVE  ~(x < fr[1].first + fr[1].i)
    BY <1>1, <1>4 DEF Reached
  <2> QED
    BY <1>2, <1>5 DEF FrameType
<1>7. Through(m, fr, <<>>)
  BY <1>1, <1>4 DEF Through
<1>8. Led(fr, <<>>)
  BY DEF Led
<1>9. LastLine(m, fr, <<>>)
  BY DEF LastLine
<1>10. Ordered(m, <<>>)
  BY DEF Ordered, IsSeq
<1> QED
  BY <1>3, <1>6, <1>7, <1>8, <1>9, <1>10 DEF Listing

LEMMA CallReturned ==
  ASSUME NEW m, IsTree(m), NEW fr, NEW sh, Listing(m, fr, sh), Len(fr) > 0,
         fr[Len(fr)].i = fr[Len(fr)].numFiles
  PROVE  Listing(m, SubSeq(fr, 1, Len(fr) - 1), sh)
<1> DEFINE n == Len(fr)
           gr == SubSeq(fr, 1, n - 1)
           d == Path(fr, n)
           l == Len(sh)
<1>1. /\ Stacked(m, fr) /\ Reached(m, fr, sh) /\ Through(m, fr, sh)
      /\ Led(fr, sh) /\ LastLine(m, fr, sh) /\ Ordered(m, sh)
  BY DEF Listing
<1>2. n \in Nat \ {0} /\ fr \in Seq(FrameType) /\ \A k \in 1 .. n : fr[k] \in FrameType
  BY <1>1, LenProperties DEF Stacked
<1>3. /\ d \in Inodes(m) /\ n \in 1 .. Len(fr)
      /\ EntriesOf(m, d) = fr[n].first .. fr[n].first + fr[n].numFiles - 1
      /\ fr[n].first \in Nat /\ fr[n].numFiles \in Nat /\ fr[n].i \in Nat
  BY <1>1, <1>2, EntriesAre DEF FrameType
<1>4. /\ gr \in Seq(FrameType) /\ Len(gr) = n - 1
      /\ \A k \in 1 .. n - 1 : gr[k] = fr[k]
  <2>1. 1 \in 1 .. Len(fr) + 1 /\ n - 1 \in 1 - 1 .. Len(fr) /\ n - 1 - 1 + 1 = n - 1
    BY <1>2
  <2>2. /\ gr \in Seq(FrameType) /\ Len(gr) = n - 1 - 1 + 1
        /\ \A k \in 1 .. n - 1 - 1 + 1 : gr[k] = fr[1 + k - 1]
    BY <1>2, <2>1, SubSeqProperties
  <2>3. \A k \in 1 .. n - 1 : 1 + k - 1 = k
    BY <1>2
  <2> QED
    BY <2>1, <2>2, <2>3
<1> HIDE DEF gr
<1>5. ASSUME NEW k \in 1 .. Len(gr)
      PROVE  /\ gr[k] = fr[k] /\ Path(gr, k) = Path(fr, k)
             /\ k \in 1 .. Len(fr) /\ k < Len(fr)
  <2>1. k \in 1 .. n - 1 /\ k \in 1 .. n /\ (k # 1 => k - 1 \in 1 .. n - 1)
    BY <1>2, <1>4
  <2> QED
    BY <1>2, <1>4, <2>1 DEF Path
<1>6. Stacked(m, gr)
  BY <1>1, <1>4, <1>5 DEF Stacked
<1>7. Reached(m, gr, sh)
  BY <1>1, <1>5 DEF Reached
<1>8. Led(gr, sh)
  <2> SUFFICES ASSUME NEW k \in 2 .. Len(gr)
               PROVE  \E j \in 1 .. Len(sh) : sh[j].id = Path(gr, k) /\ sh[j].level = k - 2
    BY DEF Led
  <2>1. k \in 1 .. Len(gr) /\ k \in 2 .. Len(fr)
    BY <1>2, <1>4
  <2> QED
    BY <1>1, <1>5, <2>1 DEF Led
<1>9. Through(m, gr, sh)
  <2> SUFFICES ASSUME NEW e \in Inodes(m), e = 0 \/ IsShown(sh, e),
                      \A k \in 1 .. Len(gr) : Path(gr, k) # e,
                      NEW x \in EntriesOf(m, e)
               PROVE  IsShown(sh, x)
    BY DEF Through
  <2>1. CASE e = d
    <3>1. IsShown(sh, x) <=> x < fr[n].first + fr[n].i
      BY <1>1, <1>3, <2>1 DEF Reached
    <3>2. x < fr[n].first + fr[n].i
      BY <1>3, <2>1
    <3> QED
      BY <3>1, <3>2
  <2>2. CASE e # d
    <3>1. \A k \in 1 .. Len(fr) : Path(fr, k) # e
      <4> TAKE k \in 1 .. Len(fr)
      <4>1. k = n \/ k \in 1 .. Len(gr)
        BY <1>2, <1>4
      <4> QED
        BY <1>5, <2>2, <4>1
    <3> QED
      BY <1>1, <3>1 DEF Through
  <2> QED
    BY <2>1, <2>2
<1>10. LastLine(m, gr, sh)
  <2> SUFFICES ASSUME Len(gr) > 0
               PROVE  IF gr[Len(gr)].i = 0
                      THEN IF Len(gr) = 1 THEN Len(sh) = 0
                           ELSE Len(sh) > 0 /\ sh[Len(sh)].id = Path(gr, Len(gr))
                      ELSE /\ Len(sh) > 0
                           /\ gr[Len(gr)].first + gr[Len(gr)].i - 1
                                \in Within(m, sh[Len(sh)].id)
    BY DEF LastLine
  <2>1. /\ n # 1 /\ n > 0 /\ n - 1 \in 1 .. Len(gr) /\ Len(gr) = n - 1
    BY <1>2, <1>4
  <2>2. gr[n - 1] = fr[n - 1] /\ fr[n - 1].i > 0 /\ fr[n - 1].i \in Nat
    <3>1. gr[n - 1] = fr[n - 1] /\ n - 1 \in 1 .. Len(fr) /\ n - 1 < Len(fr)
      BY <1>5, <2>1
    <3> QED
      BY <1>1, <1>2, <3>1 DEF Stacked, FrameType
  <2>3. d = fr[n - 1].first + fr[n - 1].i - 1
    BY <2>1 DEF Path
  <2>4. Len(sh) > 0 /\ d \in Within(m, sh[Len(sh)].id)
    <3>1. CASE fr[n].i = 0
      <4>1. Len(sh) > 0 /\ sh[Len(sh)].id = d
        BY <1>1, <2>1, <3>1 DEF LastLine
      <4>2. d \in Within(m, d)
        BY <1>3, WithinIs
      <4> QED
        BY <4>1, <4>2
    <3>2. CASE fr[n].i # 0
      <4> DEFINE e == fr[n].first + fr[n].i - 1
      <4>1. Len(sh) > 0 /\ e \in Within(m, sh[Len(sh)].id)
        BY <1>1, <2>1, <3>2 DEF LastLine
      <4>2. e \in EntriesOf(m, d)
        BY <1>3, <3>2
      <4>3. Dir(m, e) = d /\ e # 0
        BY <1>3, <4>2, DirIs
      <4>4. sh[Len(sh)].id \in Inodes(m)
        <5>1. Len(sh) \in Nat
          BY <1>1, LenProperties DEF Ordered, IsSeq
        <5>2. Len(sh) \in 1 .. Len(sh)
          BY <4>1, <5>1
        <5> QED
          BY <1>1, <5>2 DEF Ordered
      <4> HIDE DEF e
      <4> QED
        BY <4>1, <4>3, <4>4, WithinClosed
    <3> QED
      BY <3>1, <3>2
  <2>5. gr[Len(gr)].i # 0 /\ gr[Len(gr)].first + gr[Len(gr)].i - 1 = d
    BY <2>1, <2>2, <2>3
  <2> QED
    BY <2>4, <2>5
<1> QED
  BY <1>1, <1>6, <1>7, <1>8, <1>9, <1>10 DEF Listing, gr

LEMMA ListingEnds ==
  ASSUME NEW m, IsTree(m), NEW fr, NEW sh, Listing(m, fr, sh), Len(fr) = 0
  PROVE  {sh[k].id : k \in 1 .. Len(sh)} = Inodes(m) \ {0}
<1> DEFINE Lost == {x \in Inodes(m) \ {0} : ~IsShown(sh, x)}
           T == {tree[m].level[x] : x \in Lost}
<1>1. ASSUME NEW y \in Lost PROVE FALSE
  <2>1. T \subseteq Nat /\ T # {}
    BY <1>1 DEF IsTree
  <2>2. PICK a \in T : \A b \in T : a <= b
    <3> HIDE DEF T
    <3> QED
      BY <2>1, LeastIs
  <2>3. PICK x \in Lost : tree[m].level[x] = a
    OBVIOUS
  <2>4. /\ Dir(m, x) \in Inodes(m) /\ x \in EntriesOf(m, Dir(m, x))
        /\ tree[m].level[x] = tree[m].level[Dir(m, x)] + 1
        /\ tree[m].level[Dir(m, x)] \in Nat
    BY <2>3, InDir DEF IsTree
  <2>5. Dir(m, x) \notin Lost
    <3>1. Dir(m, x) \in Lost => tree[m].level[Dir(m, x)] \in T
      OBVIOUS
    <3> HIDE DEF Lost, T
    <3> QED
      BY <2>1, <2>2, <2>3, <2>4, <3>1
  <2>6. IsShown(sh, x)
    <3>1. Dir(m, x) = 0 \/ IsShown(sh, Dir(m, x))
      BY <2>4, <2>5
    <3> QED
      BY <2>4, <3>1 DEF Listing, Through
  <2> QED
    BY <2>3, <2>6
<1>2. \A x \in Inodes(m) \ {0} : IsShown(sh, x)
  BY <1>1
<1>3. \A k \in 1 .. Len(sh) : sh[k].id \in Inodes(m) \ {0}
  BY DEF Listing, Ordered
<1> QED
  BY <1>2, <1>3 DEF IsShown

-----------------------------------------------------------------------------
(* What the tool looks up of an image whose tables are complete is there.  *)
AllTrees == \A m \in Mounts : IsTree(m) /\ Complete(m)

LEMMA StoredAt ==
  ASSUME Memory, ~Missing, NEW name \in Names, NEW f, Stores(image, name, f),
         NEW i \in DOMAIN f
  PROVE  i \in Nat /\ In(name, i) /\ Get(name, i) = f[i]
<1>1. loaded[name] = region[image][name]
  BY InMemory
<1>2. i \in Nat /\ i < region[image][name].max_index
  BY DEF Stores
<1> QED
  BY <1>1, <1>2 DEF In, Get, Stores

LEMMA ImageIs ==
  ASSUME AllLaidOut, AllTrees, Memory
  PROVE  /\ image \in Mounts /\ TablesOK(sbi[image]) /\ StoresTables(image)
         /\ IsTree(image) /\ Complete(image)
  BY Constants DEF Memory, AllLaidOut, AllTrees, LaidOut

LEMMA InodeThere ==
  ASSUME AllLaidOut, AllTrees, Memory, ~Missing, NEW id \in Inodes(image)
  PROVE  /\ id \in Nat /\ FileThere(id) /\ In("inode_num_entries", id)
         /\ EntryThere(id) /\ Kind(id) = tree[image].kind[id]
         /\ Get("inode_file_size", id) = sbi[image].inode_file_size[id]
         /\ Get("inode_array_index", id) = sbi[image].inode_array_index[id]
         /\ Get("inode_num_entries", id) = tree[image].num_entries[id]
         /\ sbi[image].inode_file_size[id] \in Nat
         /\ sbi[image].inode_array_index[id] \in Nat
<1>1. /\ id \in DOMAIN sbi[image].inode_file_size
      /\ id \in DOMAIN sbi[image].inode_array_index
      /\ id \in DOMAIN tree[image].num_entries
      /\ sbi[image].inode_file_size[id] \in Nat
      /\ sbi[image].inode_array_index[id] \in Nat
  BY ImageIs DEF Complete, TablesOK
<1>2. /\ id \in Nat /\ In("inode_file_size", id)
      /\ Get("inode_file_size", id) = sbi[image].inode_file_size[id]
  BY <1>1, ImageIs, StoredAt DEF StoresTables, Names
<1>3. /\ In("inode_array_index", id)
      /\ Get("inode_array_index", id) = sbi[image].inode_array_index[id]
  BY <1>1, ImageIs, StoredAt DEF StoresTables, Names
<1>4. /\ In("inode_num_entries", id)
      /\ Get("inode_num_entries", id) = tree[image].num_entries[id]
  BY <1>1, ImageIs, StoredAt DEF StoresTables, Names
<1>5. /\ loaded["modes"] = region[image]["modes"]
      /\ loaded["inode_mode_index"] = region[image]["inode_mode_index"]
      /\ loaded["inode_name_offset"] = region[image]["inode_name_offset"]
  BY InMemory DEF Names
<1>6. EntryThere(id)
  BY <1>5, ImageIs DEF EntryThere, In, Get, Complete
<1>7. Kind(id) = tree[image].kind[id]
  <2>1. KindIn(loaded, id) = KindIn(region[image], id)
    BY <1>5 DEF KindIn
  <2> QED
    BY <2>1, ImageIs DEF Kind, Complete
<1> QED
  BY <1>1, <1>2, <1>3, <1>4, <1>6, <1>7 DEF FileThere

(* What printInfo shows of a file are the types of its nodes.              *)
LEMMA InfoIs ==
  ASSUME AllLaidOut, AllTrees, Memory, ~Missing, NEW id \in Inodes(image),
         tree[image].kind[id] = "file"
  PROVE  LET p(i) == [m |-> image, ino |-> id, index |-> i]
         IN  /\ InfoThere(id)
             /\ Len(Info(id)) = MaxBlock(p(0))
             /\ \A i \in 1 .. Len(Info(id)) : Info(id)[i] = NodeType(p(i - 1))
<1> DEFINE p(i) == [m |-> image, ino |-> id, index |-> i]
           a == sbi[image].inode_array_index[id]
           n == MaxBlock(p(0))
<1>1. /\ FileThere(id) /\ a \in Nat
      /\ Get("inode_array_index", id) = a
      /\ Get("inode_file_size", id) = sbi[image].inode_file_size[id]
      /\ sbi[image].inode_file_size[id] \in Nat
  BY InodeThere
<1>2. PagesShown(id) = n
  BY <1>1 DEF PagesShown, MaxBlock, FileSize
<1>3. n \in Nat
  <2>1. sbi[image].inode_file_size[id] + PAGE_CACHE_SIZE - 1 \in Nat
    BY <1>1, Constants
  <2>2. (sbi[image].inode_file_size[id] + PAGE_CACHE_SIZE - 1) \div PAGE_CACHE_SIZE \in Nat
    BY <2>1, Constants, DivMod
  <2> QED
    BY <2>2 DEF MaxBlock, FileSize
<1>4. \A k \in 0 .. n - 1 : a + k \in DOMAIN sbi[image].node_type
  BY ImageIs DEF Complete
<1>5. ASSUME NEW k \in 0 .. n - 1
      PROVE  /\ In("node_type", a + k)
             /\ Get("node_type", a + k) = sbi[image].node_type[a + k]
             /\ Get("node_type", a + k) \in 0 .. 2
  <2> HIDE DEF a, n
  <2>1. a + k \in DOMAIN sbi[image].node_type
    BY <1>4
  <2>2. /\ In("node_type", a + k)
        /\ Get("node_type", a + k) = sbi[image].node_type[a + k]
    BY <2>1, ImageIs, StoredAt DEF StoresTables, Names
  <2>3. sbi[image].node_type[a + k] \in {XIP, Compressed, Byte_Aligned}
    BY <2>1, ImageIs DEF TablesOK
  <2> QED
    BY <2>2, <2>3 DEF XIP, Compressed, Byte_Aligned
<1>6. InfoThere(id)
  <2> HIDE DEF n
  <2> QED
    BY <1>1, <1>2, <1>5 DEF InfoThere, FileThere
<1>7. Info(id) = [k \in 1 .. n |-> Get("node_type", a + k - 1)]
  BY <1>1, <1>2 DEF Info
<1>8. Len(Info(id)) = n
  <2> HIDE DEF a, n
  <2>1. Info(id) = [k \in 1 .. n |-> Info(id)[k]]
    BY <1>7
  <2> QED
    BY <1>3, <2>1, Listed
<1>9. ASSUME NEW i \in 1 .. n PROVE Info(id)[i] = NodeType(p(i - 1))
  <2>1. NodeType(p(i - 1)) = sbi[image].node_type[a + (i - 1)]
    BY DEF NodeType, ArrayIndex
  <2> HIDE DEF a, n
  <2>2. i - 1 \in 0 .. n - 1 /\ a + i - 1 = a + (i - 1)
    BY <1>1, <1>3
  <2> QED
    BY <1>5, <1>7, <2>1, <2>2
<1> HIDE DEF n
<1> QED
  BY <1>6, <1>8, <1>9 DEF n

(* readFile finds the node that it stands at, and what the node leads to.  *)
LEMMA NodeReads ==
  ASSUME AllLaidOut, AllTrees, Memory, ~Missing, Reading, rd.length > 0
  PROVE  /\ NodeThere
         /\ Get("node_type", rd.node) = Byte_Aligned =>
              In("banode_offset", Get("node_index", rd.node))
         /\ Get("node_type", rd.node) = Compressed =>
              CompressedThere(Get("node_index", rd.node))
<1>1. PICK k \in Nat : Stands(k)
  BY StandsSomewhere
<1> DEFINE r == Page(k)
           x == NodeIndex(r)
<1>2. /\ StoredOK(r) /\ rd.node = ArrayIndex(r) /\ r.m = image
  BY <1>1 DEF Stands, Page
<1>3. rd.node \in DOMAIN sbi[image].node_type /\ rd.node \in DOMAIN sbi[image].node_index
  BY <1>2, ImageIs DEF StoredOK, TablesOK
<1>4. /\ In("node_type", rd.node) /\ In("node_index", rd.node)
      /\ Get("node_type", rd.node) = sbi[image].node_type[rd.node]
      /\ Get("node_index", rd.node) = sbi[image].node_index[rd.node]
  BY <1>3, ImageIs, StoredAt DEF StoresTables, Names
<1>5. sbi[image].node_type[rd.node] \in 0 .. 2
  BY <1>3, ImageIs DEF TablesOK, XIP, Compressed, Byte_Aligned
<1>6. NodeThere
  BY <1>4, <1>5 DEF NodeThere
<1>7. Get("node_type", rd.node) = NodeType(r) /\ Get("node_index", rd.node) = x
  BY <1>2, <1>4 DEF NodeType, NodeIndex
<1>8. ASSUME NodeType(r) = Byte_Aligned PROVE In("banode_offset", x)
  <2>1. x \in DOMAIN sbi[image].banode_offset
    BY <1>2, <1>8 DEF StoredOK
  <2> QED
    BY <2>1, ImageIs, StoredAt DEF StoresTables, Names
<1>9. ASSUME NodeType(r) = Compressed PROVE CompressedThere(x)
  <2>1. x \in DOMAIN sbi[image].cnode_offset /\ x \in DOMAIN sbi[image].cnode_index
    BY <1>2, <1>9, ImageIs DEF StoredOK, TablesOK
  <2> HIDE DEF x
  <2>2. /\ In("cnode_offset", x) /\ In("cnode_index", x)
        /\ Get("cnode_index", x) = sbi[image].cnode_index[x]
    BY <2>1, ImageIs, StoredAt DEF StoresTables, Names
  <2>3. sbi[image].cnode_index[x] \in DOMAIN sbi[image].cblock_len
    BY <2>1, ImageIs DEF TablesOK
  <2>4. sbi[image].cnode_index[x] + 1 \in DOMAIN packed[image]
    BY <2>3, ImageIs DEF Complete
  <2>5. In("cblock_offset", sbi[image].cnode_index[x] + 1)
    BY <2>4, ImageIs, StoredAt DEF StoresTables, Names
  <2> QED
    BY <2>2, <2>5 DEF CompressedThere
<1> HIDE DEF r, x
<1> QED
  BY <1>6, <1>7, <1>8, <1>9

-----------------------------------------------------------------------------
(* The invariant of ls.                                                    *)

(* A line of a file has the types of all of its nodes.                     *)
InfoRight(m, line) ==
  LET p(i) == [m |-> m, ino |-> line.id, index |-> i]
  IN  tree[m].kind[line.id] = "file" =>
        /\ Len(line.info) = MaxBlock(p(0))
        /\ \A i \in 1 .. Len(line.info) : line.info[i] = NodeType(p(i - 1))

Informed(m, sh) == \A k \in 1 .. Len(sh) : InfoRight(m, sh[k])

(* The tool has given up an image while it loads it, or in a read.         *)
GivenUp == ~Supported(image) /\ frames = <<>> /\ shown = <<>> /\ rd = NoFile

Astray ==
  /\ Overreaches /\ rd.length \in 0 .. WORD - 1
  /\ ~Missing /\ Listing(image, frames, shown) /\ Informed(image, shown)

Lists ==
  /\ pc \in {"open", "load"} => frames = <<>> /\ shown = <<>>
  /\ \A name \in DOMAIN loaded : Loadable(region[image][name])
  /\ pc \in {"load", "ls", "read", "print", "exit"} => Known(image)
  /\ pc \in {"ls", "read", "print", "exit"} =>
       ~Missing /\ Listing(image, frames, shown) /\ Informed(image, shown)
  /\ pc = "exit" => frames = <<>>
  /\ pc \in {"read", "print"} /\ frames # <<>> =>
       Top.i < Top.numFiles /\ tree[image].kind[Entry] = "link"
  /\ pc = "aborted" => GivenUp \/ Astray

LEMMA InformedAdded ==
  ASSUME NEW m, NEW sh, IsSeq(sh), Informed(m, sh), NEW line, InfoRight(m, line)
  PROVE  Informed(m, Append(sh, line))
<1>1. /\ Len(sh) \in Nat /\ Len(Append(sh, line)) = Len(sh) + 1
      /\ Append(sh, line)[Len(sh) + 1] = line
      /\ \A k \in 1 .. Len(sh) : Append(sh, line)[k] = sh[k]
  BY Lengthened
<1> SUFFICES ASSUME NEW k \in 1 .. Len(sh) + 1
             PROVE  InfoRight(m, Append(sh, line)[k])
  BY <1>1 DEF Informed
<1>2. CASE k = Len(sh) + 1
  BY <1>1, <1>2
<1>3. CASE k # Len(sh) + 1
  <2>1. k \in 1 .. Len(sh)
    BY <1>1, <1>3
  <2> QED
    BY <1>1, <2>1 DEF Informed
<1> QED
  BY <1>2, <1>3

(* How ls goes on is as LineAdded has it.                                  *)
LEMMA AdvancedGoesOn ==
  ASSUME Calls, pc = "ls" \/ frames # <<>>
  PROVE  /\ Entry = Here(frames) /\ Len(frames) > 0 /\ Top = frames[Len(frames)]
         /\ Moved(frames, Advanced)
         /\ tree[image].kind[Entry] # "dir" => GoesOn(image, frames, Advanced)
<1>1. /\ Len(frames) \in Nat \ {0} /\ Top \in FrameType
      /\ Advanced \in Seq(FrameType) /\ Len(Advanced) = Len(frames)
      /\ Entry \in Nat /\ frames \in Seq(FrameType)
  BY CallsFacts DEF Calls
<1>2. Entry = Here(frames) /\ Len(frames) > 0 /\ Top = frames[Len(frames)]
  BY <1>1 DEF Entry, Here, Top
<1>3. Moved(frames, Advanced)
  <2>1. DOMAIN frames = 1 .. Len(frames) /\ Len(frames) \in DOMAIN frames
    BY <1>1, LenProperties
  <2>2. frames[Len(frames)] \in FrameType
    BY <1>1, <1>2
  <2>3. \A k \in 1 .. Len(frames) - 1 : Advanced[k] = frames[k]
    <3>1. \A k \in 1 .. Len(frames) - 1 : k \in DOMAIN frames /\ k # Len(frames)
      BY <1>1, <2>1
    <3> QED
      BY <3>1 DEF Advanced
  <2>4. Advanced[Len(frames)] = [frames[Len(frames)] EXCEPT !.i = @ + 1]
    BY <2>1 DEF Advanced
  <2>5. /\ Advanced[Len(frames)].first = frames[Len(frames)].first
        /\ Advanced[Len(frames)].numFiles = frames[Len(frames)].numFiles
        /\ Advanced[Len(frames)].i = frames[Len(frames)].i + 1
    BY <2>2, <2>4 DEF FrameType
  <2> QED
    BY <1>1, <2>3, <2>5 DEF Moved
<1>4. tree[image].kind[Entry] # "dir" => GoesOn(image, frames, Advanced)
  BY <1>1, <1>2, <1>3 DEF GoesOn
<1> QED
  BY <1>2, <1>3, <1>4

LEMMA DescendedGoesOn ==
  ASSUME AllLaidOut, AllTrees, Memory, ~Missing, Calls, pc = "ls",
         Entry \in Inodes(image), tree[image].kind[Entry] = "dir"
  PROVE  GoesOn(image, frames, Descended(Entry))
<1> DEFINE gr == Descended(Entry)
           n == Len(frames)
<1>1. /\ n \in Nat \ {0} /\ Advanced \in Seq(FrameType) /\ Len(Advanced) = n
  BY CallsFacts
<1>2. /\ In("inode_num_entries", Entry) /\ In("inode_array_index", Entry)
      /\ Entry \in Nat
      /\ Frame(Entry) = [first |-> sbi[image].inode_array_index[Entry],
                         numFiles |-> tree[image].num_entries[Entry], i |-> 0]
  BY InodeThere DEF Frame, FileThere
<1>3. Frame(Entry) \in FrameType
  BY <1>2, FrameIs
<1>4. /\ gr \in Seq(FrameType) /\ Len(gr) = n + 1 /\ gr[n + 1] = Frame(Entry)
      /\ \A k \in 1 .. n : gr[k] = Advanced[k]
  BY <1>1, <1>3, AppendProperties DEF Descended
<1> HIDE DEF gr
<1>5. Entry = Here(frames) /\ Moved(frames, Advanced)
  BY AdvancedGoesOn
<1>6. Moved(frames, gr)
  <2>1. /\ Len(gr) >= n /\ n \in 1 .. n
        /\ \A k \in 1 .. n - 1 : k \in 1 .. n
    BY <1>1, <1>4
  <2> QED
    BY <1>4, <1>5, <2>1 DEF Moved
<1> QED
  BY <1>2, <1>4, <1>5, <1>6 DEF GoesOn, gr

(* Where ls stands at an entry.                                            *)
LEMMA EntryIs ==
  ASSUME AllLaidOut, AllTrees, Memory, Calls, Listing(image, frames, shown),
         pc = "ls" \/ frames # <<>>, Top.i < Top.numFiles
  PROVE  Entry \in Inodes(image)
<1>1. /\ Entry = Here(frames) /\ Len(frames) > 0 /\ Top = frames[Len(frames)]
  BY AdvancedGoesOn
<1> QED
  BY <1>1, ImageIs, HereIs DEF Listing

LEMMA LineShown ==
  ASSUME AllLaidOut, AllTrees, Memory, Calls, Listing(image, frames, shown),
         Informed(image, shown),
         pc = "ls" \/ frames # <<>>, Top.i < Top.numFiles,
         NEW info, InfoRight(image, Line(Entry, Len(frames) - 1, info)),
         NEW gr, GoesOn(image, frames, gr)
  PROVE  LET sh == Append(shown, Line(Entry, Len(frames) - 1, info))
         IN  Listing(image, gr, sh) /\ Informed(image, sh)
<1> DEFINE line == Line(Entry, Len(frames) - 1, info)
<1>1. /\ Entry = Here(frames) /\ Len(frames) > 0 /\ Top = frames[Len(frames)]
  BY AdvancedGoesOn
<1>2. line.id = Here(frames) /\ line.level = Len(frames) - 1
  BY <1>1 DEF Line
<1>3. InfoRight(image, line)
  OBVIOUS
<1> HIDE DEF line
<1>4. Listing(image, gr, Append(shown, line))
  BY <1>1, <1>2, ImageIs, LineAdded
<1>5. Informed(image, Append(shown, line))
  BY <1>3, InformedAdded DEF Listing, Ordered
<1> QED
  BY <1>4, <1>5 DEF line

LEMMA NoInfo ==
  ASSUME NEW m, NEW id, NEW level, NEW info, tree[m].kind[id] # "file"
  PROVE  InfoRight(m, Line(id, level, info))
BY DEF InfoRight, Line

-----------------------------------------------------------------------------
(* The steps of ls.                                                        *)

LEMMA ListsInit == Init => Lists
BY DEF Init, Lists

(* An image that the tool gives up while it loads is one that it does not  *)
(* implement, and one that it has loaded is one that it does.              *)
LEMMA LoadLists ==
  ASSUME AllLaidOut, AllTrees, ToolInv, Lists, Open \/ LoadRegion
  PROVE  Lists'
<1>1. Memory /\ Reads
  BY DEF ToolInv
<1>2. CASE Open
  <2>1. pc = "open" /\ rd = NoFile /\ frames = <<>> /\ shown = <<>>
    BY <1>1, <1>2 DEF Open, Reads, Lists
  <2>2. CASE Known(image)
    <3>1. pc' = "load" /\ UNCHANGED <<image, loaded, frames, shown, rd>>
      BY <1>2, <2>2 DEF Open, Known
    <3> QED
      BY <2>1, <2>2, <3>1 DEF Lists, Known
  <2>3. CASE ~Known(image)
    <3>1. pc' = "aborted" /\ UNCHANGED <<image, loaded, frames, shown, rd>>
      BY <1>2, <2>3 DEF Open, Abort, Known
    <3>2. ~Supported(image)'
      BY <2>3, <3>1 DEF Supported, Known
    <3> QED
      BY <2>1, <3>1, <3>2 DEF Lists, GivenUp
  <2> QED
    BY <2>2, <2>3
<1>3. CASE LoadRegion
  <2> DEFINE name == Regions[Cardinality(DOMAIN loaded) + 1]
  <2>1. pc = "load" /\ rd = NoFile /\ frames = <<>> /\ shown = <<>> /\ Known(image)
    BY <1>1, <1>3 DEF LoadRegion, Reads, Lists
  <2>2. CASE Loadable(region[image][name])
    <3>1. /\ loaded' = [x \in DOMAIN loaded \cup {name} |->
                          IF x = name THEN region[image][x] ELSE loaded[x]]
          /\ UNCHANGED <<pc, image, frames, shown>>
      BY <1>3, <2>2 DEF LoadRegion
    <3>2. \A x \in DOMAIN loaded' : Loadable(region[image][x])
      BY <2>2, <3>1 DEF Lists
    <3> QED
      BY <2>1, <3>1, <3>2 DEF Lists, Known, Loadable
  <2>3. CASE ~Loadable(region[image][name])
    <3>1. pc' = "aborted" /\ UNCHANGED <<image, loaded, frames, shown, rd>>
      BY <1>3, <2>3 DEF LoadRegion, Abort
    <3>2. name \in DOMAIN region[image]
      <4>1. Cardinality(DOMAIN loaded) \in Nat /\ Missing
        BY <1>1, <1>3, FS_CardinalityType DEF Memory, LoadRegion
      <4>2. Cardinality(DOMAIN loaded) + 1 \in 1 .. Len(Regions)
        BY <4>1, RegionsDiffer DEF Missing
      <4> QED
        BY <1>1, <4>2, ImageIs DEF Complete
    <3>3. ~Supported(image)'
      <4> HIDE DEF name
      <4> QED
        BY <2>3, <3>1, <3>2 DEF Supported, Loadable
    <3> QED
      BY <2>1, <3>1, <3>3 DEF Lists, Loadable, GivenUp
  <2> QED
    BY <2>2, <2>3
<1> QED
  BY <1>2, <1>3

LEMMA LoadedLists ==
  ASSUME AllLaidOut, AllTrees, ToolInv, Lists, Loaded
  PROVE  Lists'
<1>1. Memory /\ pc = "load" /\ ~Missing /\ frames = <<>> /\ shown = <<>> /\ Known(image)
  BY DEF ToolInv, Loaded, Lists
<1>2. IsTree(image) /\ 0 \in Inodes(image)
  BY <1>1, ImageIs DEF IsTree
<1>3. /\ In("inode_num_entries", 0) /\ In("inode_array_index", 0)
      /\ Frame(0) = [first |-> sbi[image].inode_array_index[0],
                     numFiles |-> tree[image].num_entries[0], i |-> 0]
  BY <1>1, <1>2, InodeThere DEF FileThere, Frame
<1>4. Frame(0) \in FrameType
  BY <1>1, <1>3, FrameIs
<1>5. /\ pc' = "ls" /\ frames' = <<Frame(0)>>
      /\ UNCHANGED <<image, loaded, shown>>
  BY <1>3 DEF Loaded
<1>6. Listing(image, frames', <<>>)
  <2>1. frames' \in Seq(FrameType) /\ Len(frames') = 1 /\ frames'[1] = Frame(0)
    BY <1>4, <1>5
  <2> QED
    BY <1>2, <1>3, <2>1, ListingBegins
<1>7. Informed(image, <<>>)
  BY DEF Informed
<1> QED
  BY <1>1, <1>5, <1>6, <1>7 DEF Lists, Missing, Known, Loadable

LEMMA EntryLists ==
  ASSUME AllLaidOut, AllTrees, ToolInv, Lists, LsEntry
  PROVE  Lists'
<1>1. /\ Memory /\ Calls /\ pc = "ls" /\ ~Missing /\ Top.i < Top.numFiles
      /\ Listing(image, frames, shown) /\ Informed(image, shown) /\ Known(image)
  BY DEF ToolInv, LsEntry, Lists
<1>2. Entry \in Inodes(image)
  BY <1>1, EntryIs
<1>3. /\ EntryThere(Entry) /\ Kind(Entry) = tree[image].kind[Entry]
      /\ In("inode_num_entries", Entry) /\ In("inode_array_index", Entry)
  BY <1>1, <1>2, InodeThere DEF FileThere
<1>4. Kind(Entry) = "file" => InfoThere(Entry)
  BY <1>1, <1>2, <1>3, InfoIs
<1> DEFINE level == Len(frames) - 1
<1>5. /\ UNCHANGED <<pc, image, loaded>>
      /\ \/ /\ Kind(Entry) = "dir"
            /\ shown' = Append(shown, Line(Entry, level, <<>>))
            /\ frames' = Descended(Entry)
         \/ /\ Kind(Entry) = "file"
            /\ shown' = Append(shown, Line(Entry, level, Info(Entry)))
            /\ frames' = Advanced
         \/ /\ Kind(Entry) = "other"
            /\ shown' = Append(shown, Line(Entry, level, <<>>))
            /\ frames' = Advanced
  BY <1>3, <1>4 DEF LsEntry
<1>6. Listing(image, frames', shown') /\ Informed(image, shown')
  <2>1. CASE /\ Kind(Entry) = "dir"
             /\ shown' = Append(shown, Line(Entry, level, <<>>))
             /\ frames' = Descended(Entry)
    <3>1. GoesOn(image, frames, frames')
      BY <1>1, <1>2, <1>3, <2>1, DescendedGoesOn
    <3>2. InfoRight(image, Line(Entry, level, <<>>))
      BY <1>3, <2>1, NoInfo
    <3> QED
      BY <1>1, <2>1, <3>1, <3>2, LineShown
  <2>2. CASE /\ Kind(Entry) = "file"
             /\ shown' = Append(shown, Line(Entry, level, Info(Entry)))
             /\ frames' = Advanced
    <3>1. GoesOn(image, frames, frames')
      BY <1>1, <1>3, <2>2, AdvancedGoesOn
    <3>2. InfoRight(image, Line(Entry, level, Info(Entry)))
      <4>1. /\ Line(Entry, level, Info(Entry)).id = Entry
            /\ Line(Entry, level, Info(Entry)).info = Info(Entry)
        BY DEF Line
      <4> QED
        BY <1>1, <1>2, <1>3, <2>2, <4>1, InfoIs DEF InfoRight
    <3> QED
      BY <1>1, <2>2, <3>1, <3>2, LineShown
  <2>3. CASE /\ Kind(Entry) = "other"
             /\ shown' = Append(shown, Line(Entry, level, <<>>))
             /\ frames' = Advanced
    <3>1. GoesOn(image, frames, frames')
      BY <1>1, <1>3, <2>3, AdvancedGoesOn
    <3>2. InfoRight(image, Line(Entry, level, <<>>))
      BY <1>3, <2>3, NoInfo
    <3> QED
      BY <1>1, <2>3, <3>1, <3>2, LineShown
  <2> QED
    BY <1>5, <2>1, <2>2, <2>3
<1> QED
  BY <1>1, <1>5, <1>6 DEF Lists, Missing, Known, Loadable

LEMMA LinkLists ==
  ASSUME AllLaidOut, AllTrees, ToolInv, Lists, LsLink
  PROVE  Lists'
<1>1. /\ Memory /\ Calls /\ pc = "ls" /\ ~Missing /\ Top.i < Top.numFiles
      /\ Listing(image, frames, shown) /\ Informed(image, shown) /\ Known(image)
      /\ Kind(Entry) = "link"
  BY DEF ToolInv, LsLink, Lists
<1>2. Entry \in Inodes(image)
  BY <1>1, EntryIs
<1>3. FileThere(Entry) /\ tree[image].kind[Entry] = "link"
  BY <1>1, <1>2, InodeThere
<1>4. pc' = "read" /\ UNCHANGED <<image, loaded, frames, shown>>
  BY <1>3 DEF LsLink
<1>5. Top' = Top /\ Entry' = Entry
  BY <1>4 DEF Top, Entry
<1> QED
  BY <1>1, <1>3, <1>4, <1>5 DEF Lists, Missing, Known, Loadable

LEMMA ReturnLists ==
  ASSUME AllLaidOut, AllTrees, ToolInv, Lists, LsReturn
  PROVE  Lists'
<1>1. /\ Memory /\ Calls /\ pc = "ls" /\ ~Missing /\ Top.i = Top.numFiles
      /\ Listing(image, frames, shown) /\ Informed(image, shown) /\ Known(image)
  BY DEF ToolInv, LsReturn, Lists
<1>2. Len(frames) > 0 /\ Top = frames[Len(frames)]
  BY <1>1, AdvancedGoesOn
<1>3. FileThere(wanted)
  <2>1. wanted \in Inodes(image)
    BY <1>1, ImageIs DEF Complete, Memory
  <2> QED
    BY <1>1, <2>1, InodeThere
<1>4. /\ UNCHANGED <<image, loaded, shown>>
      /\ frames' = SubSeq(frames, 1, Len(frames) - 1)
      /\ IF frames' # <<>> THEN pc' = pc ELSE pc' = "read"
  BY <1>3 DEF LsReturn
<1>5. Listing(image, frames', shown)
  BY <1>1, <1>2, <1>4, ImageIs, CallReturned
<1> QED
  BY <1>1, <1>4, <1>5 DEF Lists, Missing, Known, Loadable

LEMMA ReadLists ==
  ASSUME AllLaidOut, AllTrees, ToolInv, Lists, ReadNode
  PROVE  Lists'
<1>1. Memory /\ pc = "read" /\ ~Missing /\ rd.length > 0 /\ (Reading \/ Strays)
  BY DEF ToolInv, Memory, Reads, ReadNode
<1>2. CASE pc' # "aborted"
  <2>1. UNCHANGED <<pc, image, loaded, frames, shown>>
    BY <1>2 DEF ReadNode, ReadAligned, ReadXip, ReadCompressed, Abort
  <2>2. Top' = Top /\ Entry' = Entry
    BY <2>1 DEF Top, Entry
  <2> QED
    BY <1>1, <2>1, <2>2 DEF Lists, Missing, Known, Loadable
<1>3. CASE pc' = "aborted"
  <2>1. UNCHANGED <<image, loaded, frames, shown, rd>>
    BY <1>1, <1>3 DEF ReadNode, ReadAligned, ReadXip, ReadCompressed, Abort
  <2>2. ASSUME Reading PROVE FALSE
    <3>1. /\ NodeThere
          /\ Get("node_type", rd.node) = Byte_Aligned =>
               In("banode_offset", Get("node_index", rd.node))
          /\ Get("node_type", rd.node) = Compressed =>
               CompressedThere(Get("node_index", rd.node))
      BY <1>1, <2>2, NodeReads
    <3> QED
      BY <1>1, <1>3, <3>1 DEF ReadNode, ReadAligned, ReadXip, ReadCompressed
  <2>3. Strays
    BY <1>1, <2>2
  <2>4. rd.length \in 0 .. WORD - 1
    BY <2>3, Constants DEF Strays, Called
  <2>5. Overreaches'
    BY <2>1, <2>3, OverreachesKept DEF Strays
  <2>6. Astray'
    BY <1>1, <2>1, <2>4, <2>5 DEF Lists, Astray, Missing
  <2> QED
    BY <1>3, <2>1, <2>6 DEF Lists, Loadable
<1> QED
  BY <1>2, <1>3

LEMMA ReturnsLists ==
  ASSUME AllLaidOut, AllTrees, ToolInv, Lists, LsTerminate \/ LsPrint \/ ReadReturns
  PROVE  Lists'
<1>1. /\ Memory /\ Calls /\ pc \in {"read", "print"} /\ ~Missing
      /\ Listing(image, frames, shown) /\ Informed(image, shown) /\ Known(image)
      /\ frames # <<>> => Top.i < Top.numFiles /\ tree[image].kind[Entry] = "link"
      /\ UNCHANGED <<image, loaded>>
  BY DEF ToolInv, LsTerminate, LsPrint, ReadReturns, Lists
<1>2. CASE LsPrint
  <2> DEFINE info == SubSeq(out, 1, Get("inode_file_size", rd.id))
  <2>1. /\ pc' = "ls" /\ frames' = Advanced /\ frames # <<>>
        /\ shown' = Append(shown, Line(Entry, Len(frames) - 1, info))
    BY <1>1, <1>2 DEF LsPrint, Calls
  <2> HIDE DEF info
  <2>2. GoesOn(image, frames, frames')
    BY <1>1, <2>1, AdvancedGoesOn
  <2>3. InfoRight(image, Line(Entry, Len(frames) - 1, info))
    BY <1>1, <2>1, NoInfo
  <2>4. Listing(image, frames', shown') /\ Informed(image, shown')
    BY <1>1, <2>1, <2>2, <2>3, LineShown
  <2> QED
    BY <1>1, <2>1, <2>4 DEF Lists, Missing, Known, Loadable
<1>3. CASE ReadReturns
  <2>1. pc' = "exit" /\ frames = <<>> /\ UNCHANGED <<frames, shown>>
    BY <1>3 DEF ReadReturns
  <2> QED
    BY <1>1, <2>1 DEF Lists, Missing, Known, Loadable
<1>4. CASE LsTerminate
  <2>1. pc' = "print" /\ UNCHANGED <<frames, shown>>
    BY <1>4 DEF LsTerminate
  <2>2. Top' = Top /\ Entry' = Entry
    BY <2>1 DEF Top, Entry
  <2> QED
    BY <1>1, <2>1, <2>2 DEF Lists, Missing, Known, Loadable
<1> QED
  BY <1>2, <1>3, <1>4

LEMMA ListsNext ==
  AllLaidOut /\ AllTrees /\ ToolInv /\ Lists /\ [Next \/ Gone]_vars => Lists'
<1> SUFFICES ASSUME AllLaidOut, AllTrees, ToolInv, Lists, [Next \/ Gone]_vars
             PROVE  Lists'
  OBVIOUS
<1>1. CASE Open \/ LoadRegion
  BY <1>1, LoadLists
<1>2. CASE Loaded
  BY <1>2, LoadedLists
<1>3. CASE LsEntry
  BY <1>3, EntryLists
<1>4. CASE LsLink
  BY <1>4, LinkLists
<1>5. CASE LsReturn
  BY <1>5, ReturnLists
<1>6. CASE ReadNode
  BY <1>6, ReadLists
<1>7. CASE LsTerminate \/ LsPrint \/ ReadReturns
  BY <1>7, ReturnsLists
<1>8. CASE UNCHANGED vars
  <2>1. UNCHANGED <<pc, image, loaded, frames, shown, rd>>
    BY <1>8 DEF vars
  <2>2. Top' = Top /\ Entry' = Entry
    BY <2>1 DEF Top, Entry
  <2>3. GivenUp => GivenUp'
    BY <2>1 DEF GivenUp, Supported, Known
  <2>4. Astray => Astray'
    BY <2>1, OverreachesKept DEF Astray, Missing
  <2> QED
    BY <2>1, <2>2, <2>3, <2>4 DEF Lists, Missing, Known, Loadable
<1> QED
  BY <1>1, <1>2, <1>3, <1>4, <1>5, <1>6, <1>7, <1>8 DEF Next, Gone

LEMMA ListsInvariant == AllLaidOut /\ AllTrees => (Spec => [](ToolInv /\ Lists))
<1> SUFFICES ASSUME AllLaidOut, AllTrees PROVE Spec => [](ToolInv /\ Lists)
  OBVIOUS
<1>1. Init => ToolInv /\ Lists
  BY ToolInit, ListsInit
<1>2. (ToolInv /\ Lists) /\ [Next \/ Gone]_vars => (ToolInv /\ Lists)'
  BY ToolNext, ListsNext
<1> QED
  BY <1>1, <1>2, PTL DEF Spec

LEMMA ToolTypes ==
  ASSUME AllLaidOut, AllTrees, ToolInv, Lists
  PROVE  TypeOK
<1>1. Memory /\ Calls /\ Buffered /\ Reads
  BY DEF ToolInv
<1>2. /\ pc \in {"open", "load", "ls", "read", "print", "exit", "aborted"}
      /\ wanted \in Wanted
  BY <1>1 DEF Memory
<1>3. \E n \in 0 .. Len(Regions) : DOMAIN loaded = {Regions[k] : k \in 1 .. n}
  <2>1. Cardinality(DOMAIN loaded) \in 0 .. Len(Regions)
    BY <1>1, FS_CardinalityType, RegionsDiffer DEF Memory
  <2> QED
    BY <1>1, <2>1 DEF Memory
<1>4. \A k \in 1 .. Len(frames) : frames[k].i \in 0 .. frames[k].numFiles
  <2>1. CASE frames = <<>>
    BY <2>1
  <2>2. CASE frames # <<>>
    <3>1. Stacked(image, frames)
      BY <1>2, <2>2 DEF Lists, Listing, GivenUp, Astray
    <3>2. \A k \in 1 .. Len(frames) :
            frames[k] \in FrameType /\ frames[k].i <= frames[k].numFiles
      BY <3>1, EntriesAre DEF Stacked
    <3> QED
      BY <3>2 DEF FrameType
  <2> QED
    BY <2>1, <2>2
<1>5. rd.length \in 0 .. WORD - 1
  <2>a. CASE pc = "read" /\ Strays
    BY <2>a, Constants DEF Strays, Called
  <2>1. CASE pc = "read" /\ ~Strays
    <3>1. Reading
      BY <1>1, <2>1 DEF Reads
    <3>2. rd.length \in Nat
      BY <3>1 DEF Reading, Called
    <3>3. rd.length = 0 \/ \E k \in Nat : Stands(k)
      BY <1>1, <3>1, <3>2, StandsSomewhere
    <3> QED
      BY <3>2, <3>3, Constants DEF Stands
  <2>2. CASE pc = "print" \/ (pc = "aborted" /\ Astray)
    BY <1>1, <2>2, Constants DEF Reads, Astray
  <2>3. CASE pc # "read" /\ pc # "print" /\ ~(pc = "aborted" /\ Astray)
    <3>1. rd = NoFile
      BY <1>1, <1>2, <2>3 DEF Reads, Lists, GivenUp
    <3> QED
      BY <3>1, Constants DEF NoFile
  <2> QED
    BY <2>a, <2>1, <2>2, <2>3, Zenon
<1> QED
  BY <1>1, <1>2, <1>3, <1>4, <1>5 DEF TypeOK, Buffered, Calls

-----------------------------------------------------------------------------
(* ls prints the whole tree, in order and with the nodes of every file,    *)
(* and the tool gives up an image exactly when it does not implement it or *)
(* while a read strays (axfs.cpp, load, ls and printInfo).                 *)
THEOREM ListsTreeHolds == AllLaidOut /\ AllTrees => (Spec => []ListsTree)
<1> SUFFICES ASSUME AllLaidOut, AllTrees PROVE Spec => []ListsTree
  OBVIOUS
<1>1. ToolInv /\ Lists => ListsTree
  <2> SUFFICES ASSUME ToolInv, Lists PROVE ListsTree
    OBVIOUS
  <2>0. Memory /\ pc \in {"open", "load", "ls", "read", "print", "exit", "aborted"}
    BY DEF ToolInv, Memory
  <2>1. TypeOK
    BY ToolTypes
  <2>2. CASE pc \in {"open", "load"} \/ (pc = "aborted" /\ GivenUp)
    <3>1. shown = <<>>
      BY <2>2 DEF Lists, GivenUp
    <3>2. ListedInOrder /\ ListedWhole
      BY <2>2, <3>1 DEF ListedInOrder, ListedWhole
    <3>3. RefusesRight
      BY <2>2 DEF GivenUp, RefusesRight
    <3> QED
      BY <2>1, <3>2, <3>3 DEF ListsTree
  <2>3. CASE pc \in {"ls", "read", "print", "exit"} \/ (pc = "aborted" /\ Astray)
    <3>1. /\ ~Missing /\ Listing(image, frames, shown) /\ Informed(image, shown)
          /\ pc # "aborted" => Known(image)
          /\ pc = "aborted" => Overreaches
          /\ pc = "exit" => frames = <<>>
      BY <2>3 DEF Lists, Astray
    <3>2. ListedInOrder
      BY <3>1 DEF Listing, Ordered, InPlace, ListedInOrder
    <3>3. ListedWhole
      <4>1. pc = "exit" =>
              {shown[k].id : k \in 1 .. Len(shown)} = Inodes(image) \ {0}
        BY <2>0, <3>1, ImageIs, ListingEnds
      <4> QED
        BY <3>1, <4>1 DEF Informed, InfoRight, ListedWhole
    <3>4. pc # "aborted" => Supported(image)
      <4> SUFFICES ASSUME NEW name \in DOMAIN region[image]
                   PROVE  region[image][name].compressed_size = 0
        BY <3>1 DEF Supported, Known
      <4>1. PICK k \in 1 .. 18 : name = Regions[k]
        BY <2>0, ImageIs, RegionsDiffer DEF Complete
      <4>2. name \in DOMAIN loaded
        <5>1. Cardinality(DOMAIN loaded) = 18
          BY <2>0, <3>1, FS_CardinalityType, RegionsDiffer DEF Memory, Missing
        <5> QED
          BY <2>0, <4>1, <5>1 DEF Memory
      <4> QED
        BY <4>2 DEF Lists, Loadable
    <3>5. RefusesRight
      BY <3>1, <3>4 DEF RefusesRight
    <3> QED
      BY <2>1, <3>2, <3>3, <3>5 DEF ListsTree
  <2>4. pc = "aborted" => GivenUp \/ Astray
    BY DEF Lists
  <2>5. \/ pc \in {"open", "load"} \/ pc \in {"ls", "read", "print", "exit"}
        \/ pc = "aborted"
    BY <2>0
  <2> QED
    BY <2>2, <2>3, <2>4, <2>5, Zenon
<1> QED
  BY <1>1, ListsInvariant, PTL
=============================================================================
