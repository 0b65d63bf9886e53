--------------------------- MODULE AxfsReadProofs ---------------------------
(***************************************************************************)
(* Proofs about how files are read: AxfsReadpage, a page, and AxfsFileRead,*)
(* a read(2).                                                              *)
(***************************************************************************)
EXTENDS AxfsReadpage, AxfsFileRead, TLAPS

(***************************************************************************)
(* Proofs about AxfsReadpage, for any number of tasks and mounts, any page *)
(* size and any image that satisfies ImageAssumption.  The invariant is    *)
(* built in four layers, each proved from the ones before it:              *)
(*   Typed     the types, and what a task in each step has asked for;      *)
(*   Held      who holds the semaphores and the mutex;                     *)
(*   Cached    what the two buffers and the stream hold;                   *)
(*   Copied    what the pages in hand hold.                                *)
(***************************************************************************)

(* A task in a step of readpage has a page in hand, and one in the         *)
(* compressed branch has a page of a compressed node.                      *)
Asked ==
  \A t \in Threads :
    /\ pc[t] # "idle" => req[t] \in Requests
    /\ pc[t] \in Writing \cup {"down_write", "memcpy"} =>
         InFile(req[t]) /\ NodeType(req[t]) = Compressed
    /\ pc[t] = "copy_media" => InFile(req[t]) /\ NodeType(req[t]) # Compressed

Typed == TypeOK /\ Asked

(* The holders of the locks, told by their steps.                          *)
Held ==
  \A t \in Threads :
    /\ pc[t] \in Writing =>
         lock[req[t].m].writer = t /\ lock[req[t].m].readers = {}
    /\ pc[t] = "memcpy" => t \in lock[req[t].m].readers
    /\ pc[t] \in Inflating =>
         /\ axfs_uncmp_mutex = t
         /\ stream.next_in = req[t].m
         /\ stream.next_out = req[t].m

(* The first n of the bytes b are those of cblock c of mount m, unless c     *)
(* does not inflate.                                                       *)
Holds(b, m, c, n) ==
  c \in sbi[m].bad_cblocks
    \/ \A i \in 0 .. n - 1 : b[i] = CBlockByte(m, c, i)

Whole(r) == sbi[r.m].cblock_len[CnodeIndex(r)]

(* The cblock on its way through the staging buffer and the stream.        *)
Staged ==
  \A t \in Threads :
    /\ pc[t] \in {"mutex_lock"} \cup Replacing =>
         cblock_buffer_1[req[t].m] = CnodeIndex(req[t])
    /\ pc[t] = "inflate" =>
         /\ Holds(cblock_buffer_0[req[t].m], req[t].m, CnodeIndex(req[t]), stream.total_out)
         /\ CnodeIndex(req[t]) \in sbi[req[t].m].bad_cblocks
              \/ stream.total_out <= Whole(req[t])
    /\ pc[t] \in {"mutex_unlock", "set_current"} =>
         Holds(cblock_buffer_0[req[t].m], req[t].m, CnodeIndex(req[t]), Whole(req[t]))
    /\ pc[t] \in {"downgrade", "memcpy"} =>
         current_cnode_index[req[t].m] = CnodeIndex(req[t])

(* CacheCoherent, mount by mount.                                          *)
Coherent(m) ==
  \/ \E t \in Threads : pc[t] \in Replacing /\ req[t].m = m
  \/ current_cnode_index[m] = NoCnode
  \/ Holds(cblock_buffer_0[m], m, current_cnode_index[m],
           sbi[m].cblock_len[current_cnode_index[m]])

Cached == Staged /\ \A m \in Mounts : Coherent(m)

(* The bytes of page r that readpage has produced so far, up to n.         *)
Produced(r, pg, n) ==
  Corrupt(r) \/ \A i \in Offsets : i < n /\ i < FileBytes(r) => pg[i] = NodeByte(r, i)

Copied ==
  \A t \in Threads :
    /\ pc[t] \in Writing \cup {"down_write"} => copied[t] = 0
    /\ pc[t] = "memcpy" => Produced(req[t], pgdata[t], copied[t])
    /\ pc[t] = "memset" /\ InFile(req[t]) =>
         Produced(req[t], pgdata[t], CopyLen(req[t]))
    /\ pc[t] = "uptodate" => Corrupt(req[t]) \/ PageFilled(req[t], pgdata[t])
    /\ pc[t] = "idle" => req[t] = NoRequest /\ copied[t] = 0 

IInv == Typed /\ Held /\ Cached /\ Copied

-----------------------------------------------------------------------------
(* What the tables say of a page that is stored compressed.                *)
LEMMA CompressedPage ==
  ASSUME NEW r \in Requests, InFile(r), NodeType(r) = Compressed
  PROVE  /\ r.m \in Mounts
         /\ CnodeIndex(r) \in DOMAIN sbi[r.m].cblock_len
         /\ CnodeIndex(r) \in Nat
         /\ CnodeOffset(r) \in Nat
         /\ Whole(r) \in 1 .. sbi[r.m].cblock_size
         /\ sbi[r.m].cblock_size \in Nat
         /\ CnodeOffset(r) + FileBytes(r) <= Whole(r)
<1>1. r.m \in Mounts /\ StoredOK(r)
  BY RequestAssumption DEF IsPage
<1>2. TablesOK(sbi[r.m])
  BY <1>1, ImageAssumption
<1>3. /\ NodeIndex(r) \in DOMAIN sbi[r.m].cnode_offset
      /\ CnodeOffset(r) + FileBytes(r) <= sbi[r.m].cblock_len[CnodeIndex(r)]
  BY <1>1 DEF StoredOK
<1>4. /\ CnodeIndex(r) \in DOMAIN sbi[r.m].cblock_len
      /\ CnodeOffset(r) \in Nat
  BY <1>2, <1>3 DEF TablesOK, CnodeIndex, CnodeOffset
<1>5. /\ Whole(r) \in 1 .. sbi[r.m].cblock_size
      /\ CnodeIndex(r) \in Nat
      /\ sbi[r.m].cblock_size \in Nat
  BY <1>2, <1>4 DEF TablesOK, Whole
<1> QED
  BY <1>1, <1>3, <1>4, <1>5 DEF Whole

(* A page of the file has an integral number of bytes, at most a page.     *)
LEMMA PageBytes ==
  ASSUME NEW r \in Requests
  PROVE  FileBytes(r) \in Int /\ FileBytes(r) <= PAGE_CACHE_SIZE
<1>1. IsPage(r) /\ TablesOK(sbi[r.m])
  BY RequestAssumption, ImageAssumption DEF IsPage
<1>2. FileSize(r) \in Nat /\ r.index \in Nat
  BY <1>1 DEF TablesOK, IsPage, FileSize
<1>3. r.index * PAGE_CACHE_SIZE \in Nat
  BY <1>2, ImageAssumption
<1> QED
  BY <1>2, <1>3, ImageAssumption DEF FileBytes

(* readpage copies at most a page, and no less than the file has there.    *)
LEMMA CopyLenCovers ==
  ASSUME NEW r \in Requests
  PROVE  /\ CopyLen(r) \in Int /\ CopyLen(r) <= PAGE_CACHE_SIZE
         /\ InFile(r) => FileBytes(r) <= CopyLen(r)
<1>1. FileBytes(r) \in Int /\ FileBytes(r) <= PAGE_CACHE_SIZE
  BY PageBytes
<1>2. CASE ~InFile(r)
  BY <1>2, ImageAssumption DEF CopyLen
<1>3. CASE InFile(r) /\ NodeType(r) = Compressed
  <2>1. /\ CnodeOffset(r) \in Nat /\ sbi[r.m].cblock_size \in Nat
        /\ CnodeOffset(r) + FileBytes(r) <= sbi[r.m].cblock_size
    BY <1>1, <1>3, CompressedPage
  <2> QED
    BY <1>1, <1>3, <2>1, ImageAssumption
    DEF CopyLen, Compressed, Byte_Aligned
<1>4. CASE InFile(r) /\ NodeType(r) = Byte_Aligned
  <2>1. r.m \in Mounts /\ StoredOK(r) /\ TablesOK(sbi[r.m])
    BY <1>4, RequestAssumption, ImageAssumption DEF IsPage
  <2>2. /\ BanodeOffset(r) \in Nat /\ sbi[r.m].byte_aligned_size \in Nat
        /\ BanodeOffset(r) + FileBytes(r) <= sbi[r.m].byte_aligned_size
    BY <1>4, <2>1 DEF StoredOK, TablesOK, BanodeOffset
  <2> QED
    BY <1>1, <1>4, <2>2, ImageAssumption
    DEF CopyLen, Compressed, Byte_Aligned
<1>5. CASE InFile(r) /\ NodeType(r) \notin {Compressed, Byte_Aligned}
  BY <1>1, <1>5, ImageAssumption DEF CopyLen
<1> QED
  BY <1>2, <1>3, <1>4, <1>5
-----------------------------------------------------------------------------
(* Layer 1: the types.                                                     *)

LEMMA TypedInit == Init => Typed
<1> SUFFICES ASSUME Init PROVE Typed
  OBVIOUS
<1>1. \A m \in Mounts : sbi[m].cblock_size \in Nat
  BY ImageAssumption DEF TablesOK
<1> QED
  BY <1>1, ImageAssumption DEF Init, Typed, TypeOK, Asked, Writing, Blank

(* Changing one half of a semaphore leaves it a semaphore.                 *)
LEMMA ReadersTyped ==
  ASSUME NEW W, NEW R, NEW l \in [writer : W, readers : R], NEW s \in R
  PROVE  [l EXCEPT !.readers = s] \in [writer : W, readers : R]
OBVIOUS

LEMMA TypedNext == Typed /\ [Next]_vars => Typed'
<1> SUFFICES ASSUME TypeOK, Asked, [Next]_vars PROVE TypeOK' /\ Asked'
  BY DEF Typed
<1> USE DEF TypeOK, Asked, Writing, Goto, cacheVars, streamVars
<1>0. ASSUME NEW t \in Threads, pc[t] # "idle"
      PROVE  req[t] \in Requests /\ req[t].m \in Mounts
  BY <1>0, RequestAssumption DEF IsPage
<1>c. ASSUME NEW t \in Threads, pc[t] \in Writing
      PROVE  CnodeIndex(req[t]) \in DOMAIN sbi[req[t].m].cblock_len
  BY <1>0, <1>c, CompressedPage
<1>1. ASSUME NEW t \in Threads, NEW r \in Requests, Readpage(t, r)
      PROVE  TypeOK' /\ Asked'
  BY <1>1 DEF Readpage
<1>2. ASSUME NEW t \in Threads, CopyMedia(t)
      PROVE  TypeOK' /\ Asked'
  BY <1>2 DEF CopyMedia
<1>3. ASSUME NEW t \in Threads, DownWrite(t)
      PROVE  TypeOK' /\ Asked'
  <2>1. lock[req[t].m] \in [writer : Threads \cup {NoThread}, readers : SUBSET Threads]
    BY <1>0, <1>3 DEF DownWrite
  <2>2. lock' = [lock EXCEPT ![req[t].m] = [@ EXCEPT !.writer = t]]
    BY <1>3 DEF DownWrite
  <2>3. lock' \in [Mounts -> [writer : Threads \cup {NoThread}, readers : SUBSET Threads]]
    BY <2>1, <2>2
  <2> QED
    BY <1>3, <2>3 DEF DownWrite
<1>4. ASSUME NEW t \in Threads, Compare(t)
      PROVE  TypeOK' /\ Asked'
  BY <1>4 DEF Compare
<1>5. ASSUME NEW t \in Threads, CopyBegin(t)
      PROVE  TypeOK' /\ Asked'
  BY <1>5 DEF CopyBegin
<1>6. ASSUME NEW t \in Threads, CopyEnd(t)
      PROVE  TypeOK' /\ Asked'
  BY <1>0, <1>c, <1>6 DEF CopyEnd
<1>7. ASSUME NEW t \in Threads, MutexLock(t)
      PROVE  TypeOK' /\ Asked'
  BY <1>0, <1>7, ImageAssumption DEF MutexLock, TablesOK
<1>8. ASSUME NEW t \in Threads, Inflate(t)
      PROVE  TypeOK' /\ Asked'
  <2>1. stream' \in [next_in : Mounts, next_out : Mounts, total_out : Nat]
    BY <1>8 DEF Inflate
  <2>2. stream'.total_out <= sbi[stream'.next_out].cblock_size
    <3>1. sbi[stream.next_out].cblock_size \in Nat
      BY ImageAssumption DEF TablesOK
    <3> QED
      BY <1>8, <3>1 DEF Inflate
  <2>3. DOMAIN cblock_buffer_0' = Mounts
    BY <1>8 DEF Inflate
  <2>4. \A m \in Mounts : DOMAIN cblock_buffer_0'[m] = DOMAIN cblock_buffer_0[m]
    BY <1>8 DEF Inflate
  <2> QED
    BY <1>8, <2>1, <2>2, <2>3, <2>4 DEF Inflate
<1>9. ASSUME NEW t \in Threads, InflateEnd(t)
      PROVE  TypeOK' /\ Asked'
  BY <1>9 DEF InflateEnd
<1>10. ASSUME NEW t \in Threads, MutexUnlock(t)
      PROVE  TypeOK' /\ Asked'
  BY <1>10 DEF MutexUnlock
<1>11. ASSUME NEW t \in Threads, SetCurrent(t)
      PROVE  TypeOK' /\ Asked'
  BY <1>0, <1>c, <1>11 DEF SetCurrent
<1>12. ASSUME NEW t \in Threads, DowngradeWrite(t)
      PROVE  TypeOK' /\ Asked'
  <2>1. req[t].m \in Mounts
    BY <1>0, <1>12 DEF DowngradeWrite
  <2>2. lock[req[t].m].readers \cup {t} \in SUBSET Threads
    BY <2>1
  <2>3. lock' \in [Mounts -> [writer : Threads \cup {NoThread}, readers : SUBSET Threads]]
    BY <1>12, <2>2 DEF DowngradeWrite
  <2> QED
    BY <1>12, <2>3 DEF DowngradeWrite
<1>13. ASSUME NEW t \in Threads, Memcpy(t)
      PROVE  TypeOK' /\ Asked'
  <2>1. copied[t] + 1 \in 0 .. PAGE_CACHE_SIZE
    BY <1>0, <1>13, CopyLenCovers, ImageAssumption DEF Memcpy
  <2>2. copied' \in [Threads -> 0 .. PAGE_CACHE_SIZE]
    BY <1>13, <2>1 DEF Memcpy
  <2>3. DOMAIN pgdata' = Threads /\ \A u \in Threads : DOMAIN pgdata'[u] = Offsets
    BY <1>13 DEF Memcpy
  <2>4. UNCHANGED <<pc, req, lock, cacheVars, streamVars>>
    BY <1>13 DEF Memcpy
  <2> QED
    BY <2>2, <2>3, <2>4
<1>14. ASSUME NEW t \in Threads, UpRead(t)
      PROVE  TypeOK' /\ Asked'
  <2> DEFINE m == req[t].m
             free == [lock[m] EXCEPT !.readers = lock[m].readers \ {t}]
  <2>1. m \in Mounts
    BY <1>0, <1>14 DEF UpRead
  <2>2. free \in [writer : Threads \cup {NoThread}, readers : SUBSET Threads]
    <3>1. lock[m] \in [writer : Threads \cup {NoThread}, readers : SUBSET Threads]
      BY <2>1
    <3>2. lock[m].readers \ {t} \in SUBSET Threads
      BY <3>1
    <3> QED
      BY <3>1, <3>2, ReadersTyped
  <2>3. lock' = [lock EXCEPT ![m] = free]
    BY <2>1, <1>14 DEF UpRead
  <2> HIDE DEF free, m
  <2>4. lock' \in [Mounts -> [writer : Threads \cup {NoThread}, readers : SUBSET Threads]]
    BY <2>1, <2>2, <2>3
  <2> QED
    BY <1>14, <2>4 DEF UpRead
<1>15. ASSUME NEW t \in Threads, Finish(t)
      PROVE  TypeOK' /\ Asked'
  BY <1>15 DEF Finish
<1>16. ASSUME NEW t \in Threads, Evict(t)
      PROVE  TypeOK' /\ Asked'
  BY <1>16, ImageAssumption DEF Evict, Blank
<1>17. CASE UNCHANGED vars
  BY <1>17 DEF vars
<1> QED
  BY <1>1, <1>2, <1>3, <1>4, <1>5, <1>6, <1>7, <1>8, <1>9, <1>10, <1>11, <1>12, <1>13, <1>14, <1>15, <1>16, <1>17
  DEF Next, Step, Cache, Uncompress

-----------------------------------------------------------------------------
(* Layer 2: the locks.                                                     *)

LEMMA HeldInit == Init => Held
  BY DEF Init, Held, Writing, Inflating

LEMMA HeldNext == Typed /\ Held /\ [Next]_vars => Held'
<1> SUFFICES ASSUME Typed, Held, [Next]_vars PROVE Held'
  OBVIOUS
<1>0. ASSUME NEW t \in Threads, pc[t] # "idle"
      PROVE  req[t] \in Requests /\ req[t].m \in Mounts
  BY <1>0, RequestAssumption DEF IsPage, Typed, Asked
<1>w. \A t \in Threads, u \in Threads :
        /\ pc[t] \in Writing
        /\ pc[u] \in Writing \cup {"memcpy"}
        /\ req[t].m = req[u].m
        => t = u
  BY DEF Held, Writing
<1> USE DEF Typed, TypeOK, Held, Writing, Inflating, Goto, cacheVars, streamVars
<1>1. ASSUME NEW t \in Threads, NEW r \in Requests, Readpage(t, r)
      PROVE  Held'
  BY <1>1 DEF Readpage
<1>2. ASSUME NEW t \in Threads, CopyMedia(t)
      PROVE  Held'
  BY <1>0, <1>w, ThreadAssumption, <1>2 DEF CopyMedia
<1>3. ASSUME NEW t \in Threads, DownWrite(t)
      PROVE  Held'
  BY <1>0, <1>w, ThreadAssumption, <1>3 DEF DownWrite
<1>4. ASSUME NEW t \in Threads, Compare(t)
      PROVE  Held'
  BY <1>0, <1>w, ThreadAssumption, <1>4 DEF Compare
<1>5. ASSUME NEW t \in Threads, CopyBegin(t)
      PROVE  Held'
  BY <1>0, <1>w, ThreadAssumption, <1>5 DEF CopyBegin
<1>6. ASSUME NEW t \in Threads, CopyEnd(t)
      PROVE  Held'
  BY <1>0, <1>w, ThreadAssumption, <1>6 DEF CopyEnd
<1>7. ASSUME NEW t \in Threads, MutexLock(t)
      PROVE  Held'
  BY <1>0, <1>w, ThreadAssumption, <1>7 DEF MutexLock
<1>8. ASSUME NEW t \in Threads, Inflate(t)
      PROVE  Held'
  BY <1>0, <1>w, ThreadAssumption, <1>8 DEF Inflate
<1>9. ASSUME NEW t \in Threads, InflateEnd(t)
      PROVE  Held'
  BY <1>0, <1>w, ThreadAssumption, <1>9 DEF InflateEnd
<1>10. ASSUME NEW t \in Threads, MutexUnlock(t)
      PROVE  Held'
  BY <1>0, <1>w, ThreadAssumption, <1>10 DEF MutexUnlock
<1>11. ASSUME NEW t \in Threads, SetCurrent(t)
      PROVE  Held'
  BY <1>0, <1>w, ThreadAssumption, <1>11 DEF SetCurrent
<1>12. ASSUME NEW t \in Threads, DowngradeWrite(t)
      PROVE  Held'
  BY <1>0, <1>w, ThreadAssumption, <1>12 DEF DowngradeWrite
<1>13. ASSUME NEW t \in Threads, Memcpy(t)
      PROVE  Held'
  BY <1>0, <1>w, ThreadAssumption, <1>13 DEF Memcpy
<1>14. ASSUME NEW t \in Threads, UpRead(t)
      PROVE  Held'
  BY <1>0, <1>w, ThreadAssumption, <1>14 DEF UpRead
<1>15. ASSUME NEW t \in Threads, Finish(t)
      PROVE  Held'
  BY <1>0, <1>w, ThreadAssumption, <1>15 DEF Finish
<1>16. ASSUME NEW t \in Threads, Evict(t)
      PROVE  Held'
  BY <1>0, <1>w, ThreadAssumption, <1>16 DEF Evict
<1>17. CASE UNCHANGED vars
  BY <1>17 DEF vars
<1> QED
  BY <1>1, <1>2, <1>3, <1>4, <1>5, <1>6, <1>7, <1>8, <1>9, <1>10, <1>11, <1>12, <1>13, <1>14, <1>15, <1>16, <1>17
  DEF Next, Step, Cache, Uncompress

(* Nobody else is in the cache of a mount while a task replaces it.        *)
LEMMA HeldExcludes == Held => LockDiscipline
  BY DEF Held, LockDiscipline, Writing, Inflating

-----------------------------------------------------------------------------
(* Layer 3: the buffers.                                                   *)

LEMMA CachedInit == Init => Cached
  BY DEF Init, Cached, Staged, Coherent, Replacing

(* A step that leaves the buffers and the stream alone, and does not take  *)
(* its task into or out of a step that says something of them.             *)
LEMMA CachedQuiet ==
  ASSUME Typed, Cached, NEW t \in Threads, NEW d,
         UNCHANGED <<cacheVars, stream>>,
         pc' = [pc EXCEPT ![t] = d],
         pc[t] \notin Replacing,
         d \notin {"mutex_lock", "downgrade", "memcpy"} \cup Replacing,
         \A u \in Threads : u # t => req'[u] = req[u]
  PROVE  Cached'
<1>1. ASSUME NEW u \in Threads, u # t
      PROVE  pc'[u] = pc[u] /\ req'[u] = req[u]
  BY <1>1 DEF Typed, TypeOK
<1>2. pc'[t] = d
  BY DEF Typed, TypeOK
<1>3. Staged'
  BY <1>1, <1>2 DEF Cached, Staged, Whole, Replacing, cacheVars
<1>4. ASSUME NEW m \in Mounts PROVE Coherent(m)'
  BY <1>1, <1>4 DEF Cached, Coherent, cacheVars
<1> QED
  BY <1>3, <1>4 DEF Cached

LEMMA CachedNext == Typed /\ Held /\ Cached /\ [Next]_vars => Cached'
<1> SUFFICES ASSUME Typed, Held, Cached, [Next]_vars PROVE Cached'
  OBVIOUS
<1>0. ASSUME NEW t \in Threads, pc[t] # "idle"
      PROVE  req[t] \in Requests /\ req[t].m \in Mounts
  BY <1>0, RequestAssumption DEF IsPage, Typed, Asked
<1>c. ASSUME NEW t \in Threads, pc[t] \in Writing
      PROVE  /\ CnodeIndex(req[t]) \in DOMAIN sbi[req[t].m].cblock_len
             /\ CnodeIndex(req[t]) \in Nat
             /\ Whole(req[t]) \in 1 .. sbi[req[t].m].cblock_size
             /\ sbi[req[t].m].cblock_size \in Nat
  BY <1>0, <1>c, CompressedPage DEF Typed, Asked, Writing
<1>w. \A t \in Threads, u \in Threads :
        /\ pc[t] \in Writing
        /\ pc[u] \in Writing \cup {"memcpy"}
        /\ req[t].m = req[u].m
        => t = u
  BY DEF Held, Writing
<1> USE DEF Replacing, Goto, streamVars
<1>1. ASSUME NEW t \in Threads, NEW r \in Requests, Readpage(t, r)
      PROVE  Cached'
  BY <1>1, CachedQuiet DEF Readpage, Typed, TypeOK
<1>2. ASSUME NEW t \in Threads, CopyMedia(t)
      PROVE  Cached'
  BY <1>2, CachedQuiet DEF CopyMedia, Typed, TypeOK
<1>3. ASSUME NEW t \in Threads, DownWrite(t)
      PROVE  Cached'
  BY <1>3, CachedQuiet DEF DownWrite, Typed, TypeOK
<1>4. ASSUME NEW t \in Threads, UpRead(t)
      PROVE  Cached'
  BY <1>4, CachedQuiet DEF UpRead, Typed, TypeOK
<1>5. ASSUME NEW t \in Threads, Finish(t)
      PROVE  Cached'
  BY <1>5, CachedQuiet DEF Finish, Typed, TypeOK
<1>6. ASSUME NEW t \in Threads, Evict(t)
      PROVE  Cached'
  BY <1>6, CachedQuiet DEF Evict, Typed, TypeOK
<1> USE DEF Typed, TypeOK, Cached, Staged, Coherent, Whole, Writing, cacheVars
<1>7. ASSUME NEW t \in Threads, Compare(t)
      PROVE  Cached'
  <2>1. Staged'
    BY <1>0, <1>c, <1>w, <1>7 DEF Compare
  <2>2. \A m \in Mounts : Coherent(m)'
    BY <1>0, <1>c, <1>w, <1>7 DEF Compare
  <2> QED
    BY <2>1, <2>2
<1>8. ASSUME NEW t \in Threads, CopyBegin(t)
      PROVE  Cached'
  <2>1. Staged'
    BY <1>0, <1>c, <1>w, <1>8 DEF CopyBegin
  <2>2. \A m \in Mounts : Coherent(m)'
    BY <1>0, <1>c, <1>w, <1>8 DEF CopyBegin
  <2> QED
    BY <2>1, <2>2
<1>9. ASSUME NEW t \in Threads, CopyEnd(t)
      PROVE  Cached'
  <2>1. Staged'
    BY <1>0, <1>c, <1>w, <1>9 DEF CopyEnd
  <2>2. \A m \in Mounts : Coherent(m)'
    BY <1>0, <1>c, <1>w, <1>9 DEF CopyEnd
  <2> QED
    BY <2>1, <2>2
<1>10. ASSUME NEW t \in Threads, MutexLock(t)
      PROVE  Cached'
  <2>1. Staged'
    <3>1. \A u \in Threads : pc[u] # "inflate"
      BY <1>10, ThreadAssumption DEF MutexLock, Held, Inflating
    <3>2. \A b, m, c : Holds(b, m, c, 0)
      BY DEF Holds
    <3> QED
      BY <1>0, <1>c, <1>10, <3>1, <3>2 DEF MutexLock
  <2>2. \A m \in Mounts : Coherent(m)'
    BY <1>0, <1>c, <1>w, <1>10 DEF MutexLock
  <2> QED
    BY <2>1, <2>2
<1>11. ASSUME NEW t \in Threads, Inflate(t)
      PROVE  Cached'
  <2> DEFINE m == req[t].m
             c == CnodeIndex(req[t])
             n == stream.total_out
  <2>1. /\ pc[t] = "inflate" /\ pc' = pc
        /\ m \in Mounts /\ stream.next_in = m /\ stream.next_out = m
        /\ cblock_buffer_1[m] = c /\ n \in Nat
    BY <1>0, <1>11 DEF Inflate, Held, Inflating
  <2>2. \A u \in Threads : u # t =>
          /\ pc[u] # "inflate"
          /\ pc[u] \in Writing => req[u].m # m
    BY <1>w, <2>1 DEF Held, Inflating
  <2>3. \A k \in Mounts : k # m => cblock_buffer_0'[k] = cblock_buffer_0[k]
    BY <1>11, <2>1 DEF Inflate
  <2>4. /\ Holds(cblock_buffer_0'[m], m, c, n + 1)
        /\ c \in sbi[m].bad_cblocks \/ n + 1 <= Whole(req[t])
    <3>1. CASE c \in sbi[m].bad_cblocks
      BY <3>1 DEF Holds
    <3>2. CASE c \notin sbi[m].bad_cblocks
      <4>1. Inflatable
        BY <1>c, <2>1, <3>2 DEF Inflatable
      <4>2. n # Whole(req[t]) /\ n <= Whole(req[t])
        BY <1>11, <2>1, <3>2, <4>1 DEF Inflate, Inflated
      <4>3. Whole(req[t]) \in Nat /\ Whole(req[t]) <= sbi[m].cblock_size
        BY <1>c, <2>1
      <4>4. /\ cblock_buffer_0'[m][n] = CBlockByte(m, c, n)
            /\ \A i \in 0 .. n - 1 : cblock_buffer_0'[m][i] = cblock_buffer_0[m][i]
        BY <1>11, <2>1, <4>1, <4>2, <4>3, ImageAssumption DEF Inflate, TablesOK
      <4>5. \A i \in 0 .. n - 1 : cblock_buffer_0[m][i] = CBlockByte(m, c, i)
        BY <2>1, <3>2 DEF Holds
      <4> HIDE DEF n, m, c
      <4>6. \A i \in 0 .. n : i = n \/ i \in 0 .. n - 1
        BY <2>1
      <4>7. \A i \in 0 .. n : cblock_buffer_0'[m][i] = CBlockByte(m, c, i)
        BY <4>4, <4>5, <4>6
      <4> QED
        BY <2>1, <4>2, <4>3, <4>7 DEF Holds
    <3> QED
      BY <3>1, <3>2
  <2>5. Staged'
    <3>1. stream'.total_out = n + 1
      BY <1>11, <2>1 DEF Inflate
    <3>2. UNCHANGED <<pc, req, cblock_buffer_1, current_cnode_index>>
      BY <1>11 DEF Inflate
    <3>3. ASSUME NEW u \in Threads, pc[u] \in {"mutex_unlock", "set_current"}
          PROVE  cblock_buffer_0'[req[u].m] = cblock_buffer_0[req[u].m]
      BY <1>0, <2>1, <2>2, <2>3, <3>3
    <3>4. \A u \in Threads : pc[u] = "inflate" => u = t
      BY <2>2
    <3> HIDE DEF Typed, TypeOK, Cached, Coherent, n
    <3> QED
      BY <2>1, <2>4, <3>1, <3>2, <3>3, <3>4 DEF Cached, Holds
  <2>6. \A k \in Mounts : Coherent(k)'
    BY <1>11, <2>1, <2>3 DEF Inflate
  <2> QED
    BY <2>5, <2>6
<1>12. ASSUME NEW t \in Threads, InflateEnd(t)
      PROVE  Cached'
  <2>1. Staged'
    <3> DEFINE m == req[t].m
               c == CnodeIndex(req[t])
    <3>1. /\ pc[t] = "inflate" /\ m \in Mounts /\ stream.next_in = m
          /\ cblock_buffer_1[m] = c
      BY <1>0, <1>12 DEF InflateEnd, Held, Inflating
    <3>2. Holds(cblock_buffer_0[m], m, c, Whole(req[t]))
      <4>1. CASE Inflated
        BY <3>1, <4>1 DEF Inflated
      <4>2. CASE ~Inflatable
        BY <1>c, <3>1, <4>2 DEF Inflatable, Holds
      <4> QED
        BY <1>12, <4>1, <4>2 DEF InflateEnd
    <3> QED
      BY <1>12, <3>1, <3>2 DEF InflateEnd
  <2>2. \A m \in Mounts : Coherent(m)'
    BY <1>0, <1>c, <1>w, <1>12 DEF InflateEnd
  <2> QED
    BY <2>1, <2>2
<1>13. ASSUME NEW t \in Threads, MutexUnlock(t)
      PROVE  Cached'
  <2>1. Staged'
    BY <1>0, <1>c, <1>w, <1>13 DEF MutexUnlock
  <2>2. \A m \in Mounts : Coherent(m)'
    BY <1>0, <1>c, <1>w, <1>13 DEF MutexUnlock
  <2> QED
    BY <2>1, <2>2
<1>14. ASSUME NEW t \in Threads, SetCurrent(t)
      PROVE  Cached'
  <2>1. Staged'
    BY <1>0, <1>c, <1>w, <1>14 DEF SetCurrent
  <2>2. \A m \in Mounts : Coherent(m)'
    BY <1>0, <1>c, <1>w, <1>14 DEF SetCurrent
  <2> QED
    BY <2>1, <2>2
<1>15. ASSUME NEW t \in Threads, DowngradeWrite(t)
      PROVE  Cached'
  <2>1. Staged'
    BY <1>0, <1>c, <1>w, <1>15 DEF DowngradeWrite
  <2>2. \A m \in Mounts : Coherent(m)'
    BY <1>0, <1>c, <1>w, <1>15 DEF DowngradeWrite
  <2> QED
    BY <2>1, <2>2
<1>16. ASSUME NEW t \in Threads, Memcpy(t)
      PROVE  Cached'
  <2>1. Staged'
    BY <1>0, <1>c, <1>w, <1>16 DEF Memcpy
  <2>2. \A m \in Mounts : Coherent(m)'
    BY <1>0, <1>c, <1>w, <1>16 DEF Memcpy
  <2> QED
    BY <2>1, <2>2
<1>17. CASE UNCHANGED vars
  BY <1>17 DEF vars
<1> QED
  BY <1>1, <1>2, <1>3, <1>4, <1>5, <1>6, <1>7, <1>8, <1>9, <1>10, <1>11, <1>12, <1>13, <1>14, <1>15, <1>16, <1>17
  DEF Next, Step, Cache, Uncompress

(* The layer implies the property.                                         *)
LEMMA CachedCoherent == Cached => CacheCoherent
<1> SUFFICES ASSUME Cached, NEW m \in Mounts
             PROVE  LET c == current_cnode_index[m] IN
                    \/ \E t \in Threads : pc[t] \in Replacing /\ req[t].m = m
                    \/ c = NoCnode
                    \/ c \in sbi[m].bad_cblocks
                    \/ \A i \in 0 .. sbi[m].cblock_len[c] - 1 :
                         cblock_buffer_0[m][i] = CBlockByte(m, c, i)
  BY DEF CacheCoherent
<1> QED
  BY DEF Cached, Coherent, Holds

-----------------------------------------------------------------------------
(* Layer 4: the pages.                                                     *)

(* What a task that copies its page out finds in the cache.                *)
LEMMA CopyFinds ==
  ASSUME Typed, Held, Cached, NEW t \in Threads, pc[t] = "memcpy",
         ~Corrupt(req[t]),
         NEW i \in Nat, i < FileBytes(req[t])
  PROVE  cblock_buffer_0[req[t].m][CnodeOffset(req[t]) + i] = NodeByte(req[t], i)
<1> DEFINE r == req[t]
           c == CnodeIndex(r)
<1>1. r \in Requests /\ InFile(r) /\ NodeType(r) = Compressed
  BY DEF Typed, Asked
<1>2. /\ r.m \in Mounts /\ c \in Nat /\ CnodeOffset(r) \in Nat
      /\ CnodeOffset(r) + FileBytes(r) <= Whole(r)
      /\ Whole(r) \in Nat /\ FileBytes(r) \in Int
  BY <1>1, CompressedPage, PageBytes
<1>3. current_cnode_index[r.m] = c
  BY DEF Cached, Staged
<1>4. \A u \in Threads : pc[u] \in Replacing => req[u].m # r.m
  BY DEF Held, Writing, Replacing
<1>5. Holds(cblock_buffer_0[r.m], r.m, c, Whole(r))
  BY <1>2, <1>3, <1>4 DEF Cached, Coherent, NoCnode, Whole
<1>6. c \notin sbi[r.m].bad_cblocks
  BY <1>1 DEF Corrupt
<1>7. CnodeOffset(r) + i \in 0 .. Whole(r) - 1
  BY <1>2
<1>8. NodeByte(r, i) = CBlockByte(r.m, c, CnodeOffset(r) + i)
  BY <1>1 DEF NodeByte, Compressed, Byte_Aligned
<1> HIDE DEF r, c
<1>9. \A j \in 0 .. Whole(r) - 1 : cblock_buffer_0[r.m][j] = CBlockByte(r.m, c, j)
  BY <1>5, <1>6 DEF Holds
<1>10. cblock_buffer_0[r.m][CnodeOffset(r) + i] = NodeByte(r, i)
  BY <1>7, <1>8, <1>9
<1> QED
  BY <1>10 DEF r

LEMMA CopiedInit == Init => Copied
  BY DEF Init, Copied, Writing

LEMMA CopiedNext == Typed /\ Held /\ Cached /\ Copied /\ [Next]_vars => Copied'
<1> SUFFICES ASSUME Typed, Held, Cached, Copied, [Next]_vars PROVE Copied'
  OBVIOUS
<1>0. ASSUME NEW t \in Threads, pc[t] # "idle"
      PROVE  /\ req[t] \in Requests
             /\ FileBytes(req[t]) \in Int /\ FileBytes(req[t]) <= PAGE_CACHE_SIZE
             /\ CopyLen(req[t]) \in Int
             /\ InFile(req[t]) => FileBytes(req[t]) <= CopyLen(req[t])
  BY <1>0, PageBytes, CopyLenCovers DEF Typed, Asked
<1>p. PAGE_CACHE_SIZE \in Nat \ {0}
  BY ImageAssumption
<1> USE DEF Typed, TypeOK, Copied, Writing, Goto
<1>1. ASSUME NEW t \in Threads, NEW r \in Requests, Readpage(t, r)
      PROVE  Copied'
  BY <1>1 DEF Readpage
<1>2. ASSUME NEW t \in Threads, CopyMedia(t)
      PROVE  Copied'
  <2>1. \A i \in Offsets : i < CopyLen(req[t]) => pgdata'[t][i] = NodeByte(req[t], i)
    BY <1>2 DEF CopyMedia
  <2>2. Produced(req[t], pgdata'[t], CopyLen(req[t]))
    BY <2>1 DEF Produced
  <2> QED
    BY <1>2, <2>2 DEF CopyMedia
<1>3. ASSUME NEW t \in Threads, DownWrite(t)
      PROVE  Copied'
  BY <1>3 DEF DownWrite
<1>4. ASSUME NEW t \in Threads, Compare(t)
      PROVE  Copied'
  BY <1>4 DEF Compare
<1>5. ASSUME NEW t \in Threads, CopyBegin(t)
      PROVE  Copied'
  BY <1>5 DEF CopyBegin
<1>6. ASSUME NEW t \in Threads, CopyEnd(t)
      PROVE  Copied'
  BY <1>6 DEF CopyEnd
<1>7. ASSUME NEW t \in Threads, MutexLock(t)
      PROVE  Copied'
  BY <1>7 DEF MutexLock
<1>8. ASSUME NEW t \in Threads, Inflate(t)
      PROVE  Copied'
  BY <1>8 DEF Inflate
<1>9. ASSUME NEW t \in Threads, InflateEnd(t)
      PROVE  Copied'
  BY <1>9 DEF InflateEnd
<1>10. ASSUME NEW t \in Threads, MutexUnlock(t)
      PROVE  Copied'
  BY <1>10 DEF MutexUnlock
<1>11. ASSUME NEW t \in Threads, SetCurrent(t)
      PROVE  Copied'
  BY <1>11 DEF SetCurrent
<1>12. ASSUME NEW t \in Threads, DowngradeWrite(t)
      PROVE  Copied'
  <2>1. Produced(req[t], pgdata[t], 0)
    BY DEF Produced, Offsets
  <2> QED
    BY <1>12, <2>1 DEF DowngradeWrite
<1>13. ASSUME NEW t \in Threads, Memcpy(t)
      PROVE  Copied'
  <2> DEFINE r == req[t]
             n == copied[t]
  <2>1. /\ pc[t] = "memcpy" /\ n \in Nat /\ copied'[t] = n + 1
        /\ Produced(r, pgdata[t], n)
    BY <1>13, <1>p DEF Memcpy
  <2>2. /\ n \in Offsets => pgdata'[t][n] = cblock_buffer_0[r.m][CnodeOffset(r) + n]
        /\ \A i \in Offsets : i # n => pgdata'[t][i] = pgdata[t][i]
    BY <1>13 DEF Memcpy
  <2>3. ~Corrupt(r) /\ n < FileBytes(r) =>
          cblock_buffer_0[r.m][CnodeOffset(r) + n] = NodeByte(r, n)
    BY <2>1, CopyFinds
  <2>4. Produced(r, pgdata'[t], n + 1)
    <3>1. SUFFICES ASSUME ~Corrupt(r), NEW i \in Offsets, i < n + 1, i < FileBytes(r)
                   PROVE  pgdata'[t][i] = NodeByte(r, i)
      BY DEF Produced
    <3>2. CASE i = n
      BY <2>2, <2>3, <3>1, <3>2
    <3>3. CASE i # n
      <4>1. i < n
        BY <1>p, <2>1, <3>1, <3>3 DEF Offsets
      <4> QED
        BY <2>1, <2>2, <3>1, <3>3, <4>1 DEF Produced
    <3> QED
      BY <3>2, <3>3
  <2> QED
    BY <1>13, <2>1, <2>4 DEF Memcpy
<1>14. ASSUME NEW t \in Threads, UpRead(t)
      PROVE  Copied'
  BY <1>14 DEF UpRead
<1>15. ASSUME NEW t \in Threads, Finish(t)
      PROVE  Copied'
  <2> DEFINE r == req[t]
  <2>1. pc[t] = "memset" /\ r \in Requests
    BY <1>15 DEF Finish, Asked
  <2>2. \A i \in Offsets :
          pgdata'[t][i] = IF i < CopyLen(r) THEN pgdata[t][i] ELSE Zero
    BY <1>15 DEF Finish
  <2>3. CASE ~InFile(r)
    <3>1. \A i \in Offsets : ~(i < CopyLen(r))
      BY <1>p, <2>3 DEF CopyLen, Offsets
    <3> QED
      BY <1>15, <2>2, <2>3, <3>1 DEF Finish, PageFilled
  <2>4. CASE InFile(r)
    <3>1. FileBytes(r) \in Int /\ CopyLen(r) \in Int /\ FileBytes(r) <= CopyLen(r)
      BY <1>0, <2>1, <2>4
    <3>2. \A i \in Offsets : i < FileBytes(r) => i < CopyLen(r)
      BY <1>p, <3>1 DEF Offsets
    <3>3. Corrupt(r) \/ PageFilled(r, pgdata'[t])
      BY <2>1, <2>2, <2>4, <3>2 DEF Produced, PageFilled
    <3> QED
      BY <1>15, <3>3 DEF Finish
  <2> QED
    BY <2>3, <2>4
<1>16. ASSUME NEW t \in Threads, Evict(t)
      PROVE  Copied'
  BY <1>16, <1>p DEF Evict
<1>17. CASE UNCHANGED vars
  BY <1>17 DEF vars
<1> QED
  BY <1>1, <1>2, <1>3, <1>4, <1>5, <1>6, <1>7, <1>8, <1>9, <1>10, <1>11, <1>12, <1>13, <1>14, <1>15, <1>16, <1>17
  DEF Next, Step, Cache, Uncompress

-----------------------------------------------------------------------------
LEMMA IInvInit == Init => IInv
  BY TypedInit, HeldInit, CachedInit, CopiedInit DEF IInv

LEMMA IInvNext == IInv /\ [Next]_vars => IInv'
  BY TypedNext, HeldNext, CachedNext, CopiedNext DEF IInv

LEMMA Invariance == Spec => []IInv
  BY IInvInit, IInvNext, PTL DEF Spec

(* The types hold in every reachable state: no copy runs over a buffer.    *)
THEOREM TypeCorrect == Spec => []TypeOK
<1>1. IInv => TypeOK
  BY DEF IInv, Typed
<1> QED
  BY <1>1, Invariance, PTL

(* The cache of a mount has one owner at a time, and the shared zlib       *)
(* stream works on the buffers of the mount whose owner holds the mutex.   *)
THEOREM Exclusion == Spec => []LockDiscipline
<1>1. IInv => LockDiscipline
  BY HeldExcludes DEF IInv
<1> QED
  BY <1>1, Invariance, PTL

(* current_cnode_index never names a cblock that the cache does not hold.  *)
THEOREM Coherence == Spec => []CacheCoherent
<1>1. IInv => CacheCoherent
  BY CachedCoherent DEF IInv
<1> QED
  BY <1>1, Invariance, PTL

(* A cblock stays put while any task copies a page out of it.              *)
THEOREM Stability == Spec => BufferStable
<1> DEFINE Stable == \A t \in Threads : pc[t] = "memcpy" =>
              /\ cblock_buffer_0'[req[t].m] = cblock_buffer_0[req[t].m]
              /\ current_cnode_index[req[t].m] = CnodeIndex(req[t])
<1>1. ASSUME IInv, Next, NEW t \in Threads, pc[t] = "memcpy"
      PROVE  /\ cblock_buffer_0'[req[t].m] = cblock_buffer_0[req[t].m]
             /\ current_cnode_index[req[t].m] = CnodeIndex(req[t])
  <2>1. current_cnode_index[req[t].m] = CnodeIndex(req[t])
    BY <1>1 DEF IInv, Cached, Staged
  <2>2. PICK u \in Threads : (\E r \in Requests : Readpage(u, r)) \/ Step(u) \/ Evict(u)
    BY <1>1 DEF Next
  <2>3. CASE Inflate(u)
    <3>1. /\ req[u].m # req[t].m
          /\ stream.next_out = req[u].m
      BY <1>1, <2>3 DEF IInv, Held, Inflate, Inflating, Writing
    <3>2. req[t].m \in Mounts
      BY <1>1, RequestAssumption DEF IInv, Typed, Asked, IsPage
    <3> QED
      BY <1>1, <2>1, <2>3, <3>1, <3>2 DEF Inflate, IInv, Typed, TypeOK
  <2>4. CASE ~Inflate(u)
    <3>1. cblock_buffer_0' = cblock_buffer_0
      BY <2>2, <2>4
      DEF Readpage, Step, Cache, Uncompress, DownWrite, Compare, CopyBegin,
          CopyEnd, MutexLock, InflateEnd, MutexUnlock, SetCurrent,
          DowngradeWrite, Memcpy, UpRead, CopyMedia, Finish, Evict, cacheVars
    <3> QED
      BY <2>1, <3>1
  <2> QED
    BY <2>3, <2>4
<1>2. IInv /\ [Next]_vars => [Stable]_vars
  BY <1>1
<1> QED
  BY <1>2, Invariance, PTL DEF Spec, BufferStable

-----------------------------------------------------------------------------
(* The refinement mapping, under names of its own.                         *)
Status == [t \in Threads |-> CASE pc[t] = "idle" -> "idle"
                                [] pc[t] = "uptodate" -> "uptodate"
                                [] OTHER -> "reading"]
Data == [t \in Threads |-> IF pc[t] = "uptodate" THEN pgdata[t] ELSE Blank]

LEMMA MappedInit == Init => Pages!PInit
  BY DEF Init, Pages!PInit, Pages!Blank, Pages!Offsets, Pages!Junk, Blank, Offsets, Junk

(* A step inside readpage, from a step that is neither the first nor the   *)
(* last, is a stutter of AxfsPages.                                        *)
LEMMA MappedInside ==
  ASSUME Typed, NEW t \in Threads, Step(t), ~Finish(t)
  PROVE  UNCHANGED Pages!avars
<1>1. /\ pc[t] \notin {"idle", "uptodate"} /\ pc'[t] \notin {"idle", "uptodate"}
      /\ req' = req
      /\ \A u \in Threads : u # t => pc'[u] = pc[u] /\ pgdata'[u] = pgdata[u]
  BY DEF Step, Cache, Uncompress, DownWrite, Compare, CopyBegin,
         CopyEnd, MutexLock, Inflate, InflateEnd, MutexUnlock, SetCurrent,
         DowngradeWrite, Memcpy, UpRead, CopyMedia, Typed, TypeOK, Goto
<1>2. Status' = Status /\ Data' = Data
  BY <1>1 DEF Status, Data, Blank, Offsets
<1> QED
  BY <1>1, <1>2 DEF Status, Data, Pages!avars, Blank, Pages!Blank, Offsets,
                    Pages!Offsets, Junk, Pages!Junk

(* The first step is Ask.                                                  *)
LEMMA MappedReadpage ==
  ASSUME Typed, NEW t \in Threads, NEW r \in Requests, Readpage(t, r)
  PROVE  Pages!Ask(t, r)
<1>1. /\ pc[t] = "idle" /\ pc'[t] \notin {"idle", "uptodate"}
      /\ \A u \in Threads : u # t => pc'[u] = pc[u]
      /\ req' = [req EXCEPT ![t] = r] /\ pgdata' = pgdata
      /\ \A u \in Threads : req[u] # r
  BY DEF Readpage, Typed, TypeOK, Goto
<1>2. Status' = [Status EXCEPT ![t] = "reading"] /\ Status[t] = "idle"
  BY <1>1 DEF Status
<1>3. Data' = Data
  BY <1>1 DEF Data, Blank, Offsets
<1> QED
  BY <1>1, <1>2, <1>3 DEF Pages!Ask, Status, Data

(* Both specifications read the same image.                                *)
LEMMA SameImage ==
  ASSUME NEW r, NEW pg
  PROVE  /\ Corrupt(r) => Pages!Corrupt(r)
         /\ PageFilled(r, pg) => Pages!PageFilled(r, pg)
BY DEF
      Corrupt, PageFilled, InFile, NodeType, CnodeIndex, CnodeOffset,
      BanodeOffset, NodeIndex, ArrayIndex, FileSize, FileBytes, MaxBlock,
      NodeByte, CBlockByte, BAByte, XIPByte, ImageByte, Zero, Offsets, XIP,
      Compressed, Byte_Aligned, Pages!Corrupt, Pages!PageFilled,
      Pages!InFile, Pages!NodeType, Pages!CnodeIndex, Pages!CnodeOffset,
      Pages!BanodeOffset, Pages!NodeIndex, Pages!ArrayIndex,
      Pages!FileSize, Pages!FileBytes, Pages!MaxBlock, Pages!NodeByte,
      Pages!CBlockByte, Pages!BAByte, Pages!XIPByte, Pages!ImageByte,
      Pages!Zero, Pages!Offsets, Pages!XIP, Pages!Compressed,
      Pages!Byte_Aligned

(* The last step is Fill, whatever the mount's other readers did since.    *)
LEMMA MappedFinish ==
  ASSUME IInv, IInv', NEW t \in Threads, Finish(t)
  PROVE  Pages!Fill(t)
<1>1. /\ pc[t] = "memset" /\ pc'[t] = "uptodate" /\ req' = req
      /\ \A u \in Threads : u # t => pc'[u] = pc[u] /\ pgdata'[u] = pgdata[u]
  BY DEF Finish, IInv, Typed, TypeOK, Goto
<1>2. Status' = [Status EXCEPT ![t] = "uptodate"] /\ Status[t] = "reading"
  BY <1>1 DEF Status
<1>3. Data' = [Data EXCEPT ![t] = Data'[t]] /\ Data'[t] = pgdata'[t]
  BY <1>1 DEF Data, Blank, Offsets
<1>4. Corrupt(req[t]) \/ PageFilled(req[t], Data'[t])
  BY <1>1, <1>3 DEF IInv, Copied
<1>5. Pages!Corrupt(req[t]) \/ Pages!PageFilled(req[t], Data'[t])
  BY <1>4, SameImage
<1> QED
  BY <1>1, <1>2, <1>3, <1>5 DEF Pages!Fill, Status, Data

(* The page leaves the page cache: Drop.                                   *)
LEMMA MappedEvict ==
  ASSUME Typed, NEW t \in Threads, Evict(t)
  PROVE  Pages!Drop(t)
<1>1. /\ pc[t] = "uptodate" /\ pc'[t] = "idle"
      /\ \A u \in Threads : u # t => pc'[u] = pc[u] /\ pgdata'[u] = pgdata[u]
      /\ req' = [req EXCEPT ![t] = NoRequest]
  BY DEF Evict, Typed, TypeOK, Goto
<1>2. Status' = [Status EXCEPT ![t] = "idle"] /\ Status[t] = "uptodate"
  BY <1>1 DEF Status
<1>3. Data' = [Data EXCEPT ![t] = Blank]
  BY <1>1 DEF Data, Blank, Offsets
<1> QED
  BY <1>1, <1>2, <1>3 DEF Pages!Drop, Status, Data, Blank,
     Pages!Blank, Offsets, Pages!Offsets, Junk, Pages!Junk

(* readpage implements AxfsPages: a page that any interleaving of readers, *)
(* cache replacements and mounts brings back is the page the image stores. *)
THEOREM Refinement == Spec => ImplementsPages
<1>1. IInv /\ IInv' /\ [Next]_vars => [Pages!PNext]_(Pages!avars)
  <2>1. SUFFICES ASSUME IInv, IInv', [Next]_vars
                 PROVE  Pages!PNext \/ UNCHANGED Pages!avars
    OBVIOUS
  <2>2. CASE UNCHANGED vars
    BY <2>2 DEF vars, Pages!avars
  <2>3. ASSUME NEW t \in Threads, NEW r \in Requests, Readpage(t, r)
        PROVE  Pages!PNext
    BY <2>1, <2>3, MappedReadpage DEF IInv, Pages!PNext
  <2>4. ASSUME NEW t \in Threads, Finish(t)
        PROVE  Pages!PNext
    BY <2>1, <2>4, MappedFinish DEF Pages!PNext
  <2>5. ASSUME NEW t \in Threads, Evict(t)
        PROVE  Pages!PNext
    BY <2>1, <2>5, MappedEvict DEF IInv, Pages!PNext
  <2>6. ASSUME NEW t \in Threads, Step(t), ~Finish(t)
        PROVE  UNCHANGED Pages!avars
    BY <2>1, <2>6, MappedInside DEF IInv
  <2> QED
    BY <2>1, <2>2, <2>3, <2>4, <2>5, <2>6 DEF Next
<1> QED
  BY <1>1, MappedInit, Invariance, PTL DEF Spec, ImplementsPages, Pages!PSpec

-----------------------------------------------------------------------------
(***************************************************************************)
(* Proofs about AxfsFileRead, for any image, any calls, any page size and  *)
(* any width of a size_t.                                                  *)
(***************************************************************************)

(* The loop of axfs_file_read.  size counts down what ActualSize made of   *)
(* len, total_size_read up; a piece is as long as a page, unless it is to  *)
(* be the last one.                                                        *)
Counting ==
  running =>
    /\ pos = call.pos + total_size_read
    /\ size + total_size_read = ActualSize(call)
    /\ readlength = PAGE_CACHE_SIZE \/ readlength >= size

(* A piece begins where the first one does, relative to a page.            *)
Aligned == running /\ size > 0 => pos % PAGE_CACHE_SIZE = call.pos % PAGE_CACHE_SIZE

Bounds == FileReadTypeOK /\ NoOverrun /\ Counting /\ Aligned

-----------------------------------------------------------------------------
(* Division.                                                               *)
LEMMA DivMod ==
  ASSUME NEW a \in Nat, NEW b \in Nat \ {0}
  PROVE  /\ a \div b \in Nat /\ a % b \in 0 .. b - 1
         /\ a = (a \div b) * b + (a % b)
OBVIOUS

LEMMA DivModUnique ==
  ASSUME NEW q \in Nat, NEW b \in Nat \ {0}, NEW r \in 0 .. b - 1
  PROVE  (q * b + r) \div b = q /\ (q * b + r) % b = r
<1> DEFINE a == q * b + r
           d == q - (a \div b)
<1>1. a \in Nat
  OBVIOUS
<1>2. /\ a \div b \in Nat /\ a % b \in 0 .. b - 1
      /\ q * b + r = (a \div b) * b + (a % b)
  BY <1>1, DivMod
<1>3. d \in Int /\ d * b = (a % b) - r
  BY <1>2
<1>4. ~(d >= 1)
  <2>1. d >= 1 => d * b >= b
    BY <1>3
  <2> QED
    BY <1>2, <1>3, <2>1
<1>5. ~(d <= -1)
  <2>1. d <= -1 => d * b <= -b
    BY <1>3
  <2> QED
    BY <1>2, <1>3, <2>1
<1>6. d = 0
  BY <1>3, <1>4, <1>5
<1> QED
  BY <1>2, <1>3, <1>6

(* A page on is at the same place of the page.                             *)
LEMMA PageOn ==
  ASSUME NEW a \in Nat, NEW b \in Nat \ {0}
  PROVE  (a + b) % b = a % b
<1> DEFINE q == a \div b
           r == a % b
<1>1. q \in Nat /\ r \in 0 .. b - 1 /\ a = q * b + r
  BY DivMod
<1> HIDE DEF q, r
<1>2. q + 1 \in Nat /\ a + b = (q + 1) * b + r
  BY <1>1
<1>3. ((q + 1) * b + r) % b = r
  BY <1>1, <1>2, DivModUnique
<1> QED
  BY <1>2, <1>3 DEF r

(* The bytes of a page all lie in it.                                      *)
LEMMA SamePage ==
  ASSUME NEW a \in Nat, NEW b \in Nat \ {0}, a % b = 0, NEW i \in 0 .. b - 1
  PROVE  (a + i) \div b = a \div b
<1> DEFINE q == a \div b
<1>1. q \in Nat /\ a + i = q * b + i
  BY DivMod
<1> HIDE DEF q
<1>2. (q * b + i) \div b = q
  BY <1>1, DivModUnique
<1> QED
  BY <1>1, <1>2 DEF q

LEMMA Small ==
  ASSUME NEW a \in Nat, NEW b \in Nat \ {0}, a < b
  PROVE  a % b = a
<1>1. a \in 0 .. b - 1 /\ 0 * b + a = a
  OBVIOUS
<1> QED
  BY <1>1, DivModUnique

-----------------------------------------------------------------------------
(* The difference wraps only for a call that begins beyond the end of the  *)
(* file.                                                                   *)
LEMMA CallFacts ==
  ASSUME NEW c \in Calls
  PROVE  /\ TotalFileSize(c) \in Nat /\ TotalFileSize(c) < SIZE_MAX_1
         /\ c.pos \in Nat /\ c.len \in Nat /\ c.len < SIZE_MAX_1
         /\ ActualSize(c) \in 0 .. c.len
         /\ c.pos <= TotalFileSize(c) =>
              ActualSize(c) = IF c.len < TotalFileSize(c) - c.pos
                              THEN c.len ELSE TotalFileSize(c) - c.pos
<1> DEFINE rest == TotalFileSize(c) - c.pos
<1>1. /\ SIZE_MAX_1 \in Nat \ {0}
      /\ c.pos \in Nat /\ c.len \in 0 .. SIZE_MAX_1 - 1
      /\ TotalFileSize(c) < SIZE_MAX_1
  BY FileReadAssumption DEF TotalFileSize
<1>2. TotalFileSize(c) \in Nat
  BY FileReadAssumption, ImageAssumption DEF TotalFileSize, TablesOK
<1>3. rest \in Int
  BY <1>1, <1>2
<1>4. Wrap(rest) \in Nat
  BY <1>1, <1>3 DEF Wrap
<1>5. rest >= 0 => Wrap(rest) = rest
  BY <1>1, <1>2, <1>3, Small DEF Wrap
<1> QED
  BY <1>1, <1>2, <1>4, <1>5 DEF ActualSize

(* A piece is never more than what is left to read, and if something is    *)
(* left after it, it was a page, or nothing.                               *)
LEMMA PieceFacts ==
  ASSUME Bounds, running, size > 0
  PROVE  /\ Piece \in Nat /\ Piece <= size /\ Piece <= readlength
         /\ Piece > 0 => pos + Piece <= TotalFileSize(call)
         /\ size - Piece > 0 => Piece \in {0, PAGE_CACHE_SIZE}
<1>1. /\ call \in Calls /\ pos \in Nat /\ size \in Nat /\ readlength \in Nat
      /\ total_size_read \in Nat
      /\ readlength <= call.len - total_size_read
      /\ pos = call.pos + total_size_read
      /\ size + total_size_read = ActualSize(call)
      /\ readlength = PAGE_CACHE_SIZE \/ readlength >= size
  BY FileReadAssumption, ImageAssumption DEF Bounds, FileReadTypeOK, NoOverrun, Counting
<1>2. /\ TotalFileSize(call) \in Nat /\ call.pos \in Nat /\ call.len \in Nat
      /\ call.pos <= TotalFileSize(call) =>
           ActualSize(call) = IF call.len < TotalFileSize(call) - call.pos
                              THEN call.len ELSE TotalFileSize(call) - call.pos
  BY <1>1, CallFacts
<1> QED
  BY <1>1, <1>2 DEF Piece

LEMMA BoundsInit == FileReadInit => Bounds
<1> SUFFICES ASSUME FileReadInit PROVE Bounds
  OBVIOUS
<1>1. call \in Calls /\ call.len \in Nat
  BY CallFacts DEF FileReadInit
<1>2. PAGE_CACHE_SIZE \in Nat \ {0} /\ SIZE_MAX_1 \in Nat \ {0}
  BY FileReadAssumption, ImageAssumption
<1>3. running \in BOOLEAN /\ ~running
  BY DEF FileReadInit
<1>4. /\ pos = 0 /\ size = 0 /\ readlength = 0 /\ total_size_read = 0
      /\ DOMAIN buf = 0 .. call.len - 1
  BY DEF FileReadInit, Empty
<1>5. FileReadTypeOK
  BY <1>1, <1>2, <1>3, <1>4 DEF FileReadTypeOK
<1> QED
  BY <1>3, <1>5 DEF Bounds, NoOverrun, Counting, Aligned

(* Either function takes a piece.                                          *)
LEMMA BoundsTook ==
  ASSUME Bounds, running, size > 0, NEW read, Took(read)
  PROVE  Bounds'
<1> DEFINE n == Piece
           total == total_size_read + n
           left == call.len - total
<1>1. /\ call \in Calls /\ pos \in Nat /\ size \in 0 .. SIZE_MAX_1 - 1
      /\ readlength \in 0 .. PAGE_CACHE_SIZE /\ readlength > 0
      /\ total_size_read \in Nat
      /\ readlength <= call.len - total_size_read
      /\ pos = call.pos + total_size_read
      /\ size + total_size_read = ActualSize(call)
      /\ readlength = PAGE_CACHE_SIZE \/ readlength >= size
  BY FileReadAssumption, ImageAssumption DEF Bounds, FileReadTypeOK, NoOverrun, Counting
<1>2. /\ PAGE_CACHE_SIZE \in Nat \ {0} /\ SIZE_MAX_1 \in Nat \ {0}
      /\ call.len \in Nat /\ call.len < SIZE_MAX_1 /\ call.pos \in Nat
      /\ ActualSize(call) \in 0 .. call.len
  BY <1>1, CallFacts, FileReadAssumption, ImageAssumption
<1>3. /\ n \in Nat /\ n <= size /\ n <= readlength
      /\ size - n > 0 => n \in {0, PAGE_CACHE_SIZE}
  BY PieceFacts
<1>r. (running' <=> running) /\ running' \in BOOLEAN
  BY DEF Took, Bounds, FileReadTypeOK
<1>4. /\ call' = call /\ pos' = pos + n
      /\ total_size_read' = total /\ readlength' = NextLength(total)
      /\ size' = Wrap(size - n) /\ DOMAIN buf' = 0 .. call.len - 1
  BY DEF Took, Bounds, FileReadTypeOK
<1> HIDE DEF n
<1>5. size' = size - n
  <2>1. size - n \in Nat /\ size - n < SIZE_MAX_1
    BY <1>1, <1>2, <1>3
  <2> QED
    BY <1>2, <1>4, <2>1, Small DEF Wrap
<1>6. left \in Nat /\ Wrap(left) = left
  <2>1. left \in Nat /\ left < SIZE_MAX_1
    BY <1>1, <1>2, <1>3
  <2> QED
    BY <1>2, <2>1, Small DEF Wrap
<1>7. readlength' = IF left < PAGE_CACHE_SIZE /\ left # 0 THEN left ELSE readlength
  <2>1. total = call.len <=> left = 0
    BY <1>1, <1>2, <1>3
  <2> QED
    BY <1>4, <1>6, <2>1 DEF NextLength
<1>8. FileReadTypeOK'
  <2>1. total \in 0 .. call.len /\ pos + n \in Nat /\ size - n \in 0 .. SIZE_MAX_1 - 1
    BY <1>1, <1>2, <1>3
  <2>2. readlength' \in 0 .. PAGE_CACHE_SIZE
    BY <1>1, <1>2, <1>6, <1>7
  <2> QED
    BY <1>1, <1>r, <1>4, <1>5, <2>1, <2>2 DEF FileReadTypeOK
<1>9. NoOverrun'
  <2>1. size' > 0 => readlength' \in 1 .. call.len - total
    BY <1>1, <1>2, <1>3, <1>5, <1>6, <1>7
  <2> QED
    BY <1>4, <2>1 DEF NoOverrun
<1>10. ActualSize(call)' = ActualSize(call)
  BY <1>4 DEF ActualSize, TotalFileSize
<1>11. Counting'
  <2>1. pos' = call'.pos + total_size_read'
    <3>1. pos + n = call.pos + (total_size_read + n)
      BY <1>1, <1>2, <1>3
    <3> QED
      BY <1>4, <3>1
  <2>2. size' + total_size_read' = ActualSize(call)'
    <3>1. (size - n) + total = size + total_size_read
      BY <1>1, <1>3
    <3> QED
      BY <1>1, <1>4, <1>5, <1>10, <3>1
  <2>3. left >= size - n /\ size >= size - n
    BY <1>1, <1>2, <1>3
  <2>4. readlength' = PAGE_CACHE_SIZE \/ readlength' >= size'
    BY <1>1, <1>2, <1>3, <1>5, <1>6, <1>7, <2>3
  <2> QED
    BY <2>1, <2>2, <2>4 DEF Counting
<1>12. Aligned'
  <2>1. pos % PAGE_CACHE_SIZE = call.pos % PAGE_CACHE_SIZE
    BY DEF Bounds, Aligned
  <2>2. size' > 0 => pos' \in {pos, pos + PAGE_CACHE_SIZE}
    BY <1>1, <1>3, <1>4, <1>5
  <2>3. (pos + PAGE_CACHE_SIZE) % PAGE_CACHE_SIZE = pos % PAGE_CACHE_SIZE
    BY <1>1, <1>2, PageOn
  <2> QED
    BY <1>4, <2>1, <2>2, <2>3 DEF Aligned
<1> QED
  BY <1>8, <1>9, <1>11, <1>12 DEF Bounds

LEMMA BoundsNext == Bounds /\ [FileReadNext]_readvars => Bounds'
<1> SUFFICES ASSUME Bounds, [FileReadNext]_readvars PROVE Bounds'
  OBVIOUS
<1>1. ASSUME NEW c \in Calls, Call(c)
      PROVE  Bounds'
  <2>1. /\ c.pos \in Nat /\ c.len \in Nat /\ c.len < SIZE_MAX_1
        /\ ActualSize(c) \in 0 .. c.len
        /\ PAGE_CACHE_SIZE \in Nat \ {0} /\ SIZE_MAX_1 \in Nat \ {0}
    BY CallFacts, FileReadAssumption, ImageAssumption
  <2>2. /\ running' = TRUE /\ call' = c /\ pos' = c.pos
        /\ size' = ActualSize(c) /\ readlength' = FirstLength(c)
        /\ total_size_read' = 0 /\ DOMAIN buf' = 0 .. c.len - 1
        /\ ActualSize(call)' = ActualSize(c)
    BY <1>1 DEF Call, Empty, ActualSize, TotalFileSize
  <2>3. FirstLength(c) =
          IF ActualSize(c) < PAGE_CACHE_SIZE THEN ActualSize(c) ELSE PAGE_CACHE_SIZE
    BY DEF FirstLength
  <2> QED
    BY <2>1, <2>2, <2>3 DEF Bounds, FileReadTypeOK, NoOverrun, Counting, Aligned
<1>2. CASE XipFileRead
  BY <1>2, BoundsTook DEF XipFileRead
<1>3. CASE DoSyncRead
  BY <1>3, BoundsTook DEF DoSyncRead
<1>4. CASE Return
  BY <1>4 DEF Return, Bounds, FileReadTypeOK, NoOverrun, Counting, Aligned
<1>5. CASE UNCHANGED readvars
  BY <1>5
  DEF readvars, Bounds, FileReadTypeOK, NoOverrun, Counting, Aligned, ActualSize, TotalFileSize
<1> QED
  BY <1>1, <1>2, <1>3, <1>4, <1>5 DEF FileReadNext

LEMMA BoundsInvariant == FileReadSpec => []Bounds
  BY BoundsInit, BoundsNext, PTL DEF FileReadSpec

-----------------------------------------------------------------------------
(* What xip_file_read takes of an XIP page is the page's.                  *)
LEMMA XipByte ==
  ASSUME NEW c \in Calls, NEW p \in Nat, NodeType(PageAt(c, p)) = XIP
  PROVE  GetXipMem(c, p) = FileByte(c, p)
BY DEF GetXipMem, FileByte, NodeByte, PageAt, XIP, Compressed, Byte_Aligned, NodeType,
       ArrayIndex, NodeIndex

(* The bytes of a piece are of one kind: a piece begins at a page, and is  *)
(* in one page, or the whole file is of one kind.                          *)
LEMMA PieceKind ==
  ASSUME Bounds, running, size > 0, Stored(call), Uncrossed(call), TypeAt(XIP),
         NEW i \in 0 .. Piece - 1
  PROVE  NodeType(PageAt(call, pos + i)) = XIP
<1>1. /\ call \in Calls /\ pos \in Nat /\ i \in Nat /\ TotalFileSize(call) \in Nat
      /\ Piece \in Nat /\ Piece > 0
      /\ pos + Piece <= TotalFileSize(call)
      /\ Piece <= PAGE_CACHE_SIZE /\ PAGE_CACHE_SIZE \in Nat \ {0}
  BY PieceFacts, CallFacts, ImageAssumption DEF Bounds, FileReadTypeOK
<1>2. pos \in 0 .. TotalFileSize(call) - 1 /\ pos + i \in 0 .. TotalFileSize(call) - 1
  BY <1>1
<1>3. NodeType(PageAt(call, pos)) = XIP
  BY <1>2 DEF Stored, TypeAt, PageAt
<1>4. CASE call.pos % PAGE_CACHE_SIZE = 0
  <2>1. pos % PAGE_CACHE_SIZE = 0 /\ i \in 0 .. PAGE_CACHE_SIZE - 1
    BY <1>1, <1>4 DEF Bounds, Aligned
  <2>2. (pos + i) \div PAGE_CACHE_SIZE = pos \div PAGE_CACHE_SIZE
    BY <1>1, <2>1, SamePage
  <2> QED
    BY <1>3, <2>2 DEF PageAt
<1>5. CASE call.pos % PAGE_CACHE_SIZE # 0
  BY <1>2, <1>3, <1>5 DEF Uncrossed
<1> QED
  BY <1>4, <1>5

(* A piece brings the bytes of the file from where it begins.              *)
LEMMA FilledTook ==
  ASSUME Bounds, FilledRight, running, size > 0,
         NEW read, Took(read),
         \A i \in 0 .. Piece - 1 : read[i] = FileByte(call, pos + i)
  PROVE  FilledRight'
<1>1. /\ pos = call.pos + total_size_read /\ total_size_read \in Nat /\ pos \in Nat
      /\ call.pos \in Nat /\ call.len \in Nat /\ DOMAIN buf = 0 .. call.len - 1
      /\ Piece \in Nat
  BY PieceFacts, CallFacts DEF Bounds, FileReadTypeOK, Counting
<1>r. call' = call /\ total_size_read' = total_size_read + Piece /\ DOMAIN buf' = DOMAIN buf
  BY DEF Took
<1>2. SUFFICES ASSUME NEW i \in DOMAIN buf
               PROVE  buf'[i] = IF i < total_size_read + Piece
                                THEN FileByte(call, call.pos + i) ELSE Junk
  BY <1>r, <1>2 DEF FilledRight
<1>3. i \in Nat
  BY <1>1
<1>4. buf'[i] = IF i \in total_size_read .. total_size_read + Piece - 1
                THEN read[i - total_size_read] ELSE buf[i]
  BY DEF Took
<1>5. buf[i] = IF i < total_size_read THEN FileByte(call, call.pos + i) ELSE Junk
  BY DEF FilledRight
<1>6. CASE i \in total_size_read .. total_size_read + Piece - 1
  <2>1. i - total_size_read \in 0 .. Piece - 1
    BY <1>1, <1>3, <1>6
  <2>2. pos + (i - total_size_read) = call.pos + i
    BY <1>1, <1>3
  <2>3. read[i - total_size_read] = FileByte(call, call.pos + i)
    BY <2>1, <2>2
  <2>4. i < total_size_read + Piece
    BY <1>1, <1>3, <1>6
  <2> QED
    BY <1>4, <1>6, <2>3, <2>4
<1>7. CASE i \notin total_size_read .. total_size_read + Piece - 1
  BY <1>1, <1>3, <1>4, <1>5, <1>7
<1> QED
  BY <1>6, <1>7

LEMMA FilledNext ==
  ASSUME \A c \in Calls : Stored(c) /\ Uncrossed(c),
         Bounds, FilledRight, [FileReadNext]_readvars
  PROVE  FilledRight'
<1>1. ASSUME NEW c \in Calls, Call(c)
      PROVE  FilledRight'
  <2>1. \A i \in DOMAIN buf' : i \in Nat /\ buf'[i] = Junk
    BY <1>1, CallFacts DEF Call, Empty
  <2>2. total_size_read' = 0
    BY <1>1 DEF Call
  <2> QED
    BY <2>1, <2>2 DEF FilledRight
<1>2. CASE XipFileRead
  <2>1. running /\ size > 0 /\ call \in Calls /\ pos \in Nat /\ TypeAt(XIP)
    BY <1>2 DEF XipFileRead, Bounds, FileReadTypeOK
  <2> DEFINE read == [i \in 0 .. Piece - 1 |-> GetXipMem(call, pos + i)]
  <2>2. ASSUME NEW i \in 0 .. Piece - 1
        PROVE  read[i] = FileByte(call, pos + i)
    <3>1. NodeType(PageAt(call, pos + i)) = XIP
      BY <2>1, PieceKind
    <3>2. pos + i \in Nat
      BY <2>1, PieceFacts
    <3> QED
      BY <2>1, <3>1, <3>2, XipByte
  <2>3. Took(read)
    BY <1>2 DEF XipFileRead
  <2> HIDE DEF read
  <2> QED
    BY <2>1, <2>2, <2>3, FilledTook
<1>3. CASE DoSyncRead
  <2> DEFINE read == [i \in 0 .. Piece - 1 |-> FileByte(call, pos + i)]
  <2>1. running /\ size > 0 /\ Took(read)
    BY <1>3 DEF DoSyncRead
  <2>2. \A i \in 0 .. Piece - 1 : read[i] = FileByte(call, pos + i)
    OBVIOUS
  <2> HIDE DEF read
  <2> QED
    BY <2>1, <2>2, FilledTook
<1>4. CASE Return
  BY <1>4 DEF Return, FilledRight
<1>5. CASE UNCHANGED readvars
  <2>1. running' = running /\ call' = call /\ total_size_read' = total_size_read /\ buf' = buf
    BY <1>5 DEF readvars
  <2>2. \A i : FileByte(call, call.pos + i)' = FileByte(call, call.pos + i)
    BY <2>1 DEF FileByte, PageAt, NodeByte, NodeType, NodeIndex,
       ArrayIndex, CBlockByte, BAByte, XIPByte, CnodeIndex, CnodeOffset, BanodeOffset
  <2> QED
    BY <2>1, <2>2 DEF FilledRight
<1> QED
  BY <1>1, <1>2, <1>3, <1>4, <1>5 DEF FileReadNext

-----------------------------------------------------------------------------
(* read(2) puts together the bytes of the file, in the user's buffer and   *)
(* nowhere else, whatever the lengths of the pieces and the types of the   *)
(* nodes, for calls whose pieces do not cross from an XIP page into        *)
(* another.                                                                *)
THEOREM ReadJoins ==
  (\A c \in Calls : Stored(c) /\ Uncrossed(c)) => (FileReadSpec => []ReadRight)
<1> SUFFICES ASSUME \A c \in Calls : Stored(c) /\ Uncrossed(c)
             PROVE  FileReadSpec => []ReadRight
  OBVIOUS
<1>1. FileReadInit => FilledRight
  BY DEF FileReadInit, FilledRight
<1>2. Bounds /\ FilledRight /\ [FileReadNext]_readvars => FilledRight'
  BY FilledNext
<1>3. Bounds /\ FilledRight => ReadRight
  BY DEF Bounds, ReadRight
<1> QED
  BY <1>1, <1>2, <1>3, BoundsInvariant, PTL DEF FileReadSpec

(* A call that begins within the file reads all that was asked for or all  *)
(* that there is, and moves *ppos by as much.                              *)
THEOREM ReadExact ==
  (\A c \in Calls : c.pos <= TotalFileSize(c)) => (FileReadSpec => ExactRead)
<1> SUFFICES ASSUME \A c \in Calls : c.pos <= TotalFileSize(c)
             PROVE  FileReadSpec => ExactRead
  OBVIOUS
<1> DEFINE All == Return =>
             /\ total_size_read = IF call.len < TotalFileSize(call) - call.pos
                                  THEN call.len ELSE TotalFileSize(call) - call.pos
             /\ pos = call.pos + total_size_read
<1>1. Bounds => All
  <2> SUFFICES ASSUME Bounds, Return PROVE All
    OBVIOUS
  <2>1. /\ call \in Calls /\ total_size_read \in Nat /\ size = 0
        /\ pos = call.pos + total_size_read
        /\ size + total_size_read = ActualSize(call)
    BY DEF Bounds, FileReadTypeOK, Counting, Return
  <2> QED
    BY <2>1, CallFacts
<1>2. Bounds /\ [FileReadNext]_readvars => [All]_readvars
  BY <1>1
<1> QED
  BY <1>2, BoundsInvariant, PTL DEF FileReadSpec, ExactRead
=============================================================================
