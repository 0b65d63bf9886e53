----------------------------- MODULE AxfsReadpage -----------------------------
(***************************************************************************)
(* axfs_readpage (axfs_inode.c) together with axfs_uncompress_block        *)
(* (axfs_uncompress.c), as any number of tasks run them.                   *)
(*                                                                         *)
(* Each mount keeps ONE decompressed cblock (cblock_buffer[0]), the index  *)
(* of that cblock (current_cnode_index), one staging buffer for compressed *)
(* data (cblock_buffer[1]) and one rw semaphore (lock).  All mounts share  *)
(* ONE zlib stream, guarded by axfs_uncmp_mutex.  A reader that needs      *)
(* another cblock takes the semaphore for writing, replaces the cblock,    *)
(* downgrades to reading and copies its page out.                          *)
(*                                                                         *)
(* Decompression and the copy to the page go byte by byte, so that every   *)
(* interleaving a missing lock would allow is a behaviour of the model.    *)
(***************************************************************************)
EXTENDS AxfsImage

CONSTANTS
  Threads,   \* the tasks that call readpage
  Requests,  \* the pages they may ask for
  NoRequest, \* stands for "no page in hand"
  NoThread   \* stands for "nobody holds the lock"

VARIABLES
  pc,                  \* pc[t]: where task t is in axfs_readpage
  req,                 \* req[t]: the page t reads
  pgdata,              \* pgdata[t]: the bytes of that page
  copied,              \* copied[t]: how many bytes t's memcpy has moved
  lock,                \* lock[m]: the rw semaphore of mount m
  current_cnode_index, \* current_cnode_index[m]: the cblock in the cache
  cblock_buffer_0,     \* cblock_buffer_0[m]: the decompressed bytes
  cblock_buffer_1,     \* cblock_buffer_1[m]: which compressed cblock is staged
  axfs_uncmp_mutex,    \* the task that holds the decompressor
  stream               \* the one z_stream of all mounts

vars == <<pc, req, pgdata, copied, lock, current_cnode_index,
          cblock_buffer_0, cblock_buffer_1, axfs_uncmp_mutex, stream>>

cacheVars  == <<current_cnode_index, cblock_buffer_0, cblock_buffer_1>>
streamVars == <<axfs_uncmp_mutex, stream>>

ASSUME ThreadAssumption == NoThread \notin Threads

ASSUME RequestAssumption ==
  /\ NoRequest \notin Requests
  /\ \A r \in Requests : IsPage(r) /\ (InFile(r) => StoredOK(r))

-----------------------------------------------------------------------------
(* current_cnode_index after mount: (u64)-1, the index of no cblock.       *)
NoCnode == -1

(* The contents of cblock_buffer[1] while axfs_copy_data is writing it.    *)
Torn == -2

(* The steps under the write half of the semaphore, those of them in which *)
(* the cached cblock is being replaced, and those that hold the mutex.     *)
Writing   == {"compare", "copy_begin", "copy_end", "mutex_lock", "inflate",
              "mutex_unlock", "set_current", "downgrade"}
Replacing == {"inflate", "mutex_unlock", "set_current"}
Inflating == {"inflate", "mutex_unlock"}

Goto(t, to) == pc' = [pc EXCEPT ![t] = to]

Init ==
  /\ pc = [t \in Threads |-> "idle"]
  /\ req = [t \in Threads |-> NoRequest]
  /\ pgdata = [t \in Threads |-> Blank]
  /\ copied = [t \in Threads |-> 0]
  /\ lock = [m \in Mounts |-> [writer |-> NoThread, readers |-> {}]]
  /\ current_cnode_index = [m \in Mounts |-> NoCnode]
  /\ cblock_buffer_0 = [m \in Mounts |-> [i \in 0 .. sbi[m].cblock_size - 1 |-> Junk]]
  /\ cblock_buffer_1 = [m \in Mounts |-> NoCnode]
  /\ axfs_uncmp_mutex = NoThread
  /\ \E m \in Mounts : stream = [next_in |-> m, next_out |-> m, total_out |-> 0]

-----------------------------------------------------------------------------
(* The VFS calls readpage on a page it has locked.  The branches of        *)
(* axfs_readpage: beyond the end of the file nothing is copied (len is 0); *)
(* a compressed node goes through the cache; the others are read directly. *)
Readpage(t, r) ==
  /\ pc[t] = "idle"
  /\ \A u \in Threads : req[u] # r
  /\ req' = [req EXCEPT ![t] = r]
  /\ Goto(t, IF ~InFile(r) THEN "memset"
             ELSE IF NodeType(r) = Compressed THEN "down_write"
             ELSE "copy_media")
  /\ UNCHANGED <<pgdata, copied, lock, cacheVars, streamVars>>

(* Mutant: the copy is not capped at a page.                               *)
CopyLenUncapped(r) ==
  IF ~InFile(r) THEN 0
  ELSE CASE NodeType(r) = Compressed -> sbi[r.m].cblock_size - CnodeOffset(r)
         [] NodeType(r) = Byte_Aligned ->
              sbi[r.m].byte_aligned_size - BanodeOffset(r)
         [] OTHER -> PAGE_CACHE_SIZE

(* How many bytes readpage copies into the page: len.                      *)
CopyLen(r) ==
  LET max_len == CASE NodeType(r) = Compressed ->
                        sbi[r.m].cblock_size - CnodeOffset(r)
                   [] NodeType(r) = Byte_Aligned ->
                        sbi[r.m].byte_aligned_size - BanodeOffset(r)
                   [] OTHER -> PAGE_CACHE_SIZE
  IN  IF ~InFile(r) THEN 0
      ELSE IF max_len > PAGE_CACHE_SIZE THEN PAGE_CACHE_SIZE ELSE max_len

(* Byte aligned and XIP nodes: axfs_copy_data straight into the page.      *)
CopyMedia(t) ==
  /\ pc[t] = "copy_media"
  /\ pgdata' = [pgdata EXCEPT ![t] =
                 [i \in Offsets |-> IF i < CopyLen(req[t])
                                    THEN NodeByte(req[t], i) ELSE @[i]]]
  /\ Goto(t, "memset")
  /\ UNCHANGED <<req, copied, lock, cacheVars, streamVars>>

-----------------------------------------------------------------------------
(* The cache of a mount.                                                   *)

DownWrite(t) ==
  LET m == req[t].m IN
  /\ pc[t] = "down_write"
  /\ lock[m].writer = NoThread
  /\ lock[m].readers = {}
  /\ lock' = [lock EXCEPT ![m].writer = t]
  /\ Goto(t, "compare")
  /\ UNCHANGED <<req, pgdata, copied, cacheVars, streamVars>>

(* Mutant: uncompress only if the cache is empty.                          *)
CompareFilled(t) ==
  /\ pc[t] = "compare"
  /\ Goto(t, IF current_cnode_index[req[t].m] = NoCnode
             THEN "copy_begin" ELSE "downgrade")
  /\ UNCHANGED <<req, pgdata, copied, lock, cacheVars, streamVars>>

(* Uncompress only if the cache holds a different cblock.                  *)
Compare(t) ==
  /\ pc[t] = "compare"
  /\ Goto(t, IF CnodeIndex(req[t]) # current_cnode_index[req[t].m]
             THEN "copy_begin" ELSE "downgrade")
  /\ UNCHANGED <<req, pgdata, copied, lock, cacheVars, streamVars>>

(* Mutant: the compressed data is not waited for.                          *)
CopyBeginNoWait(t) ==
  /\ pc[t] = "copy_begin"
  /\ cblock_buffer_1' = [cblock_buffer_1 EXCEPT ![req[t].m] = Torn]
  /\ Goto(t, "mutex_lock")
  /\ UNCHANGED <<req, pgdata, copied, lock, current_cnode_index,
                 cblock_buffer_0, streamVars>>

(* axfs_copy_data into cblock_buffer[1]: it may sleep in sb_bread between  *)
(* its first byte and its last.  The compressed length comes from the      *)
(* table, and nothing compares it with the buffer's: that it fits is left  *)
(* to the image builder.                                                   *)
CopyBegin(t) ==
  /\ pc[t] = "copy_begin"
  /\ cblock_buffer_1' = [cblock_buffer_1 EXCEPT ![req[t].m] = Torn]
  /\ Goto(t, "copy_end")
  /\ UNCHANGED <<req, pgdata, copied, lock, current_cnode_index,
                 cblock_buffer_0, streamVars>>

CopyEnd(t) ==
  /\ pc[t] = "copy_end"
  /\ cblock_buffer_1' =
       [cblock_buffer_1 EXCEPT ![req[t].m] = CnodeIndex(req[t])]
  /\ Goto(t, "mutex_lock")
  /\ UNCHANGED <<req, pgdata, copied, lock, current_cnode_index,
                 cblock_buffer_0, streamVars>>

-----------------------------------------------------------------------------
(* axfs_uncompress_block: point the shared stream at the buffers of this   *)
(* mount, reset it, inflate, unlock.                                       *)

(* Mutant: the decompressor is entered without the mutex being free.       *)
MutexLockRace(t) ==
  /\ pc[t] = "mutex_lock"
  /\ axfs_uncmp_mutex' = t
  /\ stream' = [next_in |-> req[t].m, next_out |-> req[t].m, total_out |-> 0]
  /\ Goto(t, "inflate")
  /\ UNCHANGED <<req, pgdata, copied, lock, cacheVars>>

(* zlib_inflateReset fails only for a stream that was never set up, which  *)
(* is left to AxfsModule (StreamReady).                                    *)
MutexLock(t) ==
  /\ pc[t] = "mutex_lock"
  /\ axfs_uncmp_mutex = NoThread
  /\ axfs_uncmp_mutex' = t
  /\ stream' = [next_in |-> req[t].m, next_out |-> req[t].m, total_out |-> 0]
  /\ Goto(t, "inflate")
  /\ UNCHANGED <<req, pgdata, copied, lock, cacheVars>>

(* What the stream reads is whatever the staging buffer it points at holds.*)
Inflatable ==
  LET m == stream.next_in
      c == cblock_buffer_1[m]
  IN  c \in DOMAIN sbi[m].cblock_len /\ c \notin sbi[m].bad_cblocks

Inflated ==
  Inflatable /\ stream.total_out =
                  sbi[stream.next_in].cblock_len[cblock_buffer_1[stream.next_in]]

Inflate(t) ==
  LET out == stream.next_out IN
  /\ pc[t] = "inflate"
  /\ ~Inflated
  /\ stream.total_out < sbi[out].cblock_size
  /\ cblock_buffer_0' = [cblock_buffer_0 EXCEPT ![out][stream.total_out] =
       IF Inflatable
       THEN CBlockByte(stream.next_in, cblock_buffer_1[stream.next_in],
                       stream.total_out)
       ELSE Junk]
  /\ stream' = [stream EXCEPT !.total_out = @ + 1]
  /\ UNCHANGED <<pc, req, pgdata, copied, lock, current_cnode_index,
                 cblock_buffer_1, axfs_uncmp_mutex>>

(* Z_STREAM_END, or an error at any point of a cblock that does not        *)
(* inflate: the caller does not look at the difference.                    *)
InflateEnd(t) ==
  /\ pc[t] = "inflate"
  /\ Inflated \/ ~Inflatable
  /\ Goto(t, "mutex_unlock")
  /\ UNCHANGED <<req, pgdata, copied, lock, cacheVars, streamVars>>

(* Mutant: a cblock that did not inflate is fetched again.                 *)
MutexUnlockRetry(t) ==
  /\ pc[t] = "mutex_unlock"
  /\ axfs_uncmp_mutex' = NoThread
  /\ Goto(t, IF Inflatable THEN "set_current" ELSE "copy_begin")
  /\ UNCHANGED <<req, pgdata, copied, lock, cacheVars, stream>>

MutexUnlock(t) ==
  /\ pc[t] = "mutex_unlock"
  /\ axfs_uncmp_mutex' = NoThread
  /\ Goto(t, "set_current")
  /\ UNCHANGED <<req, pgdata, copied, lock, cacheVars, stream>>

-----------------------------------------------------------------------------
SetCurrent(t) ==
  /\ pc[t] = "set_current"
  /\ current_cnode_index' =
       [current_cnode_index EXCEPT ![req[t].m] = CnodeIndex(req[t])]
  /\ Goto(t, "downgrade")
  /\ UNCHANGED <<req, pgdata, copied, lock, cblock_buffer_0, cblock_buffer_1,
                 streamVars>>

DowngradeWrite(t) ==
  LET m == req[t].m IN
  /\ pc[t] = "downgrade"
  /\ lock' = [lock EXCEPT ![m] = [writer |-> NoThread,
                                  readers |-> lock[m].readers \cup {t}]]
  /\ Goto(t, "memcpy")
  /\ UNCHANGED <<req, pgdata, copied, cacheVars, streamVars>>

(* Mutant: the page is copied from the start of the cblock.                *)
MemcpyNoOffset(t) ==
  LET r == req[t] IN
  /\ pc[t] = "memcpy"
  /\ copied[t] < CopyLen(r)
  /\ pgdata' = [pgdata EXCEPT ![t][copied[t]] = cblock_buffer_0[r.m][copied[t]]]
  /\ copied' = [copied EXCEPT ![t] = @ + 1]
  /\ UNCHANGED <<pc, req, lock, cacheVars, streamVars>>

Memcpy(t) ==
  LET r == req[t] IN
  /\ pc[t] = "memcpy"
  /\ copied[t] < CopyLen(r)
  /\ pgdata' = [pgdata EXCEPT ![t][copied[t]] =
                  cblock_buffer_0[r.m][CnodeOffset(r) + copied[t]]]
  /\ copied' = [copied EXCEPT ![t] = @ + 1]
  /\ UNCHANGED <<pc, req, lock, cacheVars, streamVars>>

UpRead(t) ==
  LET m == req[t].m IN
  /\ pc[t] = "memcpy"
  /\ copied[t] = CopyLen(req[t])
  /\ lock' = [lock EXCEPT ![m].readers = @ \ {t}]
  /\ Goto(t, "memset")
  /\ UNCHANGED <<req, pgdata, copied, cacheVars, streamVars>>

(* Zero the rest of the page, mark it up to date, unlock it.               *)
Finish(t) ==
  /\ pc[t] = "memset"
  /\ pgdata' = [pgdata EXCEPT ![t] =
                 [i \in Offsets |-> IF i < CopyLen(req[t]) THEN @[i] ELSE Zero]]
  /\ Goto(t, "uptodate")
  /\ UNCHANGED <<req, copied, lock, cacheVars, streamVars>>

(* The page leaves the page cache, and the task may read another one.      *)
Evict(t) ==
  /\ pc[t] = "uptodate"
  /\ Goto(t, "idle")
  /\ req' = [req EXCEPT ![t] = NoRequest]
  /\ pgdata' = [pgdata EXCEPT ![t] = Blank]
  /\ copied' = [copied EXCEPT ![t] = 0]
  /\ UNCHANGED <<lock, cacheVars, streamVars>>

-----------------------------------------------------------------------------
Cache(t) == DownWrite(t) \/ Compare(t) \/ CopyBegin(t) \/ CopyEnd(t)
              \/ SetCurrent(t) \/ DowngradeWrite(t) \/ Memcpy(t) \/ UpRead(t)

Uncompress(t) == MutexLock(t) \/ Inflate(t) \/ InflateEnd(t) \/ MutexUnlock(t)

Step(t) == Cache(t) \/ Uncompress(t) \/ CopyMedia(t) \/ Finish(t)

Next == \E t \in Threads :
          (\E r \in Requests : Readpage(t, r)) \/ Step(t) \/ Evict(t)

Spec == Init /\ [][Next]_vars

(***************************************************************************)
(* Every task inside readpage keeps running.  The kernel queues the tasks  *)
(* that wait for a semaphore or a mutex in order of arrival, so one that   *)
(* finds it free again and again gets it: strong fairness.  Nothing makes  *)
(* the VFS ask for a page, nor evict one.                                  *)
(***************************************************************************)
Fairness == \A t \in Threads :
  WF_vars(Step(t)) /\ SF_vars(DownWrite(t)) /\ SF_vars(MutexLock(t))

FairSpec == Spec /\ Fairness

-----------------------------------------------------------------------------
(* Type correctness: buffers keep their sizes, indices stay inside them    *)
(* (what axfs_readpage allocates, copies and passes to zlib).              *)
TypeOK ==
  /\ pc \in [Threads -> Writing \cup {"idle", "copy_media", "down_write",
                                      "memcpy", "memset", "uptodate"}]
  /\ req \in [Threads -> Requests \cup {NoRequest}]
  /\ DOMAIN pgdata = Threads /\ \A t \in Threads : DOMAIN pgdata[t] = Offsets
  /\ copied \in [Threads -> 0 .. PAGE_CACHE_SIZE]
  /\ lock \in [Mounts -> [writer : Threads \cup {NoThread}, readers : SUBSET Threads]]
  /\ DOMAIN current_cnode_index = Mounts
  /\ DOMAIN cblock_buffer_0 = Mounts /\ DOMAIN cblock_buffer_1 = Mounts
  /\ \A m \in Mounts :
       /\ current_cnode_index[m] \in DOMAIN sbi[m].cblock_len \cup {NoCnode}
       /\ cblock_buffer_1[m] \in DOMAIN sbi[m].cblock_len \cup {NoCnode, Torn}
       /\ DOMAIN cblock_buffer_0[m] = 0 .. sbi[m].cblock_size - 1
  /\ axfs_uncmp_mutex \in Threads \cup {NoThread}
  /\ stream \in [next_in : Mounts, next_out : Mounts, total_out : Nat]
  /\ stream.total_out <= sbi[stream.next_out].cblock_size

(* The two locks of readpage together: a mount's cache has one owner, from *)
(* down_write through the downgrade to up_read, and the shared zlib stream *)
(* is only ever used by an owner, on the buffers of its own mount.         *)
LockDiscipline ==
  /\ \A t, u \in Threads :
       /\ pc[t] \in Writing /\ pc[u] \in Writing \cup {"memcpy"}
       /\ req[t].m = req[u].m
       => t = u
  /\ \A t \in Threads : pc[t] \in Inflating =>
       /\ axfs_uncmp_mutex = t
       /\ lock[req[t].m].writer = t
       /\ stream.next_in = req[t].m
       /\ stream.next_out = req[t].m

(* current_cnode_index tells the truth: unless some task is replacing it,  *)
(* cblock_buffer[0] holds the whole of the cblock that the index names (if *)
(* that cblock inflates), and of this mount, however many mounts share the *)
(* zlib stream (axfs_readpage skips decompression on the index alone).     *)
CacheCoherent ==
  \A m \in Mounts :
    LET c == current_cnode_index[m] IN
    \/ \E t \in Threads : pc[t] \in Replacing /\ req[t].m = m
    \/ c = NoCnode
    \/ c \in sbi[m].bad_cblocks
    \/ \A i \in 0 .. sbi[m].cblock_len[c] - 1 :
         cblock_buffer_0[m][i] = CBlockByte(m, c, i)

(* A cblock is not replaced under a task that copies its page out of it    *)
(* (readpage copies after downgrade_write, under the read half only).      *)
BufferStable ==
  [][\A t \in Threads : pc[t] = "memcpy" =>
       /\ cblock_buffer_0'[req[t].m] = cblock_buffer_0[req[t].m]
       /\ current_cnode_index[req[t].m] = CnodeIndex(req[t])]_vars

(* readpage implements AxfsPages: whatever the other tasks do meanwhile, a *)
(* page comes back filled with its bytes, in what looks like one step.     *)
Pages == INSTANCE AxfsPages WITH
  status <- [t \in Threads |-> CASE pc[t] = "idle" -> "idle"
                                 [] pc[t] = "uptodate" -> "uptodate"
                                 [] OTHER -> "reading"],
  asked  <- req,
  data   <- [t \in Threads |-> IF pc[t] = "uptodate" THEN pgdata[t] ELSE Blank]

ImplementsPages == Pages!PSpec

(* readpage's header: "page filled with data from the file", without the   *)
(* exception for cblocks that do not inflate.                              *)
UptodateIsFilled ==
  \A t \in Threads : pc[t] = "uptodate" => PageFilled(req[t], pgdata[t])

(* Every readpage returns: neither lock is lost, and no two tasks wait for *)
(* each other over the semaphore and the zlib mutex.                       *)
ReadpageReturns ==
  \A t \in Threads : pc[t] \notin {"idle", "uptodate"} ~> pc[t] = "uptodate"
=============================================================================
