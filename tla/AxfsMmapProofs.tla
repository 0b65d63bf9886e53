---------------------------- MODULE AxfsMmapProofs ----------------------------
(***************************************************************************)
(* Proofs about AxfsMmap and AxfsXipRecord, for any images, tasks, readers *)
(* and mappings, and a log of any size.                                    *)
(***************************************************************************)
EXTENDS AxfsMmap, TLAPS

-----------------------------------------------------------------------------
(* Division.                                                               *)
LEMMA DivMod ==
  ASSUME NEW a \in Nat, NEW b \in Nat \ {0}
  PROVE  /\ a \div b \in Nat /\ a % b \in 0 .. b - 1
         /\ a = (a \div b) * b + (a % b)
OBVIOUS

LEMMA DivUnique ==
  ASSUME NEW q \in Nat, NEW b \in Nat \ {0}, NEW r \in 0 .. b - 1
  PROVE  (q * b + r) \div b = q
<1> DEFINE a == q * b + r
           d == q - (a \div b)
<1>1. a \in Nat
  OBVIOUS
<1>2. /\ a \div b \in Nat /\ a % b \in 0 .. b - 1
      /\ q * b + r = (a \div b) * b + (a % b)
  BY <1>1, DivMod
<1>3. d \in Int /\ d * b = (a % b) - r
  BY <1>2
<1>4. ~(d >= 1)
  <2>1. d >= 1 => d * b >= b
    BY <1>3
  <2> QED
    BY <1>2, <1>3, <2>1
<1>5. ~(d <= -1)
  <2>1. d <= -1 => d * b <= -b
    BY <1>3
  <2> QED
    BY <1>2, <1>3, <2>1
<1>6. d = 0
  BY <1>3, <1>4, <1>5
<1> QED
  BY <1>2, <1>6

LEMMA DivAdd ==
  ASSUME NEW a \in Nat, NEW n \in Nat, NEW b \in Nat \ {0}
  PROVE  (a + n * b) \div b = (a \div b) + n
<1> DEFINE q == a \div b
           r == a % b
<1>1. q \in Nat /\ r \in 0 .. b - 1 /\ a = q * b + r
  BY DivMod
<1> HIDE DEF q, r
<1>2. q + n \in Nat /\ a + n * b = (q + n) * b + r
  BY <1>1
<1>3. ((q + n) * b + r) \div b = q + n
  BY <1>1, <1>2, DivUnique
<1> QED
  BY <1>2, <1>3 DEF q

-----------------------------------------------------------------------------
(* The pages that axfs_mmap goes through: those of the mapping, or those   *)
(* of the file, whichever are fewer.                                       *)
LEMMA NumPagesIs ==
  ASSUME NEW q, IsRequest(q), NEW i \in Nat
  PROVE  /\ NumPages(q) \in Nat /\ NumPages(q) <= q.pages
         /\ q.pgoff = 0 /\ i < NumPages(q) => InFile(PageOf(q, i))
         /\ i < q.pages /\ InFile(PageOf(q, i)) => i < NumPages(q)
<1> DEFINE P == PAGE_CACHE_SIZE
           n == q.pages
           size == sbi[q.m].inode_file_size[q.ino]
           blocks == (size + P - 1) \div P
<1>1. P \in Nat \ {0} /\ n \in Nat /\ size \in Nat /\ q.pgoff \in Nat
  <2>1. TablesOK(sbi[q.m]) /\ q.ino \in DOMAIN sbi[q.m].inode_file_size
    BY ImageAssumption DEF IsRequest
  <2>2. size \in Nat
    BY <2>1 DEF TablesOK
  <2>3. n \in Nat /\ q.pgoff \in Nat
    BY DEF IsRequest
  <2> QED
    BY <2>2, <2>3, ImageAssumption
<1>2. NumPages(q) = PAGE_ALIGN(IF n * P > size THEN size ELSE n * P) \div P
  BY DEF NumPages
<1>3. InFile(PageOf(q, i)) <=> q.pgoff + i < blocks
  BY DEF InFile, MaxBlock, FileSize, PageOf
<1> HIDE DEF P, n, size
<1>4. \A x \in Nat : PAGE_ALIGN(x) \div P = (x + P - 1) \div P
  <2> SUFFICES ASSUME NEW x \in Nat
               PROVE  PAGE_ALIGN(x) \div P = (x + P - 1) \div P
    OBVIOUS
  <2> DEFINE c == (x + P - 1) \div P
  <2>1. x + P - 1 \in Nat
    BY <1>1
  <2>2. c \in Nat
    BY <1>1, <2>1, DivMod
  <2>3. PAGE_ALIGN(x) = c * P
    BY DEF PAGE_ALIGN, P
  <2> HIDE DEF c
  <2>4. (c * P + 0) \div P = c /\ c * P + 0 = c * P
    <3>1. 0 \in 0 .. P - 1 /\ c * P \in Nat
      BY <1>1, <2>2
    <3> QED
      BY <1>1, <2>2, <3>1, DivUnique
  <2> QED
    BY <2>3, <2>4 DEF c
<1>5. (n * P + P - 1) \div P = n
  <2>1. P - 1 \in 0 .. P - 1 /\ n * P + (P - 1) = n * P + P - 1
    BY <1>1
  <2>2. (n * P + (P - 1)) \div P = n
    BY <1>1, <2>1, DivUnique
  <2> QED
    BY <2>1, <2>2
<1>6. blocks \in Nat /\ size + P - 1 >= blocks * P /\ size + P - 1 < blocks * P + P
  <2>1. size + P - 1 \in Nat
    BY <1>1
  <2>2. /\ blocks \in Nat /\ (size + P - 1) % P \in 0 .. P - 1
        /\ size + P - 1 = blocks * P + ((size + P - 1) % P)
    BY <1>1, <2>1, DivMod
  <2> QED
    BY <1>1, <2>2
<1>7. CASE n * P > size
  <2>1. NumPages(q) = blocks
    BY <1>1, <1>2, <1>4, <1>7
  <2> HIDE DEF blocks
  <2>2. ~(blocks >= n + 1)
    <3>1. blocks >= n + 1 => blocks * P >= (n + 1) * P
      BY <1>1, <1>6
    <3>2. (n + 1) * P = n * P + P
      BY <1>1
    <3> QED
      BY <1>1, <1>6, <1>7, <3>1, <3>2
  <2> QED
    BY <1>1, <1>3, <1>6, <2>1, <2>2 DEF n
<1>8. CASE ~(n * P > size)
  <2>1. NumPages(q) = n
    BY <1>1, <1>2, <1>4, <1>5, <1>8
  <2> HIDE DEF blocks
  <2>2. blocks >= n
    <3>1. blocks < n => (blocks + 1) * P <= n * P
      BY <1>1, <1>6
    <3>2. (blocks + 1) * P = blocks * P + P
      BY <1>1, <1>6
    <3> QED
      BY <1>1, <1>6, <1>8, <3>1, <3>2
  <2> QED
    BY <1>1, <1>3, <1>6, <2>1, <2>2 DEF n
<1> QED
  BY <1>7, <1>8

-----------------------------------------------------------------------------
(* What one task has mapped, and where it is.                              *)

TaskRight(t) ==
  /\ pc[t] = "idle" => pte[t] = <<>>
  /\ pc[t] # "idle" => IsRequest(vma[t]) /\ DOMAIN pte[t] = 0 .. vma[t].pages - 1
  /\ pc[t] \in {"idle", "generic", "mapped"} => count[t] = 0
  /\ pc[t] = "loop" => count[t] <= NumPages(vma[t])
  /\ pc[t] \in {"record", "recording"} =>
       /\ count[t] < NumPages(vma[t])
       /\ pte[t][count[t]] = XipNodeFrame(ThisPage(t))

TasksRight ==
  /\ DOMAIN vma = Tasks /\ DOMAIN pte = Tasks
  /\ pc \in [Tasks -> {"idle", "generic", "loop", "record", "recording", "mapped"}]
  /\ count \in [Tasks -> Nat]
  /\ \A t \in Tasks : TaskRight(t)

(* Task t has not moved.                                                   *)
Same(t) == UNCHANGED <<vma[t], pc[t], count[t], pte[t]>>

LEMMA SameRight ==
  ASSUME NEW t \in Tasks, TaskRight(t), Same(t)
  PROVE  TaskRight(t)'
BY DEF TaskRight, Same, ThisPage, PageOf, XipNodeFrame, IsRequest, NumPages, PAGE_ALIGN,
       ArrayIndex, NodeIndex, AXFS_GET_XIP_REGION_PHYSADDR, Wild, Frame

LEMMA TasksInit == Init => TasksRight
  BY DEF Init, TasksRight, TaskRight

(* A step of task t leaves the others alone.                               *)
LEMMA OthersSame ==
  ASSUME TasksRight, NEW t \in Tasks, Step(t) \/ User(t), NEW u \in Tasks, u # t
  PROVE  Same(u)
BY DEF TasksRight, Same, Step, SkipNode, InsertPfn, InsertPfnFails, Unmap, LogFull,
       NotRecorded, NextPage, RecordBegin, RecordEnd, MmapDone, User, MmapGeneric,
       MmapShared, Mmap, Call, Fault, Reclaim, Interrupted, Mprotect, Munmap, vars,
       mapVars

LEMMA StepTypes ==
  ASSUME TasksRight, NEW t \in Tasks, Step(t) \/ User(t)
  PROVE  /\ DOMAIN vma' = Tasks /\ DOMAIN pte' = Tasks
         /\ pc' \in [Tasks -> {"idle", "generic", "loop", "record", "recording", "mapped"}]
         /\ count' \in [Tasks -> Nat]
BY DEF TasksRight, Step, SkipNode, InsertPfn, InsertPfnFails, Unmap, LogFull,
       NotRecorded, NextPage, RecordBegin, RecordEnd, MmapDone, User, MmapGeneric,
       MmapShared, Mmap, Call, Fault, Reclaim, Interrupted, Mprotect, Munmap, vars,
       mapVars

LEMMA TasksNext == TasksRight /\ [Next]_vars => TasksRight'
<1> SUFFICES ASSUME TasksRight, [Next]_vars PROVE TasksRight'
  OBVIOUS
<1>1. ASSUME NEW t \in Tasks, Step(t) \/ User(t)
      PROVE  TasksRight'
  <2>t. /\ DOMAIN vma = Tasks /\ DOMAIN pte = Tasks
        /\ pc \in [Tasks -> {"idle", "generic", "loop", "record", "recording", "mapped"}]
        /\ count \in [Tasks -> Nat] /\ TaskRight(t)
    BY DEF TasksRight
  <2>1. SUFFICES TaskRight(t)'
    BY <1>1, <2>1, OthersSame, SameRight, StepTypes DEF TasksRight
  <2>n. ASSUME pc[t] # "idle"
        PROVE  /\ IsRequest(vma[t]) /\ DOMAIN pte[t] = 0 .. vma[t].pages - 1
               /\ NumPages(vma[t]) \in Nat /\ NumPages(vma[t]) <= vma[t].pages
               /\ vma[t].pages \in Nat /\ count[t] \in Nat
    <3>1. IsRequest(vma[t]) /\ DOMAIN pte[t] = 0 .. vma[t].pages - 1
      BY <2>t, <2>n DEF TaskRight
    <3>2. vma[t].pages \in Nat
      BY <3>1 DEF IsRequest
    <3>3. 0 \in Nat
      OBVIOUS
    <3> QED
      BY <2>t, <3>1, <3>2, <3>3, NumPagesIs
  <2>c. ASSUME NEW q \in Requests[t], NEW next \in {"generic", "loop"}, Call(t, q, next)
        PROVE  TaskRight(t)'
    <3>1. /\ vma'[t] = q /\ pc'[t] = next /\ count'[t] = 0
          /\ DOMAIN pte'[t] = 0 .. q.pages - 1
      BY <2>t, <2>c DEF Call, TaskRight
    <3>2. IsRequest(q) /\ NumPages(q) \in Nat
      <4>1. IsRequest(q) /\ 0 \in Nat
        BY MmapAssumption
      <4> QED
        BY <4>1, NumPagesIs
    <3>3. NumPages(vma[t])' = NumPages(q)
      BY <3>1 DEF NumPages, PAGE_ALIGN
    <3> QED
      BY <3>1, <3>2, <3>3 DEF TaskRight, IsRequest
  <2>u. ASSUME Unmap(t)
        PROVE  TaskRight(t)'
    BY <2>t, <2>u DEF Unmap, TaskRight
  <2>p. ASSUME NextPage(t), pc[t] \in {"record", "recording"}
        PROVE  TaskRight(t)'
    <3>1. /\ vma'[t] = vma[t] /\ pc'[t] = "loop" /\ count'[t] = count[t] + 1
          /\ pte'[t] = pte[t]
      BY <2>t, <2>p DEF NextPage
    <3>2. count[t] < NumPages(vma[t]) /\ pc[t] # "idle"
      BY <2>t, <2>p DEF TaskRight
    <3>3. NumPages(vma[t])' = NumPages(vma[t])
      BY <3>1 DEF NumPages, PAGE_ALIGN
    <3>4. count[t] + 1 <= NumPages(vma[t])
      BY <2>n, <3>2
    <3> QED
      BY <2>n, <3>1, <3>2, <3>3, <3>4 DEF TaskRight, IsRequest
  <2>2. CASE SkipNode(t)
    <3>1. /\ vma'[t] = vma[t] /\ pc'[t] = "loop" /\ count'[t] = count[t] + 1
          /\ pte'[t] = pte[t] /\ pc[t] = "loop" /\ count[t] < NumPages(vma[t])
      BY <2>t, <2>2 DEF SkipNode, AtOther
    <3>3. NumPages(vma[t])' = NumPages(vma[t])
      BY <3>1 DEF NumPages, PAGE_ALIGN
    <3>4. count[t] + 1 <= NumPages(vma[t])
      BY <2>n, <3>1
    <3> QED
      BY <2>n, <3>1, <3>3, <3>4 DEF TaskRight, IsRequest
  <2>3. CASE InsertPfn(t)
    <3>1. /\ vma'[t] = vma[t] /\ pc'[t] = "record" /\ count'[t] = count[t]
          /\ pte'[t] = [pte[t] EXCEPT ![count[t]] = XipNodeFrame(ThisPage(t))]
          /\ pc[t] = "loop" /\ count[t] < NumPages(vma[t])
      BY <2>t, <2>3 DEF InsertPfn, AtXip
    <3>2. count[t] \in DOMAIN pte[t]
      BY <2>n, <3>1
    <3>3. NumPages(vma[t])' = NumPages(vma[t])
      BY <3>1 DEF NumPages, PAGE_ALIGN
    <3>4. XipNodeFrame(ThisPage(t))' = XipNodeFrame(ThisPage(t))
      BY <3>1 DEF ThisPage, PageOf, XipNodeFrame, ArrayIndex, NodeIndex,
           AXFS_GET_XIP_REGION_PHYSADDR, Wild, Frame
    <3>5. pte'[t][count'[t]] = XipNodeFrame(ThisPage(t))'
      BY <3>1, <3>2, <3>4
    <3> QED
      BY <2>n, <3>1, <3>3, <3>5 DEF TaskRight, IsRequest
  <2>4. CASE InsertPfnFails(t) \/ Munmap(t)
    BY <2>u, <2>4 DEF InsertPfnFails, Munmap
  <2>5. CASE LogFull(t) \/ Interrupted(t)
    BY <2>p, <2>5 DEF LogFull, Interrupted, NotRecorded
  <2>6. CASE RecordBegin(t)
    <3>1. /\ vma'[t] = vma[t] /\ pc'[t] = "recording" /\ count'[t] = count[t]
          /\ pte'[t] = pte[t] /\ pc[t] = "record"
      BY <2>t, <2>6 DEF RecordBegin
    <3>2. NumPages(vma[t])' = NumPages(vma[t])
      BY <3>1 DEF NumPages, PAGE_ALIGN
    <3>3. XipNodeFrame(ThisPage(t))' = XipNodeFrame(ThisPage(t))
      BY <3>1 DEF ThisPage, PageOf, XipNodeFrame, ArrayIndex, NodeIndex,
           AXFS_GET_XIP_REGION_PHYSADDR, Wild, Frame
    <3> QED
      BY <2>t, <2>n, <3>1, <3>2, <3>3 DEF TaskRight, IsRequest
  <2>7. CASE RecordEnd(t)
    BY <2>p, <2>7 DEF RecordEnd
  <2>8. CASE MmapDone(t)
    <3>1. /\ vma'[t] = vma[t] /\ pc'[t] = "mapped" /\ count'[t] = 0
          /\ pte'[t] = pte[t] /\ pc[t] = "loop"
      BY <2>t, <2>8 DEF MmapDone
    <3> QED
      BY <2>n, <3>1 DEF TaskRight, IsRequest
  <2>9. CASE \E q \in Requests[t] : MmapGeneric(t, q) \/ Mmap(t, q)
    BY <2>c, <2>9 DEF MmapGeneric, Mmap
  <2>10. CASE \E q \in Requests[t] : MmapShared(t, q)
    BY <2>t, <2>10, SameRight DEF MmapShared, vars, mapVars, Same
  <2>11. CASE \E i \in DOMAIN pte[t] : Fault(t, i) \/ Reclaim(t, i)
    <3>1. /\ vma'[t] = vma[t] /\ pc'[t] = "mapped" /\ count'[t] = count[t]
          /\ DOMAIN pte'[t] = DOMAIN pte[t] /\ pc[t] = "mapped"
      BY <2>t, <2>11 DEF Fault, Reclaim
    <3> QED
      BY <2>t, <2>n, <3>1 DEF TaskRight, IsRequest
  <2>12. CASE Mprotect(t)
    <3>1. /\ vma'[t] = [vma[t] EXCEPT !.write = TRUE] /\ pc'[t] = "mapped"
          /\ count'[t] = count[t] /\ pte'[t] = pte[t] /\ pc[t] = "mapped"
      BY <2>t, <2>12 DEF Mprotect
    <3>2. IsRequest(vma[t])' /\ vma'[t].pages = vma[t].pages
      BY <2>n, <3>1 DEF IsRequest
    <3> QED
      BY <2>t, <2>n, <3>1, <3>2 DEF TaskRight
  <2> QED
    BY <1>1, <2>2, <2>3, <2>4, <2>5, <2>6, <2>7, <2>8, <2>9, <2>10, <2>11, <2>12
    DEF Step, User
<1>2. CASE Proc \/ UNCHANGED vars
  <2>1. UNCHANGED <<vma, pc, count, pte>>
    BY <1>2 DEF Proc, vars, mapVars
  <2> QED
    BY <2>1, SameRight DEF Same, TasksRight
<1> QED
  BY <1>1, <1>2 DEF Next

LEMMA TasksInvariant == Spec => []TasksRight
  BY TasksInit, TasksNext, PTL DEF Spec

-----------------------------------------------------------------------------
(* The log.                                                                *)

(* The semaphore is held by the one task that is writing a record.         *)
SemRight ==
  /\ record_index_sem \in Tasks \cup {NoTask}
  /\ \A t \in Tasks : pc[t] = "recording" <=> record_index_sem = t

(* That record is the one behind the last, and its addresses are written.  *)
HalfRight ==
  record_index_sem # NoTask =>
    /\ record_index < RECORDS
    /\ axfs_xip_records[record_index].addr = Entry(record_index_sem)

(* Every other record is whole, also one that was cleared.                 *)
OthersWhole ==
  \A i \in Slots :
    record_index_sem = NoTask \/ i # record_index =>
      axfs_xip_records[i].addr = axfs_xip_records[i].name

LogTypes ==
  /\ record_index \in 0 .. RECORDS
  /\ log \in Seq(Entries) /\ record_index = Len(log)
  /\ DOMAIN axfs_xip_records = Slots
  /\ \A i \in Slots : axfs_xip_records[i] =
       [addr |-> axfs_xip_records[i].addr, name |-> axfs_xip_records[i].name]

LogRight == LogTypes /\ SemRight /\ HalfRight /\ OthersWhole /\ LogWhole

(* Record i has been written at some time.                                 *)
Written(i) == i \in Slots /\ axfs_xip_records[i].addr \in Entries

-----------------------------------------------------------------------------
LEMMA LogInit == Init => LogRight
<1> SUFFICES ASSUME Init PROVE LogRight
  OBVIOUS
<1>1. RECORDS \in Nat \ {0} /\ NoTask \notin Tasks
  BY RecordAssumption, MmapAssumption
<1>2. /\ record_index_sem = NoTask /\ record_index = 0 /\ log = <<>>
      /\ axfs_xip_records = [i \in Slots |-> Whole(NoEntry)]
  BY DEF Init, RecordInit
<1>3. LogTypes
  BY <1>1, <1>2 DEF LogTypes, Whole
<1>4. SemRight
  BY <1>1, <1>2 DEF SemRight, Init
<1>5. HalfRight /\ OthersWhole /\ LogWhole
  BY <1>2 DEF HalfRight, OthersWhole, LogWhole, Whole
<1> QED
  BY <1>3, <1>4, <1>5 DEF LogRight

LEMMA FramesAre ==
  ASSUME NEW m \in Mounts, NEW n \in Nat
  PROVE  Frame(m, n) \in Frames /\ Wild(m) \in Frames
<1>1. <<"pfn", m, n>> \in {"pfn"} \X Mounts \X Nat
  OBVIOUS
<1>2. <<"any pfn", m>> \in {"any pfn"} \X Mounts
  OBVIOUS
<1> QED
  BY <1>1, <1>2 DEF Frame, Wild, Frames

(* What is recorded is an entry.                                           *)
LEMMA EntryIs ==
  ASSUME TasksRight, NEW t \in Tasks, pc[t] \in {"record", "recording"}
  PROVE  Entry(t) \in Entries
<1>1. /\ IsRequest(vma[t]) /\ count[t] \in Nat
      /\ pte[t][count[t]] = XipNodeFrame(ThisPage(t))
  BY DEF TasksRight, TaskRight
<1>2. XipNodeFrame(ThisPage(t)) \in Frames
  <2> DEFINE r == ThisPage(t)
  <2>1. r.m \in Mounts /\ r.ino \in DOMAIN sbi[r.m].inode_file_size
    BY <1>1 DEF IsRequest, ThisPage, PageOf
  <2> SUFFICES XipNodeFrame(r) \in Frames
    OBVIOUS
  <2> HIDE DEF r
  <2>2. CASE ArrayIndex(r) \notin DOMAIN sbi[r.m].node_index
    <3>1. 0 \in Nat /\ XipNodeFrame(r) = Wild(r.m)
      BY <2>2 DEF XipNodeFrame
    <3> QED
      BY <2>1, <3>1, FramesAre
  <2>3. CASE ArrayIndex(r) \in DOMAIN sbi[r.m].node_index
    <3>1. NodeIndex(r) \in Nat
      BY <2>1, <2>3, ImageAssumption DEF NodeIndex, TablesOK
    <3>2. phys_start_addr[r.m] \in Nat /\ xip_fsoffset[r.m] \in Nat
          /\ PAGE_CACHE_SIZE \in Nat \ {0}
      BY <2>1, MmapAssumption, ImageAssumption
    <3> DEFINE n == AXFS_GET_XIP_REGION_PHYSADDR(r.m) + NodeIndex(r) * PAGE_CACHE_SIZE
    <3>3. n \in Nat
      BY <3>1, <3>2 DEF AXFS_GET_XIP_REGION_PHYSADDR
    <3> HIDE DEF n
    <3>4. n \div PAGE_CACHE_SIZE \in Nat
      BY <3>2, <3>3, DivMod
    <3>5. XipNodeFrame(r) = Frame(r.m, n \div PAGE_CACHE_SIZE)
      BY <2>3 DEF XipNodeFrame, n
    <3> HIDE DEF n
    <3> QED
      BY <2>1, <3>4, <3>5, FramesAre
  <2> QED
    BY <2>2, <2>3
<1>3. vma[t].ino \in Nat
  BY <1>1 DEF IsRequest
<1> QED
  BY <1>1, <1>2, <1>3 DEF Entry, Entries

(* Of what is recorded, nothing changes while it is being recorded.        *)
LEMMA EntrySame ==
  ASSUME NEW t \in Tasks, Same(t)
  PROVE  Entry(t)' = Entry(t)
BY DEF Same, Entry

LEMMA BeginLog ==
  ASSUME TasksRight, LogRight, NEW t \in Tasks, RecordBegin(t)
  PROVE  /\ LogRight'
         /\ \A i \in Slots : Written(i) => Written(i)'
<1> USE DEF LogRight
<1>1. /\ pc[t] = "record" /\ record_index_sem = NoTask /\ record_index < RECORDS
      /\ record_index_sem' = t /\ record_index' = record_index /\ log' = log
      /\ axfs_xip_records' = [axfs_xip_records EXCEPT ![record_index].addr = Entry(t)]
      /\ pc' = [pc EXCEPT ![t] = "recording"]
      /\ Entry(t)' = Entry(t)
  BY DEF RecordBegin, RecordAddresses, Entry
<1>2. record_index \in Slots /\ t # NoTask /\ record_index \in Nat
  BY <1>1, MmapAssumption, RecordAssumption DEF LogTypes, Slots
<1>3. Entry(t) \in Entries
  BY <1>1, EntryIs
<1>4. /\ DOMAIN axfs_xip_records' = Slots
      /\ axfs_xip_records'[record_index] =
           [addr |-> Entry(t), name |-> axfs_xip_records[record_index].name]
      /\ \A i \in Slots \ {record_index} : axfs_xip_records'[i] = axfs_xip_records[i]
  BY <1>1, <1>2 DEF LogTypes
<1> HIDE DEF LogRight
<1>t. LogTypes /\ SemRight /\ OthersWhole /\ LogWhole
  BY DEF LogRight
<1>5. LogTypes'
  BY <1>1, <1>2, <1>4, <1>t DEF LogTypes
<1>6. SemRight'
  <2>1. \A u \in Tasks : pc[u] # "recording"
    BY <1>1, <1>t, MmapAssumption DEF SemRight
  <2>2. \A u \in Tasks : pc'[u] = IF u = t THEN "recording" ELSE pc[u]
    BY <1>1 DEF TasksRight
  <2> QED
    BY <1>1, <2>1, <2>2 DEF SemRight
<1>7. HalfRight'
  BY <1>1, <1>2, <1>4 DEF HalfRight
<1>8. OthersWhole'
  BY <1>1, <1>2, <1>4, <1>t DEF OthersWhole
<1>9. LogWhole'
  <2>1. \A i \in 0 .. record_index - 1 : i \in Slots \ {record_index}
    BY <1>2, <1>1, RecordAssumption DEF Slots
  <2> QED
    BY <1>1, <1>4, <1>t, <2>1 DEF LogWhole
<1>10. ASSUME NEW i \in Slots, Written(i)
       PROVE  Written(i)'
  BY <1>3, <1>4, <1>10 DEF Written
<1> QED
  BY <1>5, <1>6, <1>7, <1>8, <1>9, <1>10 DEF LogRight

LEMMA EndLog ==
  ASSUME TasksRight, LogRight, NEW t \in Tasks, RecordEnd(t)
  PROVE  /\ LogRight'
         /\ \A i \in Slots : Written(i) => Written(i)'
<1>t. LogTypes /\ SemRight /\ HalfRight /\ OthersWhole /\ LogWhole
  BY DEF LogRight
<1>1. /\ pc[t] = "recording" /\ record_index_sem' = NoTask
      /\ record_index' = record_index + 1 /\ log' = Append(log, Entry(t))
      /\ axfs_xip_records' = [axfs_xip_records EXCEPT ![record_index].name = Entry(t)]
      /\ pc' = [pc EXCEPT ![t] = "loop"]
  BY DEF RecordEnd, RecordName, NextPage
<1>2. record_index_sem = t /\ t # NoTask
  BY <1>1, <1>t, MmapAssumption DEF SemRight
<1>3. /\ record_index < RECORDS /\ record_index \in Nat /\ RECORDS \in Nat
      /\ record_index \in Slots
      /\ axfs_xip_records[record_index].addr = Entry(t)
  BY <1>2, <1>t, RecordAssumption DEF HalfRight, LogTypes, Slots
<1>4. /\ DOMAIN axfs_xip_records' = Slots
      /\ axfs_xip_records'[record_index] = Whole(Entry(t))
      /\ \A i \in Slots \ {record_index} : axfs_xip_records'[i] = axfs_xip_records[i]
  BY <1>1, <1>3, <1>t DEF LogTypes, Whole
<1>5. Entry(t) \in Entries
  BY <1>1, EntryIs
<1>6. /\ log' \in Seq(Entries) /\ Len(log') = record_index + 1
      /\ \A i \in 1 .. record_index : log'[i] = log[i]
      /\ log'[record_index + 1] = Entry(t)
  BY <1>1, <1>5, <1>t DEF LogTypes
<1>7. LogTypes'
  <2>1. \A i \in Slots : axfs_xip_records'[i] =
          [addr |-> axfs_xip_records'[i].addr, name |-> axfs_xip_records'[i].name]
    BY <1>4, <1>t DEF LogTypes, Whole
  <2>2. record_index' \in 0 .. RECORDS
    BY <1>1, <1>3
  <2> QED
    BY <1>1, <1>4, <1>6, <2>1, <2>2 DEF LogTypes
<1>8. SemRight'
  BY <1>1, <1>2, <1>t, MmapAssumption DEF SemRight, TasksRight
<1>9. HalfRight'
  BY <1>1 DEF HalfRight
<1>10. OthersWhole'
  BY <1>2, <1>4, <1>t DEF OthersWhole, Whole
<1>11. LogWhole'
  <2>1. ASSUME NEW i \in 0 .. record_index
        PROVE  axfs_xip_records'[i] = Whole(log'[i + 1])
    <3>1. CASE i = record_index
      BY <1>4, <1>6, <3>1
    <3>2. CASE i # record_index
      <4>1. i \in 0 .. record_index - 1 /\ i \in Slots \ {record_index}
            /\ i + 1 \in 1 .. record_index
        BY <1>3, <3>2 DEF Slots
      <4> QED
        BY <1>4, <1>6, <1>t, <4>1 DEF LogWhole
    <3> QED
      BY <3>1, <3>2
  <2>2. record_index' = Len(log') /\ 0 .. record_index' - 1 = 0 .. record_index
    BY <1>1, <1>3, <1>6
  <2> QED
    BY <2>1, <2>2 DEF LogWhole
<1>12. ASSUME NEW i \in Slots, Written(i)
       PROVE  Written(i)'
  BY <1>4, <1>5, <1>12 DEF Written, Whole
<1> QED
  BY <1>7, <1>8, <1>9, <1>10, <1>11, <1>12 DEF LogRight

LEMMA ClearLog ==
  ASSUME LogRight, Clear, Proc
  PROVE  /\ LogRight'
         /\ \A i \in Slots : Written(i) => Written(i)'
<1>1. /\ record_index_sem = NoTask /\ record_index' = 0 /\ log' = <<>>
      /\ UNCHANGED <<record_index_sem, axfs_xip_records, pc>>
  BY DEF Clear, Proc
<1>2. RECORDS \in Nat \ {0}
  BY RecordAssumption
<1>3. LogTypes' /\ SemRight' /\ HalfRight' /\ OthersWhole' /\ LogWhole'
  BY <1>1, <1>2 DEF LogRight, LogTypes, SemRight, HalfRight, OthersWhole, LogWhole
<1> QED
  BY <1>1, <1>3 DEF LogRight, Written

(* All the other steps leave the log as it is.                             *)
LEMMA LogAlone ==
  ASSUME [Next]_vars, \A t \in Tasks : ~RecordBegin(t) /\ ~RecordEnd(t), ~(Proc /\ Clear)
  PROVE  UNCHANGED recordVars
BY DEF Next, Proc, ProcNext, Reopen, LookIndex, ReadInterrupted, PrintEnd, PrintTooLong,
       PrintLine, ReadBegin, Step, SkipNode, InsertPfn, InsertPfnFails, Unmap, LogFull,
       RecordFull, NotRecorded, MmapDone, User, MmapGeneric, MmapShared, Mmap, Call,
       Fault, Reclaim, Interrupted, RecordInterrupted, Mprotect, Munmap, vars, mapVars

(* A task that is writing a record does nothing else.                      *)
LEMMA HolderSame ==
  ASSUME TasksRight, [Next]_vars, NEW u \in Tasks, ~RecordBegin(u), ~RecordEnd(u)
  PROVE  /\ pc'[u] = "recording" <=> pc[u] = "recording"
         /\ pc[u] = "recording" => Same(u)
<1>1. CASE Same(u)
  BY <1>1 DEF Same
<1>2. CASE Proc \/ UNCHANGED vars
  BY <1>1, <1>2 DEF Proc, vars, mapVars, Same
<1>3. CASE \E t \in Tasks \ {u} : Step(t) \/ User(t)
  BY <1>1, <1>3, OthersSame
<1>4. CASE Step(u) \/ User(u)
  <2>1. CASE \E q \in Requests[u] : MmapShared(u, q)
    BY <1>1, <2>1 DEF MmapShared, vars, mapVars, Same
  <2>2. CASE ~\E q \in Requests[u] : MmapShared(u, q)
    <3>1. pc[u] # "recording"
      BY <1>4, <2>2
      DEF Step, SkipNode, AtOther, InsertPfn, AtXip, InsertPfnFails, LogFull,
          NotRecorded, MmapDone, User, MmapGeneric, Mmap, Call, Fault, Reclaim,
          Interrupted, Mprotect, Munmap
    <3>2. pc'[u] # "recording"
      BY <1>4, <2>2, <3>1
      DEF TasksRight, Step, SkipNode, AtOther, InsertPfn, AtXip, InsertPfnFails, Unmap,
          LogFull, NotRecorded, NextPage, MmapDone, User, MmapGeneric, Mmap, Call,
          Fault, Reclaim, Interrupted, Mprotect, Munmap
    <3> QED
      BY <3>1, <3>2
  <2> QED
    BY <2>1, <2>2
<1> QED
  BY <1>2, <1>3, <1>4 DEF Next

LEMMA LogNext ==
  ASSUME TasksRight, LogRight, [Next]_vars
  PROVE  /\ LogRight'
         /\ \A i \in Slots : Written(i) => Written(i)'
<1>1. CASE \E t \in Tasks : RecordBegin(t)
  BY <1>1, BeginLog
<1>2. CASE \E t \in Tasks : RecordEnd(t)
  BY <1>2, EndLog
<1>3. CASE Proc /\ Clear
  BY <1>3, ClearLog
<1>4. CASE UNCHANGED recordVars /\ \A t \in Tasks : ~RecordBegin(t) /\ ~RecordEnd(t)
  <2>1. UNCHANGED <<record_index_sem, axfs_xip_records, record_index, log>>
    BY <1>4 DEF recordVars
  <2>2. \A t \in Tasks :
          /\ pc'[t] = "recording" <=> pc[t] = "recording"
          /\ pc[t] = "recording" => Entry(t)' = Entry(t)
    BY <1>4, HolderSame, EntrySame
  <2>t. LogTypes /\ SemRight /\ HalfRight /\ OthersWhole /\ LogWhole
    BY DEF LogRight
  <2>3. SemRight'
    BY <2>1, <2>2, <2>t DEF SemRight
  <2>4. HalfRight'
    <3>1. record_index_sem # NoTask =>
            record_index_sem \in Tasks /\ pc[record_index_sem] = "recording"
      BY <2>t DEF SemRight
    <3>2. record_index_sem # NoTask => Entry(record_index_sem)' = Entry(record_index_sem)
      BY <2>1, <2>2, <3>1
    <3> QED
      BY <2>1, <2>t, <3>2 DEF HalfRight
  <2>5. LogTypes' /\ OthersWhole' /\ LogWhole'
    BY <2>1, <2>t DEF LogTypes, OthersWhole, LogWhole
  <2>6. \A i \in Slots : Written(i) => Written(i)'
    BY <2>1 DEF Written
  <2> QED
    BY <2>3, <2>4, <2>5, <2>6 DEF LogRight
<1> QED
  BY <1>1, <1>2, <1>3, <1>4, LogAlone

LEMMA LogInvariant == Spec => [](TasksRight /\ LogRight)
  BY LogInit, LogNext, TasksInvariant, PTL DEF Spec

-----------------------------------------------------------------------------
(* The readers of the log.                                                 *)

Line == [addr : Entries, name : Entries]

ReaderStates ==
  [pc : {"idle", "look", "down"}, off : Nat, room : Nat, got : Nat, index : Nat,
   lines : Seq(Line), due : Nat, intact : BOOLEAN, eof : BOOLEAN]

(* Of a log that is not cleared, s has printed the first records; the      *)
(* index it goes by counts the records that were there when it began.      *)
InOrder(s) ==
  /\ s.index <= Len(log) /\ s.due <= Len(log) /\ s.off <= Len(log)
  /\ s.pc = "down" => s.due <= s.index
  /\ s.lines = [i \in 1 .. s.off |-> Whole(log[i])]

(* What a reader may print has been written, though perhaps cleared since. *)
ReaderRight(s) ==
  /\ s \in ReaderStates
  /\ \A i \in 0 .. s.index - 1 : Written(i)
  /\ \A i \in DOMAIN s.lines : s.lines[i].addr = s.lines[i].name
  /\ s.pc # "idle" /\ s.got = 0 => s.room \in ReadSizes
  /\ s.intact => InOrder(s)

ReadersRight ==
  /\ DOMAIN reader = Readers /\ is_first_line \in BOOLEAN
  /\ \A r \in Readers : ReaderRight(reader[r])

-----------------------------------------------------------------------------
(* The states that a reader's steps lead to.                               *)

LEMMA NewRight == ASSUME LogTypes PROVE ReaderRight(NewReader)
<1>1. NewReader \in ReaderStates
  <2>1. <<>> \in Seq(Line)
    OBVIOUS
  <2> QED
    BY <2>1 DEF NewReader, ReaderStates
<1>2. InOrder(NewReader)
  <2>1. Len(log) \in Nat
    BY DEF LogTypes
  <2>2. 1 .. 0 = {}
    OBVIOUS
  <2>3. <<>> = [i \in 1 .. 0 |-> Whole(log[i])]
    BY <2>2
  <2> QED
    BY <2>1, <2>3 DEF InOrder, NewReader
<1>3. 0 .. NewReader.index - 1 = {} /\ DOMAIN NewReader.lines = {} /\ NewReader.pc = "idle"
  BY DEF NewReader
<1> QED
  BY <1>1, <1>2, <1>3 DEF ReaderRight

LEMMA BeginRight ==
  ASSUME LogTypes, NEW s, ReaderRight(s), NEW n \in ReadSizes
  PROVE  ReaderRight([s EXCEPT !.pc = "look", !.room = n, !.got = 0, !.due = Len(log)])
<1> DEFINE u == [s EXCEPT !.pc = "look", !.room = n, !.got = 0, !.due = Len(log)]
<1>1. n \in Nat /\ Len(log) \in Nat /\ s \in ReaderStates
  BY RecordAssumption DEF LogTypes, ReaderRight
<1>2. /\ u \in ReaderStates
      /\ u.pc = "look" /\ u.room = n /\ u.got = 0 /\ u.due = Len(log)
      /\ u.off = s.off /\ u.index = s.index /\ u.lines = s.lines
  BY <1>1 DEF ReaderStates
<1>3. u.intact => s.intact
  BY <1>1 DEF ReaderStates
<1> HIDE DEF u
<1>4. u.intact => InOrder(u)
  <2> SUFFICES ASSUME InOrder(s) PROVE InOrder(u)
    BY <1>3 DEF ReaderRight
  <2> QED
    BY <1>1, <1>2 DEF InOrder
<1>5. ReaderRight(u)
  BY <1>2, <1>4 DEF ReaderRight
<1> QED
  BY <1>5 DEF u

LEMMA LookRight ==
  ASSUME LogRight, NEW s, ReaderRight(s)
  PROVE  s.pc = "look" =>
           ReaderRight([s EXCEPT !.pc = "down", !.index = record_index])
<1> SUFFICES ASSUME s.pc = "look"
             PROVE  ReaderRight([s EXCEPT !.pc = "down", !.index = record_index])
  OBVIOUS
<1> DEFINE u == [s EXCEPT !.pc = "down", !.index = record_index]
<1>1. /\ record_index \in Nat /\ record_index = Len(log) /\ s \in ReaderStates
      /\ log \in Seq(Entries) /\ record_index <= RECORDS
  BY RecordAssumption DEF LogRight, LogTypes, ReaderRight
<1>2. /\ u \in ReaderStates
      /\ u.pc = "down" /\ u.index = record_index
      /\ u.room = s.room /\ u.got = s.got /\ u.due = s.due
      /\ u.off = s.off /\ u.lines = s.lines
  BY <1>1 DEF ReaderStates
<1>3. u.intact => s.intact
  BY <1>1 DEF ReaderStates
<1> HIDE DEF u
<1>4. u.intact => InOrder(u)
  <2> SUFFICES ASSUME InOrder(s) PROVE InOrder(u)
    BY <1>3 DEF ReaderRight
  <2> QED
    BY <1>1, <1>2 DEF InOrder
<1>5. ASSUME NEW i \in 0 .. u.index - 1
      PROVE  Written(i)
  <2>1. i \in Slots /\ i + 1 \in 1 .. Len(log) /\ i \in 0 .. record_index - 1
    BY <1>1, <1>2, RecordAssumption DEF Slots
  <2>2. axfs_xip_records[i] = Whole(log[i + 1]) /\ log[i + 1] \in Entries
    BY <1>1, <2>1 DEF LogRight, LogWhole
  <2> QED
    BY <2>1, <2>2 DEF Written, Whole
<1>6. ReaderRight(u)
  BY <1>2, <1>4, <1>5 DEF ReaderRight
<1> QED
  BY <1>6 DEF u

LEMMA EndRight ==
  ASSUME LogTypes, NEW s, ReaderRight(s)
  PROVE  ReaderRight(Ended(s))
<1> DEFINE u == Ended(s)
<1>1. Len(log) \in Nat /\ s \in ReaderStates
  BY DEF LogTypes, ReaderRight
<1>2. /\ u \in ReaderStates
      /\ u.pc = "idle" /\ u.index = 0 /\ u.due = s.due
      /\ u.off = s.off /\ u.lines = s.lines
  BY <1>1 DEF ReaderStates, Ended
<1>3. u.intact => s.intact
  BY <1>1 DEF ReaderStates, Ended
<1> HIDE DEF u
<1>4. u.intact => InOrder(u)
  <2> SUFFICES ASSUME InOrder(s) PROVE InOrder(u)
    BY <1>3 DEF ReaderRight
  <2> QED
    BY <1>1, <1>2 DEF InOrder
<1>5. 0 .. u.index - 1 = {}
  BY <1>2
<1>6. ReaderRight(u)
  BY <1>2, <1>4, <1>5 DEF ReaderRight
<1> QED
  BY <1>6 DEF u

LEMMA EofRight ==
  ASSUME LogTypes, NEW s, ReaderRight(s), NEW e \in BOOLEAN
  PROVE  ReaderRight([s EXCEPT !.eof = e])
<1> DEFINE u == [s EXCEPT !.eof = e]
<1>1. Len(log) \in Nat /\ s \in ReaderStates
  BY DEF LogTypes, ReaderRight
<1>2. /\ u \in ReaderStates
      /\ u.pc = s.pc /\ u.index = s.index /\ u.due = s.due /\ u.got = s.got
      /\ u.off = s.off /\ u.lines = s.lines /\ u.room = s.room
  BY <1>1 DEF ReaderStates
<1>3. u.intact => s.intact
  BY <1>1 DEF ReaderStates
<1> HIDE DEF u
<1>4. u.intact => InOrder(u)
  <2> SUFFICES ASSUME InOrder(s) PROVE InOrder(u)
    BY <1>3 DEF ReaderRight
  <2> QED
    BY <1>1, <1>2 DEF InOrder
<1>5. ReaderRight(u)
  BY <1>2, <1>4 DEF ReaderRight
<1> QED
  BY <1>5 DEF u

(* After a line of n lines' length.                                        *)
After(s, n, l) ==
  [s EXCEPT !.pc = "look", !.room = @ - n, !.got = @ + n, !.off = @ + 1,
            !.lines = Append(@, l)]

LEMMA LineRight ==
  ASSUME LogRight, record_index_sem = NoTask, NEW s, ReaderRight(s),
         s.off < s.index, NEW n \in {1, 2}, n <= s.room
  PROVE  ReaderRight(After(s, n, axfs_xip_records[s.off]))
<1> DEFINE l == axfs_xip_records[s.off]
           u == After(s, n, l)
<1>1. /\ Len(log) \in Nat /\ s \in ReaderStates /\ log \in Seq(Entries)
      /\ record_index = Len(log) /\ s.off \in Nat /\ s.index \in Nat
      /\ s.room \in Nat /\ s.got \in Nat /\ s.lines \in Seq(Line) /\ n \in Nat
      /\ s.room - n \in Nat /\ s.got + n \in Nat /\ s.off + 1 \in Nat
      /\ s.got + n # 0
  BY DEF LogRight, LogTypes, ReaderRight, ReaderStates
<1>2. l \in Line /\ l.addr = l.name
  <2>1. s.off \in 0 .. s.index - 1
    BY <1>1
  <2>2. Written(s.off)
    BY <2>1 DEF ReaderRight
  <2>3. s.off \in Slots /\ l.addr \in Entries
    BY <2>2 DEF Written
  <2>4. l.addr = l.name
    BY <2>3 DEF LogRight, OthersWhole
  <2>5. l = [addr |-> l.addr, name |-> l.name]
    BY <2>3 DEF LogRight, LogTypes
  <2> QED
    BY <2>3, <2>4, <2>5 DEF Line
<1> HIDE DEF l
<1>3. /\ Append(s.lines, l) \in Seq(Line)
      /\ DOMAIN Append(s.lines, l) = 1 .. Len(s.lines) + 1
      /\ Append(s.lines, l)[Len(s.lines) + 1] = l
      /\ \A i \in DOMAIN s.lines : Append(s.lines, l)[i] = s.lines[i]
      /\ DOMAIN s.lines = 1 .. Len(s.lines) /\ Len(s.lines) \in Nat
  <2> DEFINE q == s.lines
  <2>1. q \in Seq(Line)
    BY <1>1
  <2> SUFFICES
        /\ Append(q, l) \in Seq(Line)
        /\ DOMAIN Append(q, l) = 1 .. Len(q) + 1
        /\ Append(q, l)[Len(q) + 1] = l
        /\ \A i \in DOMAIN q : Append(q, l)[i] = q[i]
        /\ DOMAIN q = 1 .. Len(q) /\ Len(q) \in Nat
    OBVIOUS
  <2> HIDE DEF q
  <2> QED
    BY <1>2, <2>1
<1>4. /\ u \in ReaderStates
      /\ u.pc = "look" /\ u.index = s.index /\ u.due = s.due /\ u.got = s.got + n
      /\ u.off = s.off + 1 /\ u.lines = Append(s.lines, l)
  BY <1>1, <1>3 DEF ReaderStates, After
<1>5. u.intact => s.intact
  BY <1>1 DEF ReaderStates, After
<1> HIDE DEF u
<1>6. u.intact => InOrder(u)
  <2> SUFFICES ASSUME InOrder(s) PROVE InOrder(u)
    BY <1>5 DEF ReaderRight
  <2>1. /\ s.index <= Len(log) /\ s.due <= Len(log) /\ s.off <= Len(log)
        /\ s.lines = [i \in 1 .. s.off |-> Whole(log[i])]
    BY DEF InOrder
  <2>2. Len(s.lines) = s.off
    BY <1>1, <1>3, <2>1
  <2>3. l = Whole(log[s.off + 1])
    <3>1. s.off \in 0 .. record_index - 1
      BY <1>1, <2>1
    <3> QED
      BY <3>1 DEF LogRight, LogWhole, l
  <2> DEFINE f == [i \in 1 .. s.off + 1 |-> Whole(log[i])]
             g == Append(s.lines, l)
  <2>4. ASSUME NEW i \in 1 .. s.off + 1
        PROVE  g[i] = f[i]
    <3>1. CASE i = s.off + 1
      BY <1>3, <2>2, <2>3, <3>1
    <3>2. CASE i # s.off + 1
      <4>1. i \in 1 .. s.off
        BY <1>1, <3>2
      <4>2. g[i] = s.lines[i] /\ s.lines[i] = Whole(log[i]) /\ f[i] = Whole(log[i])
        BY <1>3, <2>1, <2>2, <4>1
      <4> QED
        BY <4>2
    <3> QED
      BY <3>1, <3>2
  <2>5. g \in Seq(Line) /\ DOMAIN g = 1 .. s.off + 1
    BY <1>3, <2>2
  <2>6. g = f
    <3> HIDE DEF g
    <3>1. g = [i \in DOMAIN g |-> g[i]]
      BY <2>5
    <3> QED
      BY <2>4, <2>5, <3>1
  <2>7. s.off + 1 <= Len(log)
    BY <1>1, <2>1
  <2> QED
    BY <1>1, <1>4, <2>1, <2>6, <2>7 DEF InOrder
<1>7. ASSUME NEW i \in DOMAIN u.lines
      PROVE  u.lines[i].addr = u.lines[i].name
  <2>1. CASE i = Len(s.lines) + 1
    BY <1>2, <1>3, <1>4, <2>1
  <2>2. CASE i # Len(s.lines) + 1
    <3>1. i \in DOMAIN s.lines
      BY <1>3, <1>4, <2>2
    <3> QED
      BY <1>3, <1>4, <3>1 DEF ReaderRight
  <2> QED
    BY <2>1, <2>2
<1>8. \A i \in 0 .. u.index - 1 : Written(i)
  BY <1>4 DEF ReaderRight
<1>9. ReaderRight(u)
  BY <1>1, <1>4, <1>6, <1>7, <1>8 DEF ReaderRight
<1> QED
  BY <1>9 DEF u, l

-----------------------------------------------------------------------------
LEMMA LiftRight ==
  ASSUME NEW r \in Readers, NEW s, reader'[r] = s, ReaderRight(s), UNCHANGED recordVars
  PROVE  ReaderRight(reader[r])'
BY DEF ReaderRight, InOrder, Written, recordVars, Whole

LEMMA GrowRight ==
  ASSUME NEW r \in Readers, reader'[r] = reader[r], ReaderRight(reader[r]),
         \A i \in Slots : Written(i) => Written(i)',
         Len(log) \in Nat, Len(log') \in Nat, Len(log) <= Len(log'),
         \A i \in 1 .. Len(log) : log'[i] = log[i]
  PROVE  ReaderRight(reader[r])'
<1> DEFINE s == reader[r]
<1>1. /\ s \in ReaderStates /\ s.due \in Nat /\ s.off \in Nat /\ s.index \in Nat
      /\ \A i \in 0 .. s.index - 1 : Written(i)
      /\ \A i \in DOMAIN s.lines : s.lines[i].addr = s.lines[i].name
      /\ s.pc # "idle" /\ s.got = 0 => s.room \in ReadSizes
      /\ s.intact => InOrder(s)
  BY DEF ReaderRight, ReaderStates
<1>2. \A i \in 0 .. s.index - 1 : Written(i)'
  BY <1>1 DEF Written
<1>3. InOrder(s) => InOrder(s)'
  <2> SUFFICES ASSUME InOrder(s) PROVE InOrder(s)'
    OBVIOUS
  <2> HIDE DEF s
  <2>1. /\ s.index <= Len(log) /\ s.due <= Len(log) /\ s.off <= Len(log)
        /\ s.pc = "down" => s.due <= s.index
        /\ s.lines = [i \in 1 .. s.off |-> Whole(log[i])]
    BY DEF InOrder
  <2>2. \A i \in 1 .. s.off : Whole(log'[i]) = Whole(log[i])
    BY <1>1, <2>1
  <2>3. s.index <= Len(log') /\ s.due <= Len(log') /\ s.off <= Len(log')
    BY <1>1, <2>1
  <2>4. s.lines = [i \in 1 .. s.off |-> Whole(log'[i])]
    BY <2>1, <2>2
  <2>5. s' = s
    BY DEF s
  <2> QED
    BY <2>1, <2>3, <2>4, <2>5 DEF InOrder, Whole
<1>4. reader'[r] = s
  OBVIOUS
<1>5. s' = s
  OBVIOUS
<1> HIDE DEF s
<1> QED
  BY <1>1, <1>2, <1>3, <1>4, <1>5 DEF ReaderRight, Written, s

(* One who has read nothing yet is not touched by a clear, and what others *)
(* have read is no longer the log.                                         *)
LEMMA ClearRight ==
  ASSUME ReadersRight, Clear, NEW r \in Readers
  PROVE  ReaderRight(reader[r])'
<1> DEFINE s == reader[r]
<1>10. PICK u : u = reader'[r]
  OBVIOUS
<1>1. /\ log' = <<>> /\ axfs_xip_records' = axfs_xip_records
      /\ reader' = [q \in Readers |->
           [reader[q] EXCEPT !.intact = (reader[q] = NewReader)]]
  BY DEF Clear
<1>2. u = [s EXCEPT !.intact = (s = NewReader)]
  BY <1>1, <1>10
<1>3. ReaderRight(s) /\ s \in ReaderStates
  BY DEF ReadersRight, ReaderRight
<1>4. \A i \in Slots : Written(i) => Written(i)'
  BY <1>1 DEF Written
<1> HIDE DEF s
<1>5. /\ u \in ReaderStates
      /\ u.pc = s.pc /\ u.off = s.off /\ u.room = s.room /\ u.got = s.got
      /\ u.index = s.index /\ u.lines = s.lines /\ u.due = s.due
  BY <1>2, <1>3 DEF ReaderStates
<1>6. u.intact => s = NewReader
  BY <1>2, <1>3 DEF ReaderStates
<1>7. s = NewReader =>
        /\ u.pc = "idle" /\ u.index = 0 /\ u.due = 0 /\ u.off = 0 /\ u.lines = <<>>
  BY <1>5 DEF NewReader
<1>8. u.intact => InOrder(u)'
  <2> SUFFICES ASSUME s = NewReader PROVE InOrder(u)'
    BY <1>6
  <2>2. 1 .. u.off = {} /\ Len(log') = 0
    BY <1>1, <1>7
  <2>3. u.lines = [i \in 1 .. u.off |-> Whole(log'[i])]
    BY <1>7, <2>2
  <2> QED
    BY <1>7, <2>2, <2>3 DEF InOrder, Whole
<1>9. \A i \in 0 .. u.index - 1 : Written(i)'
  BY <1>3, <1>4, <1>5 DEF ReaderRight, Written
<1> QED
  BY <1>3, <1>5, <1>8, <1>9, <1>10 DEF ReaderRight, InOrder, Whole

LEMMA ReadersInit == Init /\ LogRight => ReadersRight
<1> SUFFICES ASSUME Init, LogRight PROVE ReadersRight
  OBVIOUS
<1>1. ReaderRight(NewReader)
  BY NewRight DEF LogRight
<1> QED
  BY <1>1 DEF Init, RecordInit, ReadersRight

(* A step of reader r.                                                     *)
ReaderStep(r) ==
  \/ Reopen(r) \/ LookIndex(r) \/ ReadInterrupted(r)
  \/ PrintEnd(r) \/ PrintTooLong(r) \/ PrintLine(r)
  \/ \E n \in ReadSizes : ReadBegin(r, n)

LEMMA ReaderStepRight ==
  ASSUME LogRight, ReadersRight, NEW r \in Readers, ReaderStep(r)
  PROVE  ReaderRight(reader[r])'
<1>t. /\ DOMAIN reader = Readers /\ is_first_line \in BOOLEAN
      /\ ReaderRight(reader[r]) /\ LogTypes
      /\ reader[r] \in ReaderStates
  BY DEF ReadersRight, ReaderRight, LogRight
<1>u. UNCHANGED recordVars
  BY DEF ReaderStep, Reopen, LookIndex, ReadInterrupted, PrintEnd, PrintTooLong,
         PrintLine, ReadBegin
<1>1. CASE Reopen(r)
  <2>1. reader'[r] = NewReader
    BY <1>1, <1>t DEF Reopen
  <2> QED
    BY <1>t, <1>u, <2>1, NewRight, LiftRight
<1>2. CASE LookIndex(r)
  <2>1. /\ reader'[r] = [reader[r] EXCEPT !.pc = "down", !.index = record_index]
        /\ reader[r].pc = "look"
    BY <1>2, <1>t DEF LookIndex
  <2> QED
    BY <1>t, <1>u, <2>1, LookRight, LiftRight
<1>3. CASE ReadInterrupted(r)
  <2>1. reader'[r] = Ended(reader[r])
    BY <1>3, <1>t DEF ReadInterrupted
  <2> QED
    BY <1>t, <1>u, <2>1, EndRight, LiftRight
<1>4. CASE PrintEnd(r) \/ PrintTooLong(r)
  <2> DEFINE e == reader[r].got = 0
  <2>1. reader'[r] = [Ended(reader[r]) EXCEPT !.eof = e]
    BY <1>4, <1>t DEF PrintEnd, PrintTooLong, Stop
  <2>2. ReaderRight(Ended(reader[r])) /\ e \in BOOLEAN
    BY <1>t, EndRight
  <2> HIDE DEF e
  <2>3. ReaderRight([Ended(reader[r]) EXCEPT !.eof = e])
    BY <1>t, <2>2, EofRight
  <2> QED
    BY <1>u, <2>1, <2>3, LiftRight
<1>5. CASE PrintLine(r)
  <2> DEFINE w == After(reader[r], Lines, axfs_xip_records[reader[r].off])
  <2>1. /\ record_index_sem = NoTask /\ reader[r].off < reader[r].index
        /\ Lines <= reader[r].room /\ Printed(r, 1)
    BY <1>5 DEF PrintLine, Down
  <2>2. Lines \in {1, 2}
    BY DEF Lines
  <2>3. ReaderRight(w)
    BY <1>t, <2>1, <2>2, LineRight
  <2>4. ReaderRight(Ended(w))
    BY <1>t, <2>3, EndRight
  <2>5. reader'[r] = w \/ reader'[r] = Ended(w)
    BY <1>t, <2>1 DEF Printed, After
  <2> HIDE DEF w
  <2> QED
    BY <1>u, <2>3, <2>4, <2>5, LiftRight
<1>6. CASE \E n \in ReadSizes : ReadBegin(r, n)
  <2>1. PICK n \in ReadSizes : ReadBegin(r, n)
    BY <1>6
  <2>2. reader'[r] = [reader[r] EXCEPT !.pc = "look", !.room = n, !.got = 0,
                                       !.due = Len(log)]
    BY <1>t, <2>1 DEF ReadBegin
  <2> QED
    BY <1>t, <1>u, <2>2, BeginRight, LiftRight
<1> QED
  BY <1>1, <1>2, <1>3, <1>4, <1>5, <1>6 DEF ReaderStep

LEMMA OtherReaders ==
  ASSUME ReadersRight, NEW r \in Readers, ReaderStep(r)
  PROVE  /\ DOMAIN reader' = Readers /\ is_first_line' \in BOOLEAN
         /\ \A q \in Readers \ {r} : reader'[q] = reader[q]
BY DEF ReadersRight, ReaderStep, Reopen, LookIndex, ReadInterrupted, PrintEnd,
       PrintTooLong, PrintLine, ReadBegin, Stop, Printed

(* Unless the log is cleared it only grows.                                *)
LEMMA LogGrows ==
  ASSUME TasksRight, LogRight, [Next]_vars, ~(Proc /\ Clear)
  PROVE  /\ Len(log) \in Nat /\ Len(log') \in Nat /\ Len(log) <= Len(log')
         /\ \A i \in 1 .. Len(log) : log'[i] = log[i]
<1>1. log \in Seq(Entries)
  BY DEF LogRight, LogTypes
<1>2. CASE \E t \in Tasks : RecordEnd(t)
  <2>1. PICK t \in Tasks : RecordEnd(t)
    BY <1>2
  <2>2. log' = Append(log, Entry(t)) /\ pc[t] = "recording"
    BY <2>1 DEF RecordEnd, RecordName
  <2>3. Entry(t) \in Entries
    BY <2>2, EntryIs
  <2> QED
    BY <1>1, <2>2, <2>3
<1>3. CASE log' = log
  BY <1>1, <1>3
<1> QED
  BY <1>2, <1>3, LogAlone DEF RecordBegin, RecordAddresses, recordVars

LEMMA ReadersNext ==
  ASSUME TasksRight, LogRight, ReadersRight, [Next]_vars
  PROVE  ReadersRight'
<1>w. \A i \in Slots : Written(i) => Written(i)'
  BY LogNext
<1>1. CASE Proc /\ Clear
  <2>1. DOMAIN reader' = Readers /\ is_first_line' \in BOOLEAN
    BY <1>1 DEF Clear, ReadersRight
  <2>2. \A r \in Readers : ReaderRight(reader[r])'
    BY <1>1, ClearRight
  <2> QED
    BY <2>1, <2>2 DEF ReadersRight
<1>2. CASE ~(Proc /\ Clear) /\ \E r \in Readers : ReaderStep(r)
  <2>1. PICK r \in Readers : ReaderStep(r)
    BY <1>2
  <2>2. ReaderRight(reader[r])'
    BY <2>1, ReaderStepRight
  <2>3. ASSUME NEW q \in Readers \ {r}
        PROVE  ReaderRight(reader[q])'
    <3>1. reader'[q] = reader[q] /\ ReaderRight(reader[q])
      BY <2>1, OtherReaders DEF ReadersRight
    <3> QED
      BY <1>2, <1>w, <3>1, GrowRight, LogGrows
  <2> QED
    BY <2>1, <2>2, <2>3, OtherReaders DEF ReadersRight
<1>3. CASE ~(Proc /\ Clear) /\ UNCHANGED procVars
  <2>1. UNCHANGED <<reader, is_first_line>>
    BY <1>3 DEF procVars
  <2>2. ASSUME NEW q \in Readers
        PROVE  ReaderRight(reader[q])'
    <3>1. reader'[q] = reader[q] /\ ReaderRight(reader[q])
      BY <2>1 DEF ReadersRight
    <3> QED
      BY <1>3, <1>w, <3>1, GrowRight, LogGrows
  <2> QED
    BY <2>1, <2>2 DEF ReadersRight
<1>4. (\E t \in Tasks : Step(t) \/ User(t)) \/ UNCHANGED vars => UNCHANGED procVars
  BY DEF Step, SkipNode, InsertPfn, InsertPfnFails, Unmap, LogFull, NotRecorded,
         RecordBegin, RecordEnd, MmapDone, User, MmapGeneric, MmapShared, Mmap, Call,
         Fault, Reclaim, Interrupted, Mprotect, Munmap, vars
<1> QED
  BY <1>1, <1>2, <1>3, <1>4 DEF Next, Proc, ProcNext, ReaderStep

LEMMA ReadersInvariant == Spec => [](TasksRight /\ LogRight /\ ReadersRight)
  BY TasksInit, LogInit, ReadersInit, TasksNext, LogNext, ReadersNext, PTL DEF Spec

-----------------------------------------------------------------------------
(* Neither a record nor a printed line is made of two pages, whoever       *)
(* records, prints and clears at the same time.                            *)
THEOREM LinesHold == Spec => []LinesRight
<1>1. LogRight /\ ReadersRight => LinesRight
  <2> SUFFICES ASSUME LogRight, ReadersRight PROVE LinesWhole
    BY DEF LinesRight, LogRight
  <2> SUFFICES ASSUME NEW r \in Readers, NEW i \in DOMAIN reader[r].lines
               PROVE  /\ reader[r].lines[i].addr = reader[r].lines[i].name
                      /\ reader[r].lines[i].addr # NoEntry
    BY DEF LinesWhole
  <2>1. reader[r].lines \in Seq(Line) /\ reader[r].lines[i].addr = reader[r].lines[i].name
    BY DEF ReadersRight, ReaderRight, ReaderStates
  <2>2. reader[r].lines[i] \in Line
    BY <2>1
  <2> QED
    BY <2>1, <2>2, MmapAssumption DEF Line
<1> QED
  BY <1>1, ReadersInvariant, PTL

(* A reader gets the records of a log that nobody clears in order, each    *)
(* once, however many reads it takes.                                      *)
THEOREM ReadInOrderHolds == Spec => []ReadInOrder
<1>1. ReadersRight => ReadInOrder
  BY DEF ReadersRight, ReaderRight, InOrder, ReadInOrder
<1> QED
  BY <1>1, ReadersInvariant, PTL

(* What ReadAll says of a reader.                                          *)
AllRead(s) == s.intact /\ s.eof => Len(s.lines) >= s.due

LEMMA AllReadStep ==
  ASSUME RoomForHeading, LogRight, ReadersRight, NEW r \in Readers, ReaderStep(r),
         AllRead(reader[r])
  PROVE  AllRead(reader'[r])
<1> DEFINE s == reader[r]
<1>1. PICK u : u = reader'[r]
  OBVIOUS
<1>t. /\ DOMAIN reader = Readers /\ s \in ReaderStates /\ ReaderRight(s)
      /\ s.off \in Nat /\ s.index \in Nat /\ s.due \in Nat /\ s.room \in Nat
      /\ s.lines \in Seq(Line) /\ Lines \in {1, 2}
  BY DEF ReadersRight, ReaderRight, ReaderStates, Lines
<1> SUFFICES AllRead(u)
  BY <1>1
<1>2. CASE Reopen(r)
  <2>1. u = NewReader
    BY <1>1, <1>2, <1>t DEF Reopen
  <2> QED
    BY <2>1 DEF NewReader, AllRead
<1>3. CASE LookIndex(r)
  <2>1. u = [s EXCEPT !.pc = "down", !.index = record_index]
    BY <1>1, <1>3, <1>t DEF LookIndex
  <2> QED
    BY <1>t, <2>1 DEF AllRead, ReaderStates
<1>4. CASE ReadInterrupted(r)
  <2>1. u = Ended(s)
    BY <1>1, <1>4, <1>t DEF ReadInterrupted
  <2> QED
    BY <1>t, <2>1 DEF AllRead, ReaderStates, Ended
<1>5. CASE \E n \in ReadSizes : ReadBegin(r, n)
  <2>1. PICK n \in ReadSizes : ReadBegin(r, n)
    BY <1>5
  <2>2. /\ u = [s EXCEPT !.pc = "look", !.room = n, !.got = 0, !.due = Len(log)]
        /\ ~s.eof
    BY <1>1, <1>t, <2>1 DEF ReadBegin
  <2> QED
    BY <1>t, <2>2 DEF AllRead, ReaderStates
<1>6. CASE PrintEnd(r) \/ PrintTooLong(r)
  <2> DEFINE e == s.got = 0
  <2>1. u = [Ended(s) EXCEPT !.eof = e]
    BY <1>1, <1>6, <1>t DEF PrintEnd, PrintTooLong, Stop
  <2>2. e \in BOOLEAN
    OBVIOUS
  <2>3. s.pc = "down"
    BY <1>6 DEF PrintEnd, PrintTooLong, Down
  <2> HIDE DEF e
  <2>4. (u.intact => s.intact) /\ (u.eof => e) /\ u.lines = s.lines /\ u.due = s.due
    <3>1. PICK w : w = Ended(s)
      OBVIOUS
    <3>2. /\ w \in ReaderStates /\ w.intact = s.intact
          /\ w.lines = s.lines /\ w.due = s.due
      BY <1>t, <3>1 DEF ReaderStates, Ended
    <3>3. u = [w EXCEPT !.eof = e]
      BY <2>1, <3>1
    <3> HIDE DEF s
    <3> QED
      BY <2>2, <3>2, <3>3 DEF ReaderStates
  <2>5. CASE PrintEnd(r)
    <3> SUFFICES ASSUME s.intact PROVE Len(s.lines) >= s.due
      BY <2>4 DEF AllRead
    <3>1. s.off >= s.index
      BY <2>5 DEF PrintEnd
    <3>2. InOrder(s)
      BY <1>t DEF ReaderRight
    <3>3. s.due <= s.index /\ s.lines = [i \in 1 .. s.off |-> Whole(log[i])]
      BY <2>3, <3>2 DEF InOrder
    <3>4. Len(s.lines) = s.off
      BY <1>t, <3>3
    <3> QED
      BY <1>t, <3>1, <3>3, <3>4
  <2>6. CASE PrintTooLong(r)
    <3> SUFFICES ASSUME e PROVE FALSE
      BY <2>4 DEF AllRead
    <3>1. s.got = 0 /\ Lines > s.room
      BY <2>6 DEF PrintTooLong, e
    <3>2. s.room \in ReadSizes
      BY <1>t, <2>3, <3>1 DEF ReaderRight
    <3> QED
      BY <1>t, <3>1, <3>2 DEF RoomForHeading
  <2> QED
    BY <1>6, <2>5, <2>6
<1>7. CASE PrintLine(r)
  <2> DEFINE l == axfs_xip_records[s.off]
             w == After(s, Lines, l)
  <2>1. Printed(r, 1) /\ Lines <= s.room /\ s.off < s.index
    BY <1>7 DEF PrintLine
  <2>2. u = w \/ u = Ended(w)
    BY <1>1, <1>t, <2>1 DEF Printed, After
  <2>3. ReaderRight(w)
    BY <1>7, <1>t, <2>1, LineRight DEF PrintLine, Down
  <2>4. /\ w.intact = s.intact /\ w.eof = s.eof /\ w.due = s.due
        /\ w.lines = Append(s.lines, l)
    BY <1>t DEF After, ReaderStates
  <2>5. Len(Append(s.lines, l)) = Len(s.lines) + 1 /\ Len(s.lines) \in Nat
    <3> DEFINE q == s.lines
    <3>1. q \in Seq(Line)
      BY <1>t
    <3> SUFFICES Len(Append(q, l)) = Len(q) + 1 /\ Len(q) \in Nat
      OBVIOUS
    <3> HIDE DEF q, l
    <3> QED
      BY <3>1
  <2>6. w \in ReaderStates
    BY <2>3 DEF ReaderRight
  <2> HIDE DEF w
  <2>7. u.intact = w.intact /\ u.eof = w.eof /\ u.due = w.due /\ u.lines = w.lines
    BY <2>2, <2>6 DEF Ended, ReaderStates
  <2>8. s.intact /\ s.eof => Len(s.lines) >= s.due
    BY DEF AllRead
  <2> QED
    BY <1>t, <2>4, <2>5, <2>7, <2>8 DEF AllRead
<1> QED
  BY <1>2, <1>3, <1>4, <1>5, <1>6, <1>7 DEF ReaderStep

LEMMA ReadAllNext ==
  ASSUME RoomForHeading, LogRight, ReadersRight, ReadAll, [Next]_vars
  PROVE  ReadAll'
<1>a. \A r \in Readers : AllRead(reader[r])
  BY DEF ReadAll, AllRead
<1> SUFFICES ASSUME NEW q \in Readers
             PROVE  AllRead(reader'[q])
  BY DEF ReadAll, AllRead
<1>1. CASE Clear
  <2>1. /\ reader'[q] = [reader[q] EXCEPT !.intact = (reader[q] = NewReader)]
        /\ reader[q] \in ReaderStates
    BY <1>1 DEF Clear, ReadersRight, ReaderRight
  <2>2. reader'[q].intact => reader[q] = NewReader
    BY <2>1 DEF ReaderStates
  <2>3. reader'[q].eof = reader[q].eof
    BY <2>1 DEF ReaderStates
  <2>4. NewReader.eof = FALSE
    BY DEF NewReader
  <2>5. ~(reader'[q].intact /\ reader'[q].eof)
    BY <2>2, <2>3, <2>4
  <2> QED
    BY <2>5 DEF AllRead
<1>2. CASE reader'[q] = reader[q]
  BY <1>2, <1>a
<1>3. CASE ReaderStep(q)
  BY <1>3, <1>a, AllReadStep
<1>4. CASE \E r \in Readers \ {q} : ReaderStep(r)
  BY <1>2, <1>4, OtherReaders
<1>5. (\E t \in Tasks : Step(t) \/ User(t)) \/ UNCHANGED vars => reader' = reader
  BY DEF Step, SkipNode, InsertPfn, InsertPfnFails, Unmap, LogFull, NotRecorded,
         RecordBegin, RecordEnd, MmapDone, User, MmapGeneric, MmapShared, Mmap, Call,
         Fault, Reclaim, Interrupted, Mprotect, Munmap, vars, procVars
<1> QED
  BY <1>1, <1>2, <1>3, <1>4, <1>5 DEF Next, Proc, ProcNext, ReaderStep

(* A reader whose buffers hold the heading and a line, and who is told the *)
(* end of the file, has got every record that was there when its last read *)
(* began, in order and each once, if nobody has cleared the log.           *)
THEOREM LogReadHolds == RoomForHeading => (Spec => []LogRead)
<1> SUFFICES ASSUME RoomForHeading PROVE Spec => []LogRead
  OBVIOUS
<1>1. Init => ReadAll
  BY DEF Init, RecordInit, ReadAll, NewReader
<1>2. LogRight /\ ReadersRight /\ ReadAll /\ [Next]_vars => ReadAll'
  BY ReadAllNext
<1>3. Spec => []ReadAll
  BY <1>1, <1>2, ReadersInvariant, PTL DEF Spec
<1>4. ReadInOrder /\ ReadAll => LogRead
  BY DEF LogRead
<1> QED
  BY <1>3, <1>4, ReadInOrderHolds, PTL

-----------------------------------------------------------------------------
(* What a page table entry e of page i of a mapping q may be.              *)

ShownAs(q, i, e) ==
  LET r == PageOf(q, i)
  IN  e # None =>
        /\ InFile(r) => e = IF NodeType(r) = XIP THEN StoredFrame(r) ELSE CachePage(r)
        /\ q.pgoff = 0 => InFile(r)

XipAt(q, i, e) ==
  InFile(PageOf(q, i)) /\ NodeType(PageOf(q, i)) = XIP => e # None

LoggedIn(l, t, q, i, e) ==
  e # None /\ e[1] = "pfn" =>
    \E k \in 1 .. Len(l) : l[k] = [ino |-> q.ino, frame |-> e, t |-> t, i |-> i]

LEMMA EntriesDiffer ==
  ASSUME NEW m, NEW n, NEW r
  PROVE  /\ Frame(m, n) # None /\ Wild(m) # None /\ CachePage(r) # None
         /\ Frame(m, n) # CachePage(r)
         /\ CachePage(r)[1] # "pfn" /\ Wild(m)[1] # "pfn"
BY DEF Frame, Wild, CachePage, None

(* The nodes of a file's pages are told by the tables.                     *)
LEMMA TablePage ==
  ASSUME FilesInTable, NEW q, IsRequest(q), NEW i \in Nat, InFile(PageOf(q, i))
  PROVE  LET r == PageOf(q, i)
         IN  /\ NodeTypes(r) = {NodeType(r)} /\ NodeIndex(r) \in Nat
             /\ ArrayIndex(r) \in DOMAIN sbi[r.m].node_index
             /\ r.m = q.m /\ r.m \in Mounts
<1> DEFINE r == PageOf(q, i)
           n == q.pgoff + i
           page(j) == [m |-> q.m, ino |-> q.ino, index |-> j]
<1>1. /\ q.m \in Mounts /\ q.ino \in DOMAIN sbi[q.m].inode_file_size
      /\ q.pgoff \in Nat /\ n \in Nat /\ r = page(n) /\ r.m = q.m
      /\ page(n).index = n
  BY DEF IsRequest, PageOf
<1>2. MaxBlock(page(0)) = MaxBlock(page(n)) /\ MaxBlock(page(n)) \in Nat
  <2>1. TablesOK(sbi[q.m])
    BY <1>1, ImageAssumption
  <2> DEFINE size == sbi[q.m].inode_file_size[q.ino]
  <2>2. size \in Nat /\ PAGE_CACHE_SIZE \in Nat \ {0}
    BY <1>1, <2>1, ImageAssumption DEF TablesOK
  <2>3. /\ MaxBlock(page(0)) = (size + PAGE_CACHE_SIZE - 1) \div PAGE_CACHE_SIZE
        /\ MaxBlock(page(n)) = (size + PAGE_CACHE_SIZE - 1) \div PAGE_CACHE_SIZE
    BY DEF MaxBlock, FileSize
  <2> HIDE DEF size
  <2>4. size + PAGE_CACHE_SIZE - 1 \in Nat
    BY <2>2
  <2> QED
    BY <2>2, <2>3, <2>4, DivMod
<1>3. n < MaxBlock(page(n))
  BY <1>1 DEF InFile
<1>4. n \in 0 .. MaxBlock(page(0)) - 1
  BY <1>1, <1>2, <1>3
<1>5. ArrayIndex(page(n)) \in DOMAIN sbi[q.m].node_type
  BY <1>1, <1>4 DEF FilesInTable
<1>6. /\ DOMAIN sbi[q.m].node_index = DOMAIN sbi[q.m].node_type
      /\ \A a \in DOMAIN sbi[q.m].node_type : sbi[q.m].node_index[a] \in Nat
  BY <1>1, ImageAssumption DEF TablesOK
<1>7. r = page(n) /\ page(n).m = q.m
  BY <1>1
<1> HIDE DEF r, page
<1> SUFFICES /\ NodeTypes(r) = {NodeType(r)} /\ NodeIndex(r) \in Nat
             /\ ArrayIndex(r) \in DOMAIN sbi[r.m].node_index
             /\ r.m = q.m /\ r.m \in Mounts
  BY DEF r
<1> QED
  BY <1>1, <1>5, <1>6, <1>7 DEF NodeTypes, NodeIndex

(* The frames that axfs_mmap and axfs_get_xip_mem compute are the stored   *)
(* one.                                                                    *)
LEMMA SameFrame ==
  ASSUME NEW r, r.m \in Mounts, NodeIndex(r) \in Nat
  PROVE  /\ ArrayIndex(r) \in DOMAIN sbi[r.m].node_index =>
              XipNodeFrame(r) = StoredFrame(r)
         /\ RegionLinear /\ AXFS_PHYSADDR_IS_VALID(r.m) => GetXipMem(r) = StoredFrame(r)
<1> DEFINE P == PAGE_CACHE_SIZE
           a == AXFS_GET_XIP_REGION_PHYSADDR(r.m)
           n == NodeIndex(r)
           v == xip_virt_addr[r.m]
<1>1. P \in Nat \ {0} /\ a \in Nat /\ n \in Nat /\ v \in Nat /\ PAGE_OFFSET \in Nat
  BY ImageAssumption, MmapAssumption DEF AXFS_GET_XIP_REGION_PHYSADDR
<1>2. StoredFrame(r) = Frame(r.m, (a \div P) + n)
  BY DEF StoredFrame, AXFS_GET_XIP_REGION_PHYSADDR
<1>3. ArrayIndex(r) \in DOMAIN sbi[r.m].node_index =>
        XipNodeFrame(r) = Frame(r.m, (a + n * P) \div P)
  BY DEF XipNodeFrame
<1>4. GetXipMem(r) = Frame(r.m, ((n * P + v) - PAGE_OFFSET) \div P)
  BY Zenon DEF GetXipMem, virt_to_phys
<1>5. RegionLinear /\ AXFS_PHYSADDR_IS_VALID(r.m) => v - PAGE_OFFSET = a
  BY DEF RegionLinear, virt_to_phys
<1> HIDE DEF P, a, n, v
<1>6. (a + n * P) \div P = (a \div P) + n
  BY <1>1, DivAdd
<1>7. v - PAGE_OFFSET = a => (n * P + v) - PAGE_OFFSET = a + n * P
  <2>1. n * P \in Nat
    BY <1>1
  <2> QED
    BY <1>1, <2>1
<1> QED
  BY <1>2, <1>3, <1>4, <1>5, <1>6, <1>7

(* What axfs_mmap puts into the page table.                                *)
LEMMA InsertedRight ==
  ASSUME FilesInTable, NEW q, IsRequest(q), NEW i \in Nat, i < NumPages(q),
         XIP \in NodeTypes(PageOf(q, i))
  PROVE  LET e == XipNodeFrame(PageOf(q, i))
         IN  ShownAs(q, i, e) /\ e # None
<1> DEFINE r == PageOf(q, i)
           e == XipNodeFrame(r)
<1>1. e # None
  BY EntriesDiffer DEF XipNodeFrame
<1>2. q.pgoff = 0 => InFile(r)
  BY NumPagesIs
<1>3. InFile(r) => NodeType(r) = XIP /\ e = StoredFrame(r)
  <2> SUFFICES ASSUME InFile(r) PROVE NodeType(r) = XIP /\ e = StoredFrame(r)
    OBVIOUS
  <2>1. /\ NodeTypes(r) = {NodeType(r)} /\ NodeIndex(r) \in Nat
        /\ ArrayIndex(r) \in DOMAIN sbi[r.m].node_index /\ r.m \in Mounts
    BY TablePage
  <2> QED
    BY <2>1, SameFrame
<1> HIDE DEF e
<1> QED
  BY <1>1, <1>2, <1>3 DEF ShownAs, e

(* What a fault puts there.                                                *)
LEMMA FaultRight ==
  ASSUME FilesInTable, RegionLinear, NEW q, IsRequest(q), AXFS_PHYSADDR_IS_VALID(q.m),
         NEW i \in Nat, InFile(PageOf(q, i)), NEW type \in NodeTypes(PageOf(q, i))
  PROVE  LET r == PageOf(q, i)
             e == IF type = XIP THEN GetXipMem(r) ELSE CachePage(r)
         IN  /\ ShownAs(q, i, e) /\ e # None /\ type = NodeType(r)
             /\ type # XIP => e[1] # "pfn"
<1> DEFINE r == PageOf(q, i)
           e == IF type = XIP THEN GetXipMem(r) ELSE CachePage(r)
<1>1. /\ NodeTypes(r) = {NodeType(r)} /\ NodeIndex(r) \in Nat
      /\ r.m = q.m /\ r.m \in Mounts
  BY TablePage
<1>2. type = NodeType(r)
  BY <1>1
<1>3. GetXipMem(r) = StoredFrame(r)
  BY <1>1, SameFrame
<1>4. e # None /\ (type # XIP => e[1] # "pfn")
  BY EntriesDiffer DEF GetXipMem
<1>5. e = IF NodeType(r) = XIP THEN StoredFrame(r) ELSE CachePage(r)
  BY <1>2, <1>3
<1> HIDE DEF e
<1> QED
  BY <1>2, <1>4, <1>5 DEF ShownAs, e

-----------------------------------------------------------------------------
(* The mapping of task t.                                                  *)

InMmap(t) == pc[t] \in {"loop", "record", "recording"}
AtRecord(t) == pc[t] \in {"record", "recording"}

MapShown(t) == \A i \in DOMAIN pte[t] : ShownAs(vma[t], i, pte[t][i])

(* axfs_mmap has mapped the XIP pages that it is done with.                *)
MapXip(t) ==
  \A i \in DOMAIN pte[t] :
    pc[t] = "mapped" \/ (InMmap(t) /\ i < count[t]) => XipAt(vma[t], i, pte[t][i])

(* It has recorded all that it has mapped but the page it is at.           *)
MapLogged(t) ==
  ~missed[t] =>
    \A i \in DOMAIN pte[t] :
      ~(AtRecord(t) /\ i = count[t]) => LoggedIn(log, t, vma[t], i, pte[t][i])

MapRight(t) ==
  /\ pc[t] = "mapped" \/ InMmap(t) => AXFS_PHYSADDR_IS_VALID(vma[t].m)
  /\ MapShown(t) /\ MapXip(t) /\ MapLogged(t)

VmaTypes ==
  /\ vma \in [Tasks -> [m : Mounts, ino : Nat, pgoff : Nat, pages : Nat,
         write : BOOLEAN, shared : BOOLEAN, maywrite : BOOLEAN] \cup {NoRequest}]
  /\ missed \in [Tasks -> BOOLEAN]

AllMapped == VmaTypes /\ \A t \in Tasks : MapRight(t)

LEMMA VmaNext ==
  ASSUME TasksRight, VmaTypes, [Next]_vars
  PROVE  VmaTypes'
<1>1. ASSUME NEW t \in Tasks, Step(t) \/ User(t)
      PROVE  VmaTypes'
  <2> DEFINE R == [m : Mounts, ino : Nat, pgoff : Nat, pages : Nat,
                   write : BOOLEAN, shared : BOOLEAN, maywrite : BOOLEAN]
  <2>1. \/ vma' = vma
        \/ \E q \in R \cup {NoRequest} : vma' = [vma EXCEPT ![t] = q]
    <3>1. CASE \E q \in Requests[t] : Call(t, q, "loop") \/ Call(t, q, "generic")
      <4>1. PICK q \in Requests[t] : Call(t, q, "loop") \/ Call(t, q, "generic")
        BY <3>1
      <4>2. q \in R
        BY MmapAssumption DEF IsRequest
      <4>3. vma' = [vma EXCEPT ![t] = q]
        BY <4>1 DEF Call
      <4> QED
        BY <4>2, <4>3
    <3>2. CASE Mprotect(t)
      <4>1. IsRequest(vma[t])
        BY <3>2 DEF Mprotect, TasksRight, TaskRight
      <4>2. [vma[t] EXCEPT !.write = TRUE] \in R
        BY <4>1 DEF IsRequest
      <4>3. vma' = [vma EXCEPT ![t] = [vma[t] EXCEPT !.write = TRUE]]
        BY <3>2 DEF Mprotect
      <4> QED
        BY <4>2, <4>3
    <3>3. CASE Unmap(t)
      BY <3>3 DEF Unmap
    <3> QED
      BY <1>1, <3>1, <3>2, <3>3
      DEF Step, SkipNode, InsertPfn, InsertPfnFails, LogFull, NotRecorded, NextPage,
          RecordBegin, RecordEnd, MmapDone, User, MmapGeneric, MmapShared, Mmap, Fault,
          Reclaim, Interrupted, Munmap, vars, mapVars
  <2>2. \/ missed' = missed
        \/ \E b \in BOOLEAN : missed' = [missed EXCEPT ![t] = b]
    BY <1>1
    DEF Step, SkipNode, InsertPfn, InsertPfnFails, LogFull, NotRecorded, NextPage, Unmap,
        RecordBegin, RecordEnd, MmapDone, User, MmapGeneric, MmapShared, Mmap, Fault,
        Reclaim, Interrupted, Munmap, Mprotect, Call, vars, mapVars
  <2> HIDE DEF R
  <2>3. vma \in [Tasks -> R \cup {NoRequest}] /\ missed \in [Tasks -> BOOLEAN]
    BY DEF VmaTypes, R
  <2>4. vma' \in [Tasks -> R \cup {NoRequest}]
    BY <2>1, <2>3
  <2>5. missed' \in [Tasks -> BOOLEAN]
    BY <2>2, <2>3
  <2> QED
    BY <2>4, <2>5 DEF VmaTypes, R
<1>2. CASE Proc \/ UNCHANGED vars
  BY <1>2 DEF Proc, vars, mapVars, VmaTypes
<1> QED
  BY <1>1, <1>2 DEF Next

(* As long as the log only grows, what is in it stays.                     *)
LEMMA StaysLogged ==
  ASSUME NEW l \in Seq(Entries), NEW k \in Seq(Entries), Len(l) <= Len(k),
         \A i \in 1 .. Len(l) : k[i] = l[i],
         NEW t, NEW q, NEW i, NEW e, LoggedIn(l, t, q, i, e)
  PROVE  LoggedIn(k, t, q, i, e)
BY DEF LoggedIn

(* A task that does not move keeps its mapping, and a clear that takes one *)
(* of its records is noted.                                                *)
LEMMA SameMapRight ==
  ASSUME TasksRight, LogRight, LogRight', AllMapped, [Next]_vars,
         NEW u \in Tasks, Same(u), missed[u] => missed'[u],
         (Proc /\ Clear) => missed'[u] \/ pc[u] = "idle" \/ Len(log) = 0
  PROVE  MapRight(u)'
<1>1. vma'[u] = vma[u] /\ pc'[u] = pc[u] /\ count'[u] = count[u] /\ pte'[u] = pte[u]
  BY DEF Same
<1>2. MapRight(u) /\ log \in Seq(Entries) /\ log' \in Seq(Entries)
  BY DEF AllMapped, LogRight, LogTypes
<1>3. (pc[u] = "mapped" \/ InMmap(u) => AXFS_PHYSADDR_IS_VALID(vma[u].m))'
  BY <1>1, <1>2 DEF MapRight, InMmap, AXFS_PHYSADDR_IS_VALID
<1>4. MapShown(u)'
  <2>1. \A i \in DOMAIN pte[u] : ShownAs(vma[u], i, pte[u][i])
    BY <1>2 DEF MapRight, MapShown
  <2> QED
    BY <1>1, <2>1 DEF MapShown
<1>5. MapXip(u)'
  BY <1>1, <1>2 DEF MapRight, MapXip, InMmap
<1>6. MapLogged(u)'
  <2> SUFFICES ASSUME ~missed'[u], NEW i \in DOMAIN pte[u], ~(AtRecord(u) /\ i = count[u])
               PROVE  LoggedIn(log', u, vma[u], i, pte[u][i])
    BY <1>1 DEF MapLogged, AtRecord
  <2>1. LoggedIn(log, u, vma[u], i, pte[u][i])
    BY <1>2 DEF MapRight, MapLogged
  <2>2. CASE ~(Proc /\ Clear)
    BY <1>2, <2>1, <2>2, LogGrows, StaysLogged
  <2>3. CASE Proc /\ Clear
    <3>1. pc[u] # "idle"
      BY DEF TasksRight, TaskRight
    <3>2. Len(log) = 0 /\ Len(log') \in Nat /\ Len(log) \in Nat
      BY <1>2, <2>3, <3>1
    <3> QED
      BY <1>2, <2>1, <3>2 DEF LoggedIn
  <2> QED
    BY <2>2, <2>3
<1> QED
  BY <1>3, <1>4, <1>5, <1>6 DEF MapRight

LEMMA NextPageRight ==
  ASSUME TasksRight, LogRight, AllMapped, NEW t \in Tasks, AtRecord(t), NextPage(t),
         \/ missed'[t]
         \/ /\ missed'[t] = missed[t] /\ log' \in Seq(Entries) /\ Len(log) <= Len(log')
            /\ \A k \in 1 .. Len(log) : log'[k] = log[k]
            /\ LoggedIn(log', t, vma[t], count[t], pte[t][count[t]])
  PROVE  MapRight(t)'
<1>1. /\ vma'[t] = vma[t] /\ pc'[t] = "loop" /\ count'[t] = count[t] + 1
      /\ pte'[t] = pte[t] /\ count[t] \in Nat
  BY DEF NextPage, TasksRight
<1>2. /\ pte[t][count[t]] = XipNodeFrame(ThisPage(t)) /\ InMmap(t)
      /\ DOMAIN pte[t] = 0 .. vma[t].pages - 1 /\ MapRight(t) /\ log \in Seq(Entries)
  BY DEF AtRecord, InMmap, TasksRight, TaskRight, AllMapped, LogRight, LogTypes
<1>3. (pc[t] = "mapped" \/ InMmap(t) => AXFS_PHYSADDR_IS_VALID(vma[t].m))'
  BY <1>1, <1>2 DEF MapRight, AXFS_PHYSADDR_IS_VALID
<1>4. MapShown(t)'
  BY <1>1, <1>2 DEF MapRight, MapShown
<1>5. MapXip(t)'
  <2> SUFFICES ASSUME NEW i \in DOMAIN pte[t], i < count[t] + 1
               PROVE  XipAt(vma[t], i, pte[t][i])
    BY <1>1 DEF MapXip, InMmap
  <2>1. CASE i = count[t]
    <3>1. XipNodeFrame(ThisPage(t)) # None
      BY EntriesDiffer DEF XipNodeFrame
    <3> QED
      BY <1>2, <2>1, <3>1 DEF XipAt
  <2>2. CASE i # count[t]
    <3>1. i < count[t]
      BY <1>1, <1>2, <2>2
    <3> QED
      BY <1>2, <3>1 DEF MapRight, MapXip
  <2> QED
    BY <2>1, <2>2
<1>6. MapLogged(t)'
  <2> SUFFICES ASSUME ~missed'[t], NEW i \in DOMAIN pte[t]
               PROVE  LoggedIn(log', t, vma[t], i, pte[t][i])
    BY <1>1 DEF MapLogged
  <2>1. CASE i = count[t]
    BY <2>1
  <2>2. CASE i # count[t]
    <3>1. LoggedIn(log, t, vma[t], i, pte[t][i])
      BY <1>2, <2>2 DEF MapRight, MapLogged
    <3> QED
      BY <1>2, <3>1, StaysLogged
  <2> QED
    BY <2>1, <2>2
<1> QED
  BY <1>3, <1>4, <1>5, <1>6 DEF MapRight

(* An entry that a fault or the kernel sets is not that of an XIP page.    *)
Settles(t, i, e) ==
  pc[t] = "mapped" => XipAt(vma[t], i, e) /\ LoggedIn(log, t, vma[t], i, e)

(* An entry of the page table is set, and nothing is recorded.             *)
LEMMA SetRight ==
  ASSUME TasksRight, AllMapped, NEW t \in Tasks, NEW i \in DOMAIN pte[t], NEW e,
         UNCHANGED <<vma, count, missed, log>>, pte' = [pte EXCEPT ![t][i] = e],
         (pc[t] = "loop" /\ pc'[t] = "record" /\ i = count[t])
           \/ (pc[t] = "mapped" /\ pc'[t] = "mapped"),
         ShownAs(vma[t], i, e), Settles(t, i, e)
  PROVE  MapRight(t)'
<1> USE DEF Settles
<1>1. /\ vma'[t] = vma[t] /\ count'[t] = count[t] /\ missed'[t] = missed[t] /\ log' = log
      /\ pte'[t] = [pte[t] EXCEPT ![i] = e] /\ MapRight(t)
  BY DEF TasksRight, AllMapped
<1>2. /\ DOMAIN pte'[t] = DOMAIN pte[t] /\ pte'[t][i] = e
      /\ \A j \in DOMAIN pte[t] \ {i} : pte'[t][j] = pte[t][j]
  BY <1>1
<1>3. (pc[t] = "mapped" \/ InMmap(t) => AXFS_PHYSADDR_IS_VALID(vma[t].m))'
  BY <1>1 DEF MapRight, InMmap, AXFS_PHYSADDR_IS_VALID
<1>4. MapShown(t)'
  BY <1>1, <1>2 DEF MapRight, MapShown
<1>5. MapXip(t)'
  <2> SUFFICES ASSUME NEW j \in DOMAIN pte[t],
                      pc'[t] = "mapped" \/ (pc'[t] = "record" /\ j < count[t])
               PROVE  XipAt(vma[t], j, pte'[t][j])
    BY <1>1, <1>2 DEF MapXip, InMmap
  <2>1. count[t] \in Nat
    BY DEF TasksRight
  <2>2. CASE j = i
    BY <1>2, <2>1, <2>2
  <2>3. CASE j # i
    BY <1>1, <1>2, <2>3 DEF MapRight, MapXip, InMmap
  <2> QED
    BY <2>2, <2>3
<1>6. MapLogged(t)'
  <2> SUFFICES ASSUME ~missed[t], NEW j \in DOMAIN pte[t],
                      ~(pc'[t] = "record" /\ j = count[t])
               PROVE  LoggedIn(log, t, vma[t], j, pte'[t][j])
    BY <1>1, <1>2 DEF MapLogged, AtRecord
  <2>1. CASE j = i
    BY <1>2, <2>1
  <2>2. CASE j # i
    BY <1>1, <1>2, <2>2 DEF MapRight, MapLogged, AtRecord
  <2> QED
    BY <2>1, <2>2
<1> QED
  BY <1>3, <1>4, <1>5, <1>6 DEF MapRight

LEMMA SkipRight ==
  ASSUME FilesInTable, TasksRight, AllMapped, NEW t \in Tasks, SkipNode(t)
  PROVE  MapRight(t)'
<1>1. /\ vma'[t] = vma[t] /\ pc[t] = "loop" /\ pc'[t] = "loop"
      /\ count'[t] = count[t] + 1 /\ pte'[t] = pte[t] /\ missed'[t] = missed[t]
      /\ log' = log /\ count[t] \in Nat /\ NodeTypes(ThisPage(t)) # {XIP}
  BY DEF SkipNode, AtOther, recordVars, TasksRight
<1>2. MapRight(t) /\ IsRequest(vma[t]) /\ DOMAIN pte[t] = 0 .. vma[t].pages - 1
  BY <1>1 DEF AllMapped, TasksRight, TaskRight
<1>3. (pc[t] = "mapped" \/ InMmap(t) => AXFS_PHYSADDR_IS_VALID(vma[t].m))'
  BY <1>1, <1>2 DEF MapRight, InMmap, AXFS_PHYSADDR_IS_VALID
<1>4. MapShown(t)'
  BY <1>1, <1>2 DEF MapRight, MapShown
<1>5. MapXip(t)'
  <2> SUFFICES ASSUME NEW i \in DOMAIN pte[t], i < count[t] + 1
               PROVE  XipAt(vma[t], i, pte[t][i])
    BY <1>1 DEF MapXip, InMmap
  <2>1. CASE i = count[t]
    <3> SUFFICES ASSUME InFile(ThisPage(t)) PROVE NodeType(ThisPage(t)) # XIP
      BY <2>1 DEF XipAt, ThisPage
    <3>1. NodeTypes(ThisPage(t)) = {NodeType(ThisPage(t))}
      BY <1>1, <1>2, TablePage DEF ThisPage
    <3> QED
      BY <1>1, <3>1
  <2>2. CASE i # count[t]
    <3>1. i < count[t]
      BY <1>1, <1>2, <2>2
    <3> QED
      BY <1>1, <1>2, <3>1 DEF MapRight, MapXip, InMmap
  <2> QED
    BY <2>1, <2>2
<1>6. MapLogged(t)'
  BY <1>1, <1>2 DEF MapRight, MapLogged, AtRecord
<1> QED
  BY <1>3, <1>4, <1>5, <1>6 DEF MapRight

LEMMA DoneRight ==
  ASSUME TasksRight, AllMapped, NEW t \in Tasks, MmapDone(t)
  PROVE  MapRight(t)'
<1>1. /\ vma'[t] = vma[t] /\ pc[t] = "loop" /\ pc'[t] = "mapped" /\ pte'[t] = pte[t]
      /\ missed'[t] = missed[t] /\ log' = log /\ count[t] \in Nat
      /\ count[t] >= NumPages(vma[t])
  BY DEF MmapDone, recordVars, TasksRight
<1>2. MapRight(t) /\ IsRequest(vma[t]) /\ DOMAIN pte[t] = 0 .. vma[t].pages - 1
  BY <1>1 DEF AllMapped, TasksRight, TaskRight
<1>3. (pc[t] = "mapped" \/ InMmap(t) => AXFS_PHYSADDR_IS_VALID(vma[t].m))'
  BY <1>1, <1>2 DEF MapRight, InMmap, AXFS_PHYSADDR_IS_VALID
<1>4. MapShown(t)'
  BY <1>1, <1>2 DEF MapRight, MapShown
<1>5. MapXip(t)'
  <2> SUFFICES ASSUME NEW i \in DOMAIN pte[t]
               PROVE  XipAt(vma[t], i, pte[t][i])
    BY <1>1 DEF MapXip
  <2>1. CASE i < count[t]
    BY <1>1, <1>2, <2>1 DEF MapRight, MapXip, InMmap
  <2>2. CASE ~(i < count[t])
    <3>1. i \in Nat /\ i < vma[t].pages /\ vma[t].pages \in Nat
      BY <1>2 DEF IsRequest
    <3>2. NumPages(vma[t]) \in Nat /\ (InFile(PageOf(vma[t], i)) => i < NumPages(vma[t]))
      BY <1>2, <3>1, NumPagesIs
    <3>3. ~InFile(PageOf(vma[t], i))
      BY <1>1, <2>2, <3>1, <3>2
    <3> QED
      BY <3>3 DEF XipAt
  <2> QED
    BY <2>1, <2>2
<1>6. MapLogged(t)'
  BY <1>1, <1>2 DEF MapRight, MapLogged, AtRecord
<1> QED
  BY <1>3, <1>4, <1>5, <1>6 DEF MapRight

LEMMA FaultStepRight ==
  ASSUME FilesInTable, RegionLinear, TasksRight, AllMapped, NEW t \in Tasks,
         NEW i \in DOMAIN pte[t], Fault(t, i)
  PROVE  MapRight(t)'
<1> DEFINE q == vma[t]
           r == PageOf(q, i)
<1>1. /\ pc[t] = "mapped" /\ pc'[t] = "mapped" /\ pte[t][i] = None
      /\ UNCHANGED <<vma, count, missed, log>>
  BY DEF Fault, recordVars
<1>2. /\ IsRequest(q) /\ MapRight(t) /\ i \in Nat
      /\ AXFS_PHYSADDR_IS_VALID(q.m) /\ DOMAIN pte = Tasks
  <2>1. IsRequest(q) /\ DOMAIN pte[t] = 0 .. q.pages - 1 /\ MapRight(t) /\ DOMAIN pte = Tasks
    BY <1>1 DEF TasksRight, TaskRight, AllMapped
  <2> QED
    BY <1>1, <2>1 DEF MapRight
<1>3. PICK type \in NodeTypes(r) :
        pte' = [pte EXCEPT ![t][i] =
                  IF ~InFile(r) THEN None
                  ELSE IF type = XIP THEN GetXipMem(r) ELSE CachePage(r)]
  BY DEF Fault
<1>4. XipAt(q, i, None)
  BY <1>1, <1>2 DEF MapRight, MapXip
<1>5. CASE ~InFile(r)
  <2>1. pte' = [pte EXCEPT ![t][i] = None]
    BY <1>3, <1>5
  <2>2. ShownAs(q, i, None) /\ LoggedIn(log, t, q, i, None)
    BY DEF ShownAs, LoggedIn
  <2> QED
    BY <1>1, <1>4, <2>1, <2>2, SetRight DEF Settles
<1>6. CASE InFile(r)
  <2> DEFINE e == IF type = XIP THEN GetXipMem(r) ELSE CachePage(r)
  <2>1. pte' = [pte EXCEPT ![t][i] = e]
    BY <1>3, <1>6
  <2>2. ShownAs(q, i, e) /\ e # None /\ type = NodeType(r) /\ (type # XIP => e[1] # "pfn")
    BY <1>2, <1>6, FaultRight
  <2> HIDE DEF e
  <2>3. type # XIP
    BY <1>4, <1>6, <2>2 DEF XipAt
  <2>4. XipAt(q, i, e) /\ LoggedIn(log, t, q, i, e)
    BY <2>2, <2>3 DEF XipAt, LoggedIn
  <2> QED
    BY <1>1, <2>1, <2>2, <2>4, SetRight DEF Settles
<1> QED
  BY <1>5, <1>6

LEMMA ReclaimRight ==
  ASSUME FilesInTable, TasksRight, AllMapped, NEW t \in Tasks,
         NEW i \in DOMAIN pte[t], Reclaim(t, i)
  PROVE  MapRight(t)'
<1> DEFINE q == vma[t]
           r == PageOf(q, i)
<1>1. /\ pc[t] = "mapped" /\ pc'[t] = "mapped" /\ pte[t][i] = CachePage(r)
      /\ UNCHANGED <<vma, count, missed, log>>
      /\ pte' = [pte EXCEPT ![t][i] = None]
  BY DEF Reclaim, recordVars
<1>2. MapRight(t)
  BY DEF AllMapped
<1>3. XipAt(q, i, None)
  <2> SUFFICES ASSUME InFile(r), NodeType(r) = XIP PROVE FALSE
    BY DEF XipAt
  <2>1. ShownAs(q, i, CachePage(r))
    BY <1>1, <1>2 DEF MapRight, MapShown
  <2>2. CachePage(r) = StoredFrame(r)
    BY <2>1, EntriesDiffer DEF ShownAs
  <2> QED
    BY <2>2, EntriesDiffer DEF StoredFrame
<1>4. ShownAs(q, i, None) /\ LoggedIn(log, t, q, i, None)
  BY DEF ShownAs, LoggedIn
<1> QED
  BY <1>1, <1>3, <1>4, SetRight DEF Settles

LEMMA InsertRight ==
  ASSUME FilesInTable, TasksRight, AllMapped, NEW t \in Tasks, InsertPfn(t)
  PROVE  MapRight(t)'
<1> DEFINE q == vma[t]
           i == count[t]
           e == XipNodeFrame(ThisPage(t))
<1>1. /\ pc[t] = "loop" /\ pc'[t] = "record" /\ i < NumPages(q)
      /\ XIP \in NodeTypes(ThisPage(t))
      /\ UNCHANGED <<vma, count, missed, log>> /\ pte' = [pte EXCEPT ![t][i] = e]
  BY DEF InsertPfn, AtXip, recordVars, TasksRight
<1>2. /\ IsRequest(q) /\ DOMAIN pte[t] = 0 .. q.pages - 1 /\ i \in Nat
      /\ q.pages \in Nat
  BY <1>1 DEF TasksRight, TaskRight, IsRequest
<1>3. NumPages(q) \in Nat /\ NumPages(q) <= q.pages
  BY <1>2, NumPagesIs
<1>4. i \in DOMAIN pte[t]
  BY <1>1, <1>2, <1>3
<1>5. ShownAs(q, i, e)
  BY <1>1, <1>2, InsertedRight DEF ThisPage
<1> HIDE DEF e
<1>6. Settles(t, i, e)
  BY <1>1 DEF Settles
<1> QED
  BY <1>1, <1>4, <1>5, <1>6, SetRight

LEMMA ProtectRight ==
  ASSUME TasksRight, AllMapped, NEW t \in Tasks, Mprotect(t)
  PROVE  MapRight(t)'
<1>1. /\ pc[t] = "mapped" /\ pc'[t] = pc[t] /\ count'[t] = count[t] /\ pte'[t] = pte[t]
      /\ missed'[t] = missed[t] /\ log' = log
      /\ vma'[t] = [vma[t] EXCEPT !.write = TRUE]
  BY DEF Mprotect, recordVars, TasksRight
<1>2. IsRequest(vma[t]) /\ MapRight(t)
  BY <1>1 DEF TasksRight, TaskRight, AllMapped
<1>3. /\ vma'[t].m = vma[t].m /\ vma'[t].ino = vma[t].ino /\ vma'[t].pgoff = vma[t].pgoff
  BY <1>1, <1>2 DEF IsRequest
<1>4. \A i : PageOf(vma[t], i)' = PageOf(vma[t], i)
  BY <1>3 DEF PageOf
<1>5. (pc[t] = "mapped" \/ InMmap(t) => AXFS_PHYSADDR_IS_VALID(vma[t].m))'
  BY <1>1, <1>2, <1>3 DEF MapRight, AXFS_PHYSADDR_IS_VALID
<1>6. ASSUME NEW i \in DOMAIN pte[t]
      PROVE  ShownAs(vma'[t], i, pte[t][i]) /\ XipAt(vma'[t], i, pte[t][i])
  <2>1. ShownAs(vma[t], i, pte[t][i]) /\ XipAt(vma[t], i, pte[t][i])
    BY <1>1, <1>2 DEF MapRight, MapShown, MapXip
  <2>2. PageOf(vma'[t], i) = PageOf(vma[t], i)
    BY <1>3 DEF PageOf
  <2> QED
    BY <1>3, <2>1, <2>2 DEF ShownAs, XipAt
<1>7. MapLogged(t)'
  BY <1>1, <1>2, <1>3 DEF MapRight, MapLogged, AtRecord, LoggedIn
<1> QED
  BY <1>1, <1>5, <1>6, <1>7 DEF MapRight, MapShown, MapXip

LEMMA BeginMapRight ==
  ASSUME TasksRight, AllMapped, NEW t \in Tasks, RecordBegin(t)
  PROVE  MapRight(t)'
<1>1. /\ pc[t] = "record" /\ pc'[t] = "recording" /\ count'[t] = count[t]
      /\ pte'[t] = pte[t] /\ missed'[t] = missed[t] /\ log' = log /\ vma'[t] = vma[t]
  BY DEF RecordBegin, RecordAddresses, TasksRight
<1>2. MapRight(t)
  BY DEF AllMapped
<1> QED
  BY <1>1, <1>2 DEF MapRight, MapShown, MapXip, MapLogged, InMmap, AtRecord,
     AXFS_PHYSADDR_IS_VALID

LEMMA EndMapRight ==
  ASSUME TasksRight, LogRight, AllMapped, NEW t \in Tasks, RecordEnd(t)
  PROVE  MapRight(t)'
<1>1. /\ AtRecord(t) /\ NextPage(t) /\ missed'[t] = missed[t]
      /\ log' = Append(log, Entry(t)) /\ log \in Seq(Entries) /\ Entry(t) \in Entries
  BY EntryIs DEF RecordEnd, RecordName, AtRecord, LogRight, LogTypes
<1>2. /\ log' \in Seq(Entries) /\ Len(log') = Len(log) + 1 /\ Len(log) \in Nat
      /\ \A k \in 1 .. Len(log) : log'[k] = log[k]
      /\ log'[Len(log) + 1] = Entry(t)
  BY <1>1
<1>3. Len(log) + 1 \in 1 .. Len(log') /\ Len(log) <= Len(log')
  BY <1>2
<1>4. LoggedIn(log', t, vma[t], count[t], pte[t][count[t]])
  BY <1>2, <1>3 DEF LoggedIn, Entry
<1> QED
  BY <1>1, <1>2, <1>3, <1>4, NextPageRight

LEMMA CallRight ==
  ASSUME TasksRight, NEW t \in Tasks, NEW q \in Requests[t],
         MmapGeneric(t, q) \/ Mmap(t, q)
  PROVE  MapRight(t)'
<1>1. /\ vma'[t] = q /\ pc'[t] \in {"generic", "loop"} /\ count'[t] = 0
      /\ pte'[t] = [i \in 0 .. q.pages - 1 |-> None]
      /\ pc'[t] = "loop" => AXFS_PHYSADDR_IS_VALID(q.m)
  BY MmapAssumption DEF MmapGeneric, Mmap, Call, Generic, TasksRight, TaskRight
<1>2. (pc[t] = "mapped" \/ InMmap(t) => AXFS_PHYSADDR_IS_VALID(vma[t].m))'
  BY <1>1 DEF InMmap, AXFS_PHYSADDR_IS_VALID
<1>3. MapShown(t)' /\ MapLogged(t)'
  BY <1>1 DEF MapShown, MapLogged, ShownAs, LoggedIn
<1>4. MapXip(t)'
  BY <1>1 DEF MapXip
<1> QED
  BY <1>2, <1>3, <1>4 DEF MapRight

LEMMA UnmapRight ==
  ASSUME TasksRight, NEW t \in Tasks, Unmap(t)
  PROVE  MapRight(t)'
<1>1. pc'[t] = "idle" /\ pte'[t] = <<>>
  BY DEF Unmap, TasksRight
<1> QED
  BY <1>1 DEF MapRight, InMmap, MapShown, MapXip, MapLogged

(* A step of task t leaves the history of the others alone.                *)
LEMMA OthersMissed ==
  ASSUME VmaTypes, NEW t \in Tasks, Step(t) \/ User(t), NEW u \in Tasks, u # t
  PROVE  missed'[u] = missed[u]
BY DEF VmaTypes, Step, SkipNode, InsertPfn, InsertPfnFails, Unmap, LogFull,
       NotRecorded, NextPage, RecordBegin, RecordEnd, MmapDone, User, MmapGeneric,
       MmapShared, Mmap, Call, Fault, Reclaim, Interrupted, Mprotect, Munmap, vars,
       mapVars

LEMMA StepMapRight ==
  ASSUME FilesInTable, RegionLinear, TasksRight, LogRight, LogRight', AllMapped,
         NEW t \in Tasks, Step(t) \/ User(t), ~Proc
  PROVE  MapRight(t)'
<1>n. [Next]_vars
  BY DEF Next
<1>1. CASE SkipNode(t)
  BY <1>1, SkipRight
<1>2. CASE InsertPfn(t)
  BY <1>2, InsertRight
<1>3. CASE InsertPfnFails(t) \/ Munmap(t)
  BY <1>3, UnmapRight DEF InsertPfnFails, Munmap
<1>4. CASE LogFull(t) \/ Interrupted(t)
  <2>1. AtRecord(t) /\ NextPage(t) /\ missed'[t]
    BY <1>4 DEF LogFull, Interrupted, NotRecorded, AtRecord, AllMapped, VmaTypes
  <2> QED
    BY <2>1, NextPageRight
<1>5. CASE RecordBegin(t)
  BY <1>5, BeginMapRight
<1>6. CASE RecordEnd(t)
  BY <1>6, EndMapRight
<1>7. CASE MmapDone(t)
  BY <1>7, DoneRight
<1>8. CASE \E q \in Requests[t] : MmapGeneric(t, q) \/ Mmap(t, q)
  BY <1>8, CallRight
<1>9. CASE \E q \in Requests[t] : MmapShared(t, q)
  <2>1. Same(t) /\ missed' = missed
    BY <1>9 DEF MmapShared, vars, mapVars, Same
  <2> QED
    BY <1>n, <2>1, SameMapRight
<1>10. CASE \E i \in DOMAIN pte[t] : Fault(t, i)
  BY <1>10, FaultStepRight
<1>11. CASE \E i \in DOMAIN pte[t] : Reclaim(t, i)
  BY <1>11, ReclaimRight
<1>12. CASE Mprotect(t)
  BY <1>12, ProtectRight
<1> QED
  BY <1>1, <1>2, <1>3, <1>4, <1>5, <1>6, <1>7, <1>8, <1>9, <1>10, <1>11, <1>12
  DEF Step, User

LEMMA MappedNext ==
  ASSUME FilesInTable, RegionLinear, TasksRight, LogRight, LogRight', AllMapped,
         [Next]_vars
  PROVE  AllMapped'
<1>t. VmaTypes /\ VmaTypes'
  BY VmaNext DEF AllMapped
<1>1. CASE Proc
  <2> SUFFICES ASSUME NEW u \in Tasks PROVE MapRight(u)'
    BY <1>t DEF AllMapped
  <2>1. Same(u)
    BY <1>1 DEF Proc, Same
  <2>2. missed'[u] <=> missed[u] \/ (pc[u] # "idle" /\ Len(log') < Len(log))
    BY <1>1 DEF Proc
  <2>3. Clear => Len(log) = 0 \/ Len(log') < Len(log)
    <3>1. Len(log) \in Nat
      BY DEF LogRight, LogTypes
    <3> QED
      BY <3>1 DEF Clear
  <2>4. missed[u] => missed'[u]
    BY <2>2
  <2>5. Clear => missed'[u] \/ pc[u] = "idle" \/ Len(log) = 0
    BY <2>2, <2>3
  <2> QED
    BY <2>1, <2>4, <2>5, SameMapRight
<1>2. ASSUME ~Proc, NEW t \in Tasks, Step(t) \/ User(t)
      PROVE  AllMapped'
  <2>1. MapRight(t)'
    BY <1>2, StepMapRight
  <2>2. ASSUME NEW u \in Tasks \ {t} PROVE MapRight(u)'
    <3>1. Same(u) /\ missed'[u] = missed[u]
      BY <1>2, <1>t, OthersSame, OthersMissed
    <3> QED
      BY <1>2, <3>1, SameMapRight
  <2> QED
    BY <1>t, <2>1, <2>2 DEF AllMapped
<1>3. CASE ~Proc /\ UNCHANGED vars
  <2> SUFFICES ASSUME NEW u \in Tasks PROVE MapRight(u)'
    BY <1>t DEF AllMapped
  <2>1. Same(u) /\ missed' = missed
    BY <1>3 DEF vars, mapVars, Same
  <2> QED
    BY <1>3, <2>1, SameMapRight
<1> QED
  BY <1>1, <1>2, <1>3 DEF Next

LEMMA MappedInit == Init => AllMapped
  BY DEF Init, AllMapped, VmaTypes, MapRight, MapShown, MapXip, MapLogged, InMmap

LEMMA MappedInvariant ==
  ASSUME FilesInTable, RegionLinear
  PROVE  Spec => [](TasksRight /\ LogRight /\ AllMapped)
<1>1. TasksRight /\ LogRight /\ LogRight' /\ AllMapped /\ [Next]_vars => AllMapped'
  BY MappedNext
<1> QED
  BY <1>1, MappedInit, LogInvariant, PTL DEF Spec

-----------------------------------------------------------------------------
(* Of images whose files lie in the node table, on mounts whose region the *)
(* kernel maps where it was told, a mapping shows the pages of its file,   *)
(* each from where it is stored, whoever maps, faults and loses pages at   *)
(* the same time.                                                          *)
THEOREM MapsHold == FilesInTable /\ RegionLinear => (Spec => []MapsRight)
<1> SUFFICES ASSUME FilesInTable, RegionLinear PROVE Spec => []MapsRight
  OBVIOUS
<1>1. TasksRight /\ LogRight /\ AllMapped => MapsRight
  <2> SUFFICES ASSUME TasksRight, LogRight, AllMapped PROVE MapsRight
    OBVIOUS
  <2>1. ASSUME NEW t \in Tasks, pc[t] # "idle"
        PROVE  DOMAIN pte[t] = 0 .. vma[t].pages - 1 /\ count[t] \in 0 .. vma[t].pages
    <3>1. /\ IsRequest(vma[t]) /\ DOMAIN pte[t] = 0 .. vma[t].pages - 1
          /\ count[t] \in Nat /\ vma[t].pages \in Nat
      BY <2>1 DEF TasksRight, TaskRight, IsRequest
    <3>2. 0 \in Nat
      OBVIOUS
    <3>3. NumPages(vma[t]) \in Nat /\ NumPages(vma[t]) <= vma[t].pages
      BY <3>1, <3>2, NumPagesIs
    <3>4. count[t] = 0 \/ count[t] <= NumPages(vma[t])
      BY <2>1, <3>1, <3>3 DEF TasksRight, TaskRight
    <3> QED
      BY <3>1, <3>3, <3>4
  <2>2. TypeOK
    BY <2>1 DEF TypeOK, TasksRight, AllMapped, VmaTypes, LogRight, LogTypes, SemRight
  <2>3. MapsNode
    BY DEF MapsNode, AllMapped, MapRight, MapShown, ShownAs
  <2>4. XipMapped
    BY DEF XipMapped, AllMapped, MapRight, MapXip, XipAt
  <2> QED
    BY <2>2, <2>3, <2>4 DEF MapsRight
<1> QED
  BY <1>1, MappedInvariant, PTL

(* Under the same assumptions, the log holds each page that axfs_mmap has  *)
(* mapped, unless a signal came, the log was full, or someone cleared it.  *)
THEOREM LogHolds == FilesInTable /\ RegionLinear => (Spec => []LogComplete)
<1> SUFFICES ASSUME FilesInTable, RegionLinear PROVE Spec => []LogComplete
  OBVIOUS
<1>1. TasksRight /\ LogRight /\ AllMapped => LogComplete
  <2> SUFFICES ASSUME LogRight, AllMapped, NEW t \in Tasks, pc[t] = "mapped", ~missed[t],
                      NEW i \in DOMAIN pte[t], pte[t][i] # None, pte[t][i][1] = "pfn"
               PROVE  \E k \in 0 .. record_index - 1 :
                        axfs_xip_records[k] =
                          Whole([ino |-> vma[t].ino, frame |-> pte[t][i], t |-> t, i |-> i])
    BY DEF LogComplete
  <2> DEFINE e == [ino |-> vma[t].ino, frame |-> pte[t][i], t |-> t, i |-> i]
  <2>1. LoggedIn(log, t, vma[t], i, pte[t][i])
    BY DEF AllMapped, MapRight, MapLogged, AtRecord
  <2>2. PICK k \in 1 .. Len(log) : log[k] = e
    BY <2>1 DEF LoggedIn
  <2> HIDE DEF e
  <2>3. /\ k - 1 \in 0 .. record_index - 1 /\ (k - 1) + 1 = k
        /\ record_index = Len(log) /\ Len(log) \in Nat
    BY <2>2 DEF LogRight, LogTypes
  <2>4. axfs_xip_records[k - 1] = Whole(log[k])
    BY <2>3 DEF LogRight, LogWhole
  <2> QED
    BY <2>2, <2>3, <2>4 DEF e
<1> QED
  BY <1>1, MappedInvariant, PTL
=============================================================================
