------------------------------- MODULE AxfsMmap -------------------------------
(***************************************************************************)
(* Mapped files (axfs_inode.c): axfs_mmap, which maps the XIP pages of a   *)
(* file at once and records each of them in the log of AxfsXipRecord;      *)
(* axfs_fault, which maps a page when it is first touched and counts the   *)
(* fault for the profile; axfs_get_xip_mem.                                *)
(*                                                                         *)
(* External: vm_insert_pfn sets a page table entry or has no memory for    *)
(* it; generic_file_mmap leaves every page to filemap_fault; xip_file_fault *)
(* and filemap_fault refuse a page beyond the end of the file, and map     *)
(* otherwise the frame that axfs_get_xip_mem tells, or the page of the     *)
(* page cache that readpage has filled.  A task maps one file at a time;   *)
(* a failed mmap leaves no page mapped, and so does munmap.                *)
(***************************************************************************)
EXTENDS AxfsImage, AxfsXipRecord

CONSTANTS
  Tasks,            \* the tasks that map files
  Requests,         \* Requests[t]: what t asks for, see IsRequest
  phys_start_addr,  \* phys_start_addr[m], of mount m; 0: not told
  xip_fsoffset,     \* xip_fsoffset[m]: offset of the XIP region
  xip_virt_addr,    \* xip_virt_addr[m]: where the region is mapped
  PAGE_OFFSET,      \* where the kernel maps physical address 0 (external)
  NoRequest,        \* not a request
  MaxMaps           \* bound: how many mappings a task makes

VARIABLES
  vma,      \* vma[t]: what task t has mapped or is mapping
  pc,       \* pc[t]: where it is
  count,    \* count[t]: axfs_mmap's loop counter
  pte,      \* pte[t]: the page table entries of its mapping
  stray,    \* whether axfs_profiling_add was told of a node that is not the
            \* file's (history)
  maps,     \* maps[t]: how many mappings it has made
  missed    \* missed[t]: a page of this mapping was not recorded, or the log
            \* was cleared since the call began (history)

mapVars == <<vma, pc, count, pte, stray, maps, missed>>
vars == <<mapVars, recordVars, procVars>>

(* A mapping of pages pages of file ino of mount m, from page pgoff on.    *)
IsRequest(q) ==
  /\ q \in [m : Mounts, ino : Nat, pgoff : Nat, pages : Nat \ {0},
            write : BOOLEAN, shared : BOOLEAN, maywrite : BOOLEAN]
  /\ q.ino \in DOMAIN sbi[q.m].inode_file_size

(* What the log may hold: see Entry.                                       *)
Frames == ({"pfn"} \X Mounts \X Nat) \cup ({"any pfn"} \X Mounts)
Entries == [ino : Nat, frame : Frames, t : Tasks, i : Nat]

ASSUME MmapAssumption ==
  /\ \A t \in Tasks : \A q \in Requests[t] : IsRequest(q) /\ q # NoRequest
  /\ NoTask \notin Tasks
  /\ NoEntry \notin Entries
  /\ {phys_start_addr, xip_fsoffset, xip_virt_addr} \subseteq [Mounts -> Nat]
  /\ PAGE_OFFSET \in Nat

(* Page i of a mapping, as a page of the file.                             *)
PageOf(q, i) == [m |-> q.m, ino |-> q.ino, index |-> q.pgoff + i]

AXFS_PHYSADDR_IS_VALID(m) == phys_start_addr[m] > 0

(* The node type at the page's array index, which is any of them behind    *)
(* the end of the table.                                                   *)
NodeTypes(r) ==
  IF ArrayIndex(r) \in DOMAIN sbi[r.m].node_type THEN {NodeType(r)}
  ELSE {XIP, Compressed, Byte_Aligned}

-----------------------------------------------------------------------------
(* Page table entries.                                                     *)

None == <<"none">>
Frame(m, pfn) == <<"pfn", m, pfn>>
CachePage(r) == <<"page", r>>
Wild(m) == <<"any pfn", m>>

(* axfs_mmap: the address of the XIP region, the node in it.               *)
AXFS_GET_XIP_REGION_PHYSADDR(m) == phys_start_addr[m] + xip_fsoffset[m]

(* Behind the end of the table the node index is any number.               *)
XipNodeFrame(r) ==
  IF ArrayIndex(r) \notin DOMAIN sbi[r.m].node_index THEN Wild(r.m)
  ELSE Frame(r.m, (AXFS_GET_XIP_REGION_PHYSADDR(r.m) + NodeIndex(r) * PAGE_CACHE_SIZE)
                    \div PAGE_CACHE_SIZE)

virt_to_phys(v) == v - PAGE_OFFSET

(* axfs_get_xip_mem.                                                       *)
GetXipMem(r) ==
  LET kmem == NodeIndex(r) * PAGE_CACHE_SIZE + xip_virt_addr[r.m]
  IN  Frame(r.m, virt_to_phys(kmem) \div PAGE_CACHE_SIZE)

-----------------------------------------------------------------------------
Init ==
  /\ RecordInit
  /\ vma = [t \in Tasks |-> NoRequest]
  /\ pc = [t \in Tasks |-> "idle"]
  /\ count = [t \in Tasks |-> 0]
  /\ pte = [t \in Tasks |-> <<>>]
  /\ stray = FALSE
  /\ maps = [t \in Tasks |-> 0]
  /\ missed = [t \in Tasks |-> FALSE]

PAGE_ALIGN(n) ==
  ((n + PAGE_CACHE_SIZE - 1) \div PAGE_CACHE_SIZE) * PAGE_CACHE_SIZE

(* Mutant: only what is left of the file is mapped, rounded down.          *)
NumPagesRest(q) ==
  LET rest == sbi[q.m].inode_file_size[q.ino] - q.pgoff * PAGE_CACHE_SIZE
      length == q.pages * PAGE_CACHE_SIZE
  IN  (IF length > rest THEN rest ELSE length) \div PAGE_CACHE_SIZE

(* length and numpages: at most the size of the file, from vm_pgoff on.    *)
NumPages(q) ==
  LET length == q.pages * PAGE_CACHE_SIZE
      i_size == sbi[q.m].inode_file_size[q.ino]
  IN  PAGE_ALIGN(IF length > i_size THEN i_size ELSE length)
        \div PAGE_CACHE_SIZE

(* The mmap system call makes a vma and calls axfs_mmap.                   *)
Call(t, q, next) ==
  /\ pc[t] = "idle" /\ maps[t] < MaxMaps
  /\ maps' = [maps EXCEPT ![t] = @ + 1]
  /\ vma' = [vma EXCEPT ![t] = q]
  /\ pc' = [pc EXCEPT ![t] = next]
  /\ pte' = [pte EXCEPT ![t] = [i \in 0 .. q.pages - 1 |-> None]]
  /\ UNCHANGED <<count, stray, missed, recordVars, procVars>>

Generic(q) == q.write \/ ~AXFS_PHYSADDR_IS_VALID(q.m)

MmapGeneric(t, q) ==
  /\ Generic(q)
  /\ Call(t, q, "generic")

(* -EINVAL.                                                                *)
MmapShared(t, q) ==
  /\ pc[t] = "idle"
  /\ ~Generic(q)
  /\ q.shared /\ q.maywrite
  /\ UNCHANGED vars

(* From here on the mapping has axfs_vm_ops; each AXFS file has readpage.  *)
Mmap(t, q) ==
  /\ ~Generic(q)
  /\ ~(q.shared /\ q.maywrite)
  /\ Call(t, q, "loop")

ThisPage(t) == PageOf(vma[t], count[t])

(* A page of the loop whose type may be XIP, or may be another.            *)
AtXip(t) ==
  pc[t] = "loop" /\ count[t] < NumPages(vma[t]) /\ XIP \in NodeTypes(ThisPage(t))
AtOther(t) ==
  pc[t] = "loop" /\ count[t] < NumPages(vma[t]) /\ NodeTypes(ThisPage(t)) # {XIP}

SkipNode(t) ==
  /\ AtOther(t)
  /\ count' = [count EXCEPT ![t] = @ + 1]
  /\ UNCHANGED <<vma, pc, pte, stray, maps, missed, recordVars, procVars>>

InsertPfn(t) ==
  /\ AtXip(t)
  /\ pte' = [pte EXCEPT ![t][count[t]] = XipNodeFrame(ThisPage(t))]
  /\ pc' = [pc EXCEPT ![t] = "record"]
  /\ UNCHANGED <<vma, count, stray, maps, missed, recordVars, procVars>>

(* The kernel takes the mapping down.                                      *)
Unmap(t) ==
  /\ pc' = [pc EXCEPT ![t] = "idle"]
  /\ vma' = [vma EXCEPT ![t] = NoRequest]
  /\ count' = [count EXCEPT ![t] = 0]
  /\ pte' = [pte EXCEPT ![t] = <<>>]
  /\ missed' = [missed EXCEPT ![t] = FALSE]
  /\ UNCHANGED <<stray, maps, recordVars, procVars>>

(* vm_insert_pfn fails: -EAGAIN.                                           *)
InsertPfnFails(t) == AtXip(t) /\ Unmap(t)

(* What axfs_xip_record is told: the page's addresses and the file's name. *)
Entry(t) ==
  [ino |-> vma[t].ino, frame |-> pte[t][count[t]], t |-> t, i |-> count[t]]

NextPage(t) ==
  /\ pc' = [pc EXCEPT ![t] = "loop"]
  /\ count' = [count EXCEPT ![t] = @ + 1]
  /\ UNCHANGED <<vma, pte, stray, maps>>

(* The result of axfs_xip_record is not looked at.                         *)
NotRecorded(t) ==
  /\ pc[t] = "record"
  /\ NextPage(t)
  /\ missed' = [missed EXCEPT ![t] = TRUE]
  /\ UNCHANGED procVars

Interrupted(t) == NotRecorded(t) /\ RecordInterrupted
LogFull(t) == NotRecorded(t) /\ RecordFull

RecordBegin(t) ==
  /\ pc[t] = "record"
  /\ RecordAddresses(t, Entry(t))
  /\ pc' = [pc EXCEPT ![t] = "recording"]
  /\ UNCHANGED <<vma, count, pte, stray, maps, missed, procVars>>

RecordEnd(t) ==
  /\ pc[t] = "recording"
  /\ RecordName(Entry(t))
  /\ NextPage(t)
  /\ UNCHANGED <<missed, procVars>>

MmapDone(t) ==
  /\ pc[t] = "loop"
  /\ count[t] >= NumPages(vma[t])
  /\ pc' = [pc EXCEPT ![t] = "mapped"]
  /\ count' = [count EXCEPT ![t] = 0]
  /\ UNCHANGED <<vma, pte, stray, maps, missed, recordVars, procVars>>

-----------------------------------------------------------------------------
(* axfs_profiling_add is told of a node that is not one of the file's.  It *)
(* is told nothing of a page that is to be written, and so copied to RAM.  *)
CountsStray(t, r) == ~vma[t].write /\ ~InFile(r)

(* axfs_fault: a page that is not mapped is touched.  Beyond the end of    *)
(* the file it stays so (SIGBUS).                                          *)
Fault(t, i) ==
  LET r == PageOf(vma[t], i)
  IN  /\ pc[t] = "mapped"
      /\ pte[t][i] = None
      /\ stray' = (stray \/ CountsStray(t, r))
      /\ \E type \in NodeTypes(r) :
           pte' = [pte EXCEPT ![t][i] =
                     IF ~InFile(r) THEN None
                     ELSE IF type = XIP THEN GetXipMem(r) ELSE CachePage(r)]
      /\ UNCHANGED <<vma, pc, count, maps, missed, recordVars, procVars>>

(* External: the kernel takes back a page of the page cache.               *)
Reclaim(t, i) ==
  /\ pc[t] = "mapped"
  /\ pte[t][i] = CachePage(PageOf(vma[t], i))
  /\ pte' = [pte EXCEPT ![t][i] = None]
  /\ UNCHANGED <<vma, pc, count, stray, maps, missed, recordVars, procVars>>

(* External: the task makes a private mapping writable.                    *)
Mprotect(t) ==
  /\ pc[t] = "mapped"
  /\ ~vma[t].shared /\ ~vma[t].write
  /\ vma' = [vma EXCEPT ![t].write = TRUE]
  /\ UNCHANGED <<pc, count, pte, stray, maps, missed, recordVars, procVars>>

Munmap(t) == pc[t] \in {"mapped", "generic"} /\ Unmap(t)

(* AxfsXipRecord's other users.  A clear takes the records of everyone.    *)
Proc ==
  /\ ProcNext
  /\ missed' = [t \in Tasks |->
                 missed[t] \/ (pc[t] # "idle" /\ Len(log') < Len(log))]
  /\ UNCHANGED <<vma, pc, count, pte, stray, maps>>

Step(t) ==
  \/ SkipNode(t) \/ InsertPfn(t) \/ InsertPfnFails(t)
  \/ LogFull(t) \/ RecordBegin(t) \/ RecordEnd(t) \/ MmapDone(t)

User(t) ==
  \/ \E q \in Requests[t] : MmapGeneric(t, q) \/ MmapShared(t, q) \/ Mmap(t, q)
  \/ \E i \in DOMAIN pte[t] : Fault(t, i) \/ Reclaim(t, i)
  \/ Interrupted(t) \/ Mprotect(t) \/ Munmap(t)

Next == Proc \/ \E t \in Tasks : Step(t) \/ User(t)

Spec == Init /\ [][Next]_vars

(* A task inside axfs_mmap goes on, and the semaphore queues its waiters;  *)
(* no signal need come.                                                    *)
FairSpec ==
  /\ Spec
  /\ \A t \in Tasks : WF_vars(Step(t)) /\ SF_vars(LogFull(t) \/ RecordBegin(t))

-----------------------------------------------------------------------------
TypeOK ==
  /\ vma \in [Tasks -> [m : Mounts, ino : Nat, pgoff : Nat, pages : Nat,
         write : BOOLEAN, shared : BOOLEAN, maywrite : BOOLEAN] \cup {NoRequest}]
  /\ pc \in [Tasks -> {"idle", "generic", "loop", "record", "recording", "mapped"}]
  /\ count \in [Tasks -> Nat]
  /\ \A t \in Tasks : pc[t] # "idle" =>
       /\ DOMAIN pte[t] = 0 .. vma[t].pages - 1
       /\ count[t] \in 0 .. vma[t].pages
  /\ missed \in [Tasks -> BOOLEAN]
  /\ record_index_sem \in Tasks \cup {NoTask}
  /\ record_index \in 0 .. RECORDS

(* The page of the device that holds the node of page r.                   *)
StoredFrame(r) ==
  Frame(r.m, (phys_start_addr[r.m] + xip_fsoffset[r.m]) \div PAGE_CACHE_SIZE
               + NodeIndex(r))

(* A page of a mapping shows what the image holds of it: the frame of its  *)
(* XIP node, or its page in the page cache; whether axfs_mmap has mapped   *)
(* it or a fault.  A mapping from the beginning of the file on shows       *)
(* nothing beyond the file's end.                                          *)
MapsNode ==
  \A t \in Tasks : \A i \in DOMAIN pte[t] :
    LET r == PageOf(vma[t], i)
    IN  pte[t][i] # None =>
          /\ InFile(r) =>
               pte[t][i] = IF NodeType(r) = XIP THEN StoredFrame(r) ELSE CachePage(r)
          /\ vma[t].pgoff = 0 => InFile(r)

(* Once axfs_mmap has returned, every XIP page of the file that lies in    *)
(* the mapping is mapped, and no touch of it faults ("the function figures *)
(* out which pages are XIP and sets up page tables to directly point to    *)
(* flash regions for those pages").                                        *)
XipMapped ==
  \A t \in Tasks : pc[t] = "mapped" =>
    \A i \in DOMAIN pte[t] :
      LET r == PageOf(vma[t], i)
      IN  InFile(r) /\ NodeType(r) = XIP => pte[t][i] # None

(* The log then holds each page that axfs_mmap has mapped, unless a signal *)
(* came, the log was full, or someone has cleared it.                      *)
LogComplete ==
  \A t \in Tasks : pc[t] = "mapped" /\ ~missed[t] =>
    \A i \in DOMAIN pte[t] : pte[t][i] # None /\ pte[t][i][1] = "pfn" =>
      \E k \in 0 .. record_index - 1 :
        axfs_xip_records[k] =
          Whole([ino |-> vma[t].ino, frame |-> pte[t][i], t |-> t, i |-> i])

(* No page that is not one of the file's is shown, wherever the mapping    *)
(* begins ("Called when a file (or a portion of a file) is to be memory    *)
(* mapped").                                                               *)
NothingBeyond ==
  \A t \in Tasks : \A i \in DOMAIN pte[t] :
    pte[t][i] # None => InFile(PageOf(vma[t], i))

(* A fault is counted for a node of the file it was taken in.              *)
CountedOwn == ~stray

(* A call of axfs_mmap returns, however many tasks contend for the log.    *)
MmapReturns ==
  \A t \in Tasks : pc[t] = "loop" ~> pc[t] \in {"mapped", "idle"}

(* A mapping shows the pages of its file, each from where it is stored,    *)
(* and its XIP pages from the beginning.                                   *)
MapsRight == TypeOK /\ MapsNode /\ XipMapped

(* Assumed of the images where the theorems need it: the nodes of a file   *)
(* lie in the node table ...                                               *)
FilesInTable ==
  \A m \in Mounts : \A ino \in DOMAIN sbi[m].inode_file_size :
    LET page(i) == [m |-> m, ino |-> ino, index |-> i]
    IN  \A i \in 0 .. MaxBlock(page(0)) - 1 :
          ArrayIndex(page(i)) \in DOMAIN sbi[m].node_type

(* ... and of the mounts: where a physical address was told, the kernel    *)
(* maps the region at that address, in its linear mapping.                 *)
RegionLinear ==
  \A m \in Mounts : AXFS_PHYSADDR_IS_VALID(m) =>
    virt_to_phys(xip_virt_addr[m]) = AXFS_GET_XIP_REGION_PHYSADDR(m)
=============================================================================
