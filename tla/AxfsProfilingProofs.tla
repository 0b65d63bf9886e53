-------------------------- MODULE AxfsProfilingProofs --------------------------
(***************************************************************************)
(* Proofs about AxfsProfiling, for any image, any number of tasks, and any *)
(* sizes of reads and rows.                                                *)
(***************************************************************************)
EXTENDS AxfsProfiling, TLAPS

-----------------------------------------------------------------------------
(* What the tasks that count leave in the profile.                         *)

CountTypes ==
  /\ profiling_on \in BOOLEAN
  /\ profile_data \in [Nodes -> [inode_number : Inodes, count : Nat]]
  /\ task \in [Tasks -> [pc : {"idle", "inode", "load", "store"},
                         n : Nat, ino : Nat, count : Nat]]
  /\ started \in 0 .. MaxFaults
  /\ clearing \in 0 .. blocks
  /\ faults \in [Nodes -> Nat]

(* A task that counts is at a node that faults on its file are counted for.*)
AtNode ==
  \A t \in Tasks : task[t].pc # "idle" =>
    task[t].ino \in Files /\ task[t].n \in FaultNodes(task[t].ino)

(* What a task has loaded is no more than the faults that there were.      *)
LoadedSound ==
  \A t \in Tasks : task[t].pc = "store" => task[t].count <= faults[task[t].n]

ClearedFirst == clearing < blocks => cleared

Counts == CountTypes /\ AtNode /\ LoadedSound /\ ClearedFirst /\ CountSound

(* An inode recorded for a node is that of a file that faults there.       *)
OwnerRight ==
  \A n \in Nodes :
    LET ino == profile_data[n].inode_number IN ino # Root => ino \in Faulters(n)

(* Unless the profile is cleared, an inode is recorded before the count,   *)
(* and stays recorded.                                                     *)
OwnerFirst ==
  ~cleared =>
    /\ \A n \in Nodes :
         profile_data[n].count # 0 => profile_data[n].inode_number # Root
    /\ \A t \in Tasks : task[t].pc \in {"load", "store"} =>
         profile_data[task[t].n].inode_number # Root

Owners == OwnerRight /\ OwnerFirst

-----------------------------------------------------------------------------
LEMMA PagesAreNodes ==
  ASSUME NEW f \in Files
  PROVE  FaultNodes(f) \subseteq Nodes
<1> SUFFICES ASSUME NEW p \in FaultPages[f]
             PROVE  inode_array_index[f] + p \in Nodes
  BY DEF FaultNodes
<1>1. inode_array_index[f] \in Nat /\ p \in Nat /\ blocks \in Nat
      /\ inode_array_index[f] + p < blocks
  BY ProfilingAssumption DEF Inodes
<1> QED
  BY <1>1 DEF Nodes

LEMMA CountsInit == Init => Counts
<1> SUFFICES ASSUME Init PROVE Counts
  OBVIOUS
<1>1. blocks \in Nat /\ MaxFaults \in Nat
  BY ProfilingAssumption
<1>2. CountTypes
  BY <1>1 DEF Init, CountTypes, Unused, Inodes, Root
<1>3. AtNode /\ LoadedSound
  BY DEF Init, AtNode, LoadedSound
<1>4. ClearedFirst
  BY <1>1 DEF Init, ClearedFirst
<1>5. CountSound
  BY DEF Init, CountSound, Unused
<1> QED
  BY <1>2, <1>3, <1>4, <1>5 DEF Counts

(* A step of one task that counts, at its node n.                          *)
LEMMA NodeOf ==
  ASSUME Counts, NEW t \in Tasks, task[t].pc # "idle"
  PROVE  /\ task[t].n \in Nodes /\ task[t].ino \in Files
         /\ task[t].n \in FaultNodes(task[t].ino)
BY PagesAreNodes DEF Counts, AtNode

LEMMA CountsNext == Counts /\ [Next]_vars => Counts'
<1> SUFFICES ASSUME Counts, [Next]_vars PROVE Counts'
  OBVIOUS
<1> USE DEF Counts
<1>1. ASSUME NEW t \in Tasks, NEW f \in Files, NEW n \in FaultNodes(f), Fault(t, f, n)
      PROVE  Counts'
  <2>1. n \in Nodes /\ n \in Nat /\ f \in Nat
    BY PagesAreNodes, ProfilingAssumption DEF Nodes
  <2>2. CountTypes'
    BY <1>1, <2>1, ProfilingAssumption DEF Fault, CountTypes
  <2>3. AtNode' /\ LoadedSound'
    BY <1>1, <2>1 DEF Fault, CountTypes, AtNode, LoadedSound
  <2>4. ClearedFirst' /\ CountSound'
    BY <1>1 DEF Fault, ClearedFirst, CountSound
  <2> QED
    BY <2>2, <2>3, <2>4
<1>2. ASSUME NEW t \in Tasks, StoreInode(t)
      PROVE  Counts'
  <2>1. task[t].n \in Nodes /\ task[t].ino \in Files
    BY <1>2, NodeOf DEF StoreInode
  <2>2. CountTypes'
    BY <1>2, <2>1 DEF StoreInode, CountTypes, Inodes
  <2>3. AtNode' /\ LoadedSound'
    BY <1>2 DEF StoreInode, CountTypes, AtNode, LoadedSound
  <2>4. ClearedFirst' /\ CountSound'
    BY <1>2, <2>1 DEF StoreInode, CountTypes, ClearedFirst, CountSound
  <2> QED
    BY <2>2, <2>3, <2>4
<1>3. ASSUME NEW t \in Tasks, LoadCount(t)
      PROVE  Counts'
  <2>1. task[t].n \in Nodes
    BY <1>3, NodeOf DEF LoadCount
  <2>2. CountTypes'
    BY <1>3, <2>1 DEF LoadCount, CountTypes
  <2>3. AtNode' /\ LoadedSound'
    BY <1>3, <2>1 DEF LoadCount, CountTypes, AtNode, LoadedSound, CountSound
  <2>4. ClearedFirst' /\ CountSound'
    BY <1>3 DEF LoadCount, ClearedFirst, CountSound
  <2> QED
    BY <2>2, <2>3, <2>4
<1>4. ASSUME NEW t \in Tasks, StoreCount(t)
      PROVE  Counts'
  <2>1. task[t].n \in Nodes
    BY <1>4, NodeOf DEF StoreCount
  <2>2. CountTypes'
    BY <1>4, <2>1 DEF StoreCount, CountTypes, Root
  <2>3. AtNode' /\ LoadedSound'
    BY <1>4, <2>1, NodeOf DEF StoreCount, CountTypes, AtNode, LoadedSound
  <2>4. ClearedFirst' /\ CountSound'
    BY <1>4, <2>1 DEF StoreCount, CountTypes, ClearedFirst, CountSound, LoadedSound
  <2> QED
    BY <2>2, <2>3, <2>4
<1>5. CASE Write
  <2>1. CASE Switch
    BY <1>5, <2>1 DEF Switch, CountTypes, AtNode, LoadedSound, ClearedFirst, CountSound
  <2>2. CASE Clear
    BY <1>5, <2>2, ProfilingAssumption
    DEF Clear, CountTypes, AtNode, LoadedSound, ClearedFirst, CountSound
  <2>3. CASE ClearNode
    <3>1. clearing \in Nodes /\ clearing + 1 \in 0 .. blocks
      BY <2>3, ProfilingAssumption DEF ClearNode, CountTypes, Nodes
    <3>2. CountTypes'
      BY <2>3, <3>1 DEF ClearNode, CountTypes, Unused, Inodes, Root
    <3>3. AtNode' /\ LoadedSound' /\ ClearedFirst'
      BY <2>3 DEF ClearNode, AtNode, LoadedSound, ClearedFirst
    <3>4. CountSound'
      <4>1. cleared /\ cleared' /\ faults' = faults
        BY <2>3 DEF ClearNode, ClearedFirst
      <4>2. \A n \in Nodes : profile_data'[n].count = 0 \/ profile_data'[n] = profile_data[n]
        BY <2>3 DEF ClearNode, CountTypes, Unused
      <4>3. \A n \in Nodes : faults[n] \in Nat
        BY DEF CountTypes
      <4> QED
        BY <4>1, <4>2, <4>3 DEF CountSound
    <3> QED
      BY <3>2, <3>3, <3>4
  <2> QED
    BY <1>5, <2>1, <2>2, <2>3 DEF Write
<1>6. ASSUME NEW size \in ReadSizes, Open(size)
      PROVE  Counts'
  BY <1>6 DEF Open, CountTypes, AtNode, LoadedSound, ClearedFirst, CountSound
<1>7. CASE Read
  <2>1. UNCHANGED <<profiling_on, profile_data, task, started, clearing, faults, cleared>>
    BY <1>7
    DEF Read, UserRead, ReadProc, RowCheck, RowPath, RowIndex, RowName, RowPrint,
        ReadReturns, Close
  <2> QED
    BY <2>1 DEF CountTypes, AtNode, LoadedSound, ClearedFirst, CountSound
<1>8. CASE UNCHANGED vars
  BY <1>8 DEF vars, CountTypes, AtNode, LoadedSound, ClearedFirst, CountSound
<1> QED
  BY <1>1, <1>2, <1>3, <1>4, <1>5, <1>6, <1>7, <1>8 DEF Next, Add

LEMMA CountsInvariant == Spec => []Counts
  BY CountsInit, CountsNext, PTL DEF Spec

(* However many tasks count at once, no count is above the number of       *)
(* faults, and none that was ever counted goes back to nothing unless the  *)
(* profile is cleared.                                                     *)
THEOREM CountsHold == Spec => []CountSound
  BY CountsInvariant, PTL DEF Counts

LEMMA OwnersInit == Init => Owners
  BY DEF Init, Owners, OwnerRight, OwnerFirst, Unused, Root

LEMMA OwnersNext == Counts /\ Owners /\ [Next]_vars => Owners'
<1> SUFFICES ASSUME Counts, Owners, [Next]_vars PROVE Owners'
  OBVIOUS
<1> USE DEF Owners
<1>t. /\ profile_data \in [Nodes -> [inode_number : Inodes, count : Nat]]
      /\ task \in [Tasks -> [pc : {"idle", "inode", "load", "store"},
                             n : Nat, ino : Nat, count : Nat]]
  BY DEF Counts, CountTypes
<1>1. ASSUME NEW t \in Tasks, NEW f \in Files, NEW n \in FaultNodes(f), Fault(t, f, n)
      PROVE  Owners'
  <2>1. /\ profile_data' = profile_data /\ (cleared' <=> cleared)
        /\ \A u \in Tasks : task'[u].pc \in {"load", "store"} => task'[u] = task[u]
    BY <1>t, <1>1 DEF Fault
  <2>2. OwnerRight'
    BY <2>1 DEF OwnerRight
  <2> QED
    BY <2>1, <2>2 DEF OwnerFirst
<1>2. ASSUME NEW t \in Tasks, StoreInode(t)
      PROVE  Owners'
  <2>1. /\ task[t].n \in Nodes /\ task[t].ino \in Files /\ task[t].ino # Root
        /\ task[t].n \in FaultNodes(task[t].ino)
    BY <1>2, NodeOf, ProfilingAssumption DEF StoreInode, Root
  <2>2. \A n \in Nodes :
          profile_data'[n] = IF n = task[t].n
                             THEN [profile_data[n] EXCEPT !.inode_number = task[t].ino]
                             ELSE profile_data[n]
    BY <1>t, <1>2 DEF StoreInode
  <2>3. \A n \in Nodes :
          /\ profile_data'[n].count = profile_data[n].count
          /\ profile_data'[n].inode_number =
               IF n = task[t].n THEN task[t].ino ELSE profile_data[n].inode_number
    BY <1>t, <2>2
  <2>4. OwnerRight'
    BY <2>1, <2>3 DEF OwnerRight, Faulters
  <2>5. ASSUME ~cleared
        PROVE  /\ \A n \in Nodes :
                    profile_data'[n].count # 0 => profile_data'[n].inode_number # Root
               /\ \A u \in Tasks : task'[u].pc \in {"load", "store"} =>
                    profile_data'[task'[u].n].inode_number # Root
    <3>1. \A n \in Nodes : profile_data[n].inode_number # Root =>
            profile_data'[n].inode_number # Root
      BY <2>1, <2>3
    <3>2. \A u \in Tasks : task'[u].n = task[u].n /\ (u # t => task'[u] = task[u])
      BY <1>t, <1>2 DEF StoreInode
    <3>3. \A u \in Tasks : task[u].pc \in {"load", "store"} => task[u].n \in Nodes
      BY NodeOf
    <3> QED
      BY <2>1, <2>3, <2>5, <3>1, <3>2, <3>3 DEF OwnerFirst
  <2> QED
    BY <1>2, <2>4, <2>5 DEF StoreInode, OwnerFirst
<1>3. ASSUME NEW t \in Tasks, LoadCount(t)
      PROVE  Owners'
  BY <1>t, <1>3 DEF LoadCount, OwnerRight, OwnerFirst
<1>4. ASSUME NEW t \in Tasks, StoreCount(t)
      PROVE  Owners'
  <2>1. task[t].n \in Nodes
    BY <1>4, NodeOf DEF StoreCount
  <2>2. \A n \in Nodes :
          /\ profile_data'[n].inode_number = profile_data[n].inode_number
          /\ n # task[t].n => profile_data'[n].count = profile_data[n].count
    BY <1>t, <1>4 DEF StoreCount
  <2>3. OwnerRight'
    BY <2>2 DEF OwnerRight
  <2>4. \A u \in Tasks : task[u].pc \in {"load", "store"} => task[u].n \in Nodes
    BY NodeOf
  <2>5. \A u \in Tasks :
          task'[u].pc \in {"load", "store"} => task'[u] = task[u]
    BY <1>t, <1>4 DEF StoreCount
  <2> QED
    BY <1>4, <2>1, <2>2, <2>3, <2>4, <2>5 DEF StoreCount, OwnerFirst
<1>5. CASE Switch
  BY <1>5 DEF Switch, OwnerRight, OwnerFirst
<1>6. CASE Clear
  BY <1>6 DEF Clear, OwnerRight, OwnerFirst
<1>7. CASE ClearNode
  <2>1. cleared'
    BY <1>7 DEF ClearNode, Counts, ClearedFirst
  <2>2. \A n \in Nodes :
          profile_data'[n].inode_number \in {Root, profile_data[n].inode_number}
    BY <1>t, <1>7 DEF ClearNode, Unused, Root
  <2> QED
    BY <2>1, <2>2 DEF OwnerRight, OwnerFirst
<1>8. CASE (\E size \in ReadSizes : Open(size)) \/ Read \/ UNCHANGED vars
  <2>1. UNCHANGED <<profile_data, task, cleared>>
    BY <1>8
    DEF Open, Read, UserRead, ReadProc, RowCheck, RowPath, RowIndex, RowName,
        RowPrint, ReadReturns, Close, vars
  <2> QED
    BY <2>1 DEF OwnerRight, OwnerFirst
<1> QED
  BY <1>1, <1>2, <1>3, <1>4, <1>5, <1>6, <1>7, <1>8 DEF Next, Add, Write

LEMMA OwnersInvariant == Spec => []Owners
  BY OwnersInit, OwnersNext, CountsInvariant, PTL DEF Spec

-----------------------------------------------------------------------------
(* Where the reader is.  In the loop it is at node i, which has a count    *)
(* once it has been looked at; elsewhere it will go on from offset.        *)

InLoop == {"loop", "path", "index", "name", "count"}
InRow == InLoop \ {"loop"}
At == IF rd.pc \in InLoop THEN rd.i ELSE rd.offset

Readers ==
  [pc : {"idle", "user", "call", "loop", "path", "index", "name", "count", "eof"},
   size : Nat, nbytes : Nat, retval : Nat, offset : Nat, i : Nat, print_len : Nat,
   path : Inodes \cup {NoPath}, array_index : Nat, name : Inodes]
RowRecords ==
  [n : Nodes, path : Inodes \cup {NoPath}, page : Int, name : Inodes, count : Nat]

ReaderTypes ==
  /\ rd \in Readers
  /\ rows \in Seq(RowRecords)
  /\ rd.nbytes <= rd.size /\ rd.offset <= blocks /\ rd.i <= blocks
  /\ rd.pc = "idle" => rd.nbytes = 0
  /\ rd.pc = "loop" => rd.print_len <= BufferLength
  /\ rd.pc \in InRow => rd.i < blocks /\ Room

(* What was printed since the last call began is counted in print_len.     *)
Position ==
  /\ rd.pc \in InLoop => rd.offset <= rd.i
  /\ \A k \in DOMAIN rows : rows[k].n < At
  /\ rd.pc \in InLoop /\ rd.print_len = 0 =>
       \A k \in DOMAIN rows : rows[k].n < rd.offset

(* The parts of the row that have been read are of files that fault there. *)
IndexTold(index, n) == \E ino \in Told(n) : index = inode_array_index[ino]

PartsTold ==
  /\ rd.pc \in InRow => Recorded \in Told(rd.i)
  /\ rd.pc \in {"index", "name", "count"} => PathTold(rd.path, rd.i)
  /\ rd.pc \in {"name", "count"} => IndexTold(rd.array_index, rd.i)
  /\ rd.pc = "count" => rd.name \in Told(rd.i)

Reader == ReaderTypes /\ Position /\ PartsTold /\ RowsTrue /\ RowsOnce

LEMMA ReaderInit == Init => Reader
<1> SUFFICES ASSUME Init PROVE Reader
  OBVIOUS
<1>1. blocks \in Nat
  BY ProfilingAssumption
<1>2. rows = <<>> /\ rd.pc = "idle" /\ rd.nbytes <= rd.size
  BY DEF Init
<1>3. ReaderTypes
  BY <1>1, <1>2 DEF Init, ReaderTypes, Readers, Inodes, Root, InLoop, InRow
<1> QED
  BY <1>2, <1>3 DEF Reader, Position, PartsTold, RowsTrue, RowsOnce, InLoop, InRow

(* Whoever steps, a node has an inode recorded that a row of it may tell.  *)
LEMMA RecordedKept ==
  ASSUME Counts, [Next]_vars
  PROVE  /\ cleared => cleared'
         /\ \A n \in Nodes : profile_data[n].inode_number \in Told(n) =>
              profile_data'[n].inode_number \in Told(n)'
<1>t. profile_data \in [Nodes -> [inode_number : Inodes, count : Nat]]
  BY DEF Counts, CountTypes
<1>1. cleared => cleared'
  BY DEF Next, Add, StoreInode, LoadCount, StoreCount, Fault, Write, Switch, Clear,
         ClearNode, Open, Read, UserRead, ReadProc, RowCheck, RowPath, RowIndex,
         RowName, RowPrint, ReadReturns, Close, vars
<1>2. \A n \in Nodes : Told(n) \subseteq Told(n)' /\ Faulters(n) \subseteq Told(n)'
  BY <1>1 DEF Told
<1>3. ASSUME NEW t \in Tasks, StoreInode(t)
      PROVE  \A n \in Nodes :
               profile_data'[n].inode_number \in
                 {profile_data[n].inode_number} \cup Faulters(n)
  <2>1. task[t].n \in Nodes /\ task[t].ino \in Faulters(task[t].n)
    BY <1>3, NodeOf DEF StoreInode, Faulters
  <2> QED
    BY <1>t, <1>3, <2>1 DEF StoreInode
<1>4. ASSUME NEW t \in Tasks, StoreCount(t)
      PROVE  \A n \in Nodes : profile_data'[n].inode_number = profile_data[n].inode_number
  <2>1. task[t].n \in Nodes
    BY <1>4, NodeOf DEF StoreCount
  <2> QED
    BY <1>t, <1>4, <2>1 DEF StoreCount
<1>5. CASE ClearNode
  <2>1. cleared' /\ \A n \in Nodes :
          profile_data'[n].inode_number \in {Root, profile_data[n].inode_number}
    BY <1>t, <1>5 DEF ClearNode, Counts, ClearedFirst, Unused, Root
  <2>2. \A n \in Nodes : Root \in Told(n)'
    BY <2>1 DEF Told
  <2> QED
    BY <1>1, <1>2, <2>1, <2>2
<1>6. CASE \/ \E t \in Tasks : LoadCount(t)
           \/ \E t \in Tasks, f \in Files : \E n \in FaultNodes(f) : Fault(t, f, n)
           \/ Switch \/ Clear \/ (\E size \in ReadSizes : Open(size)) \/ Read
           \/ UNCHANGED vars
  <2>1. profile_data' = profile_data
    BY <1>6
    DEF LoadCount, Fault, Switch, Clear, Open, Read, UserRead, ReadProc, RowCheck,
        RowPath, RowIndex, RowName, RowPrint, ReadReturns, Close, vars
  <2> QED
    BY <1>1, <1>2, <2>1
<1> QED
  BY <1>1, <1>2, <1>3, <1>4, <1>5, <1>6 DEF Next, Add, Write

(* No one but the reader moves it.                                         *)
LEMMA ReaderAlone ==
  ASSUME [Next]_vars, ~Read, \A size \in ReadSizes : ~Open(size)
  PROVE  UNCHANGED <<rd, rows>>
BY DEF Next, Add, Fault, StoreInode, LoadCount, StoreCount, Write, Switch, Clear,
       ClearNode, vars

LEMMA ReaderTypesNext ==
  ASSUME RowsFit, Counts, Reader, [Next]_vars
  PROVE  ReaderTypes'
<1> USE DEF Reader
<1>b. /\ blocks \in Nat /\ PROC_BLOCK_SIZE \in Nat /\ MAX_STRING_LEN \in Nat \ {0}
      /\ ReadSizes \subseteq Nat \ {0}
      /\ LongestRow \in Nat \ {0} /\ LongestRow <= MAX_STRING_LEN
  BY ProfilingAssumption DEF RowsFit
<1>d. profile_data \in [Nodes -> [inode_number : Inodes, count : Nat]]
  BY DEF Counts, CountTypes
<1>i. /\ rd \in Readers /\ rows \in Seq(RowRecords) /\ rd.nbytes <= rd.size
      /\ rd.offset <= blocks /\ rd.i <= blocks
  BY DEF ReaderTypes
<1> USE DEF InLoop, InRow, Readers
<1>1. ASSUME NEW size \in ReadSizes, Open(size)
      PROVE  ReaderTypes'
  <2>1. rd' = [rd EXCEPT !.pc = "user", !.size = size, !.offset = 0] /\ rd.nbytes = 0
    BY <1>1 DEF Open, ReaderTypes
  <2>2. rd' \in Readers
    BY <1>b, <1>i, <2>1
  <2>3. rd'.pc = "user" /\ rd'.nbytes <= rd'.size /\ rd'.offset <= blocks /\ rd'.i <= blocks
    BY <1>b, <1>i, <2>1
  <2>4. rows' \in Seq(RowRecords)
    BY <1>1 DEF Open
  <2> QED
    BY <2>2, <2>3, <2>4 DEF ReaderTypes
<1>2. CASE UserRead
  <2>1. rd' \in Readers
    BY <1>i, <1>2 DEF UserRead
  <2>2. rd'.pc = "call" /\ rd'.nbytes <= rd'.size /\ rd'.offset <= blocks /\ rd'.i <= blocks
    BY <1>i, <1>2 DEF UserRead
  <2>3. rows' = rows
    BY <1>2 DEF UserRead
  <2> QED
    BY <1>i, <2>1, <2>2, <2>3 DEF ReaderTypes
<1>3. CASE ReadProc
  <2>1. rd' \in Readers /\ rd'.nbytes = rd.nbytes /\ rd'.size = rd.size
    BY <1>b, <1>i, <1>3 DEF ReadProc, UserReadEnds
  <2>2. rd'.pc \in {"user", "eof", "loop"} /\ (rd'.pc = "loop" => rd'.print_len = 0)
        /\ rd'.offset <= blocks /\ rd'.i <= blocks
    BY <1>b, <1>i, <1>3 DEF ReadProc, UserReadEnds
  <2>3. BufferLength' \in Nat
    BY <1>b, <2>1 DEF BufferLength
  <2>4. rows' = rows
    BY <1>3 DEF ReadProc
  <2> QED
    BY <1>i, <2>1, <2>2, <2>3, <2>4 DEF ReaderTypes
<1>4. CASE RowCheck
  <2>1. /\ rd' \in Readers /\ rd'.nbytes = rd.nbytes /\ rd'.size = rd.size
        /\ rd'.print_len = rd.print_len
    <3>1. rd.i + 1 \in Nat
      BY <1>i
    <3>2. rd' = [rd EXCEPT !.pc = "path"] \/ rd' = [rd EXCEPT !.i = rd.i + 1]
      BY <1>4 DEF RowCheck, AfterNode
    <3> QED
      BY <1>i, <3>1, <3>2
  <2>2. rd'.pc \in {"loop", "path"} /\ (rd'.pc = "path" => rd'.i < blocks)
        /\ rd'.offset <= blocks /\ rd'.i <= blocks
    BY <1>b, <1>i, <1>4 DEF RowCheck, AfterNode
  <2>3. BufferLength' = BufferLength /\ rd.print_len <= BufferLength /\ Room
    BY <1>4, <2>1 DEF RowCheck, BufferLength, ReaderTypes
  <2>4. rows' = rows
    BY <1>4 DEF RowCheck
  <2> QED
    BY <1>i, <2>1, <2>2, <2>3, <2>4 DEF ReaderTypes, Room
<1>5. CASE RowPath \/ RowIndex \/ RowName
  <2>1. Recorded \in Inodes /\ inode_array_index[Recorded] \in Nat
    <3>1. rd.i \in Nodes
      <4>1. rd.pc \in {"path", "index", "name", "count"}
        BY <1>5 DEF RowPath, RowIndex, RowName
      <4>2. rd.i < blocks /\ rd.i \in Nat
        BY <1>i, <4>1 DEF ReaderTypes
      <4> QED
        BY <1>b, <4>2 DEF Nodes
    <3> QED
      BY <1>d, <3>1, ProfilingAssumption DEF Recorded
  <2>2. CASE RowPath
    <3>1. PICK path \in Inodes \cup {NoPath} :
            rd' = [rd EXCEPT !.pc = "index", !.path = path]
      BY <2>1, <2>2 DEF RowPath
    <3>2. rd' \in Readers /\ rd' = [rd EXCEPT !.pc = "index", !.path = path]
      BY <1>i, <3>1 DEF Readers
    <3>3. rd.i < blocks /\ Room /\ rows' = rows
      BY <2>2 DEF RowPath, ReaderTypes
    <3> QED
      BY <1>i, <3>2, <3>3 DEF ReaderTypes, Room, BufferLength, Readers
  <2>3. CASE RowIndex
    <3>1. rd' \in Readers
      BY <1>i, <2>1, <2>3 DEF RowIndex, Readers
    <3>2. rd.i < blocks /\ Room /\ rows' = rows
      BY <2>3 DEF RowIndex, ReaderTypes
    <3> QED
      BY <1>i, <2>3, <3>1, <3>2 DEF RowIndex, ReaderTypes, Room, BufferLength, Readers
  <2>4. CASE RowName
    <3>1. rd' \in Readers
      BY <1>i, <2>1, <2>4 DEF RowName, Readers
    <3>2. rd.i < blocks /\ Room /\ rows' = rows
      BY <2>4 DEF RowName, ReaderTypes
    <3> QED
      BY <1>i, <2>4, <3>1, <3>2 DEF RowName, ReaderTypes, Room, BufferLength, Readers
  <2> QED
    BY <1>5, <2>2, <2>3, <2>4
<1>6. CASE RowPrint
  <2>1. rd.i \in Nodes /\ rd.i \in Nat /\ rd.pc = "count"
    BY <1>b, <1>i, <1>6 DEF RowPrint, ReaderTypes, Readers, Nodes
  <2>2. PICK len \in 1 .. LongestRow :
          rd' = [rd EXCEPT !.pc = "loop", !.i = rd.i + 1,
                           !.print_len = rd.print_len + len]
    BY <1>6 DEF RowPrint
  <2>3. Row(rd.i) \in RowRecords
    <3>1. /\ profile_data[rd.i].count \in Nat
          /\ rd.path \in Inodes \cup {NoPath} /\ rd.name \in Inodes
          /\ rd.array_index \in Nat
      BY <1>d, <1>i, <2>1 DEF Readers
    <3>2. rd.i - rd.array_index \in Int
      BY <2>1, <3>1
    <3> QED
      BY <2>1, <3>1, <3>2 DEF Row, RowRecords
  <2>4. rows' = Append(rows, Row(rd.i))
    BY <1>6 DEF RowPrint
  <2>5. rows' \in Seq(RowRecords)
    BY <1>i, <2>3, <2>4
  <2>6. /\ rd.i < blocks /\ rd.print_len + MAX_STRING_LEN <= BufferLength
        /\ BufferLength \in Nat /\ rd.print_len \in Nat
    BY <1>b, <1>i, <2>1 DEF ReaderTypes, Readers, Room, BufferLength
  <2>7. rd'.pc = "loop" /\ BufferLength' = BufferLength /\ rd'.print_len <= BufferLength
        /\ rd'.nbytes <= rd'.size /\ rd'.offset <= blocks /\ rd'.i <= blocks
    BY <1>b, <1>i, <2>1, <2>2, <2>6 DEF BufferLength, Readers
  <2>8. rd' \in Readers
    <3>1. rd.i + 1 \in Nat /\ rd.print_len + len \in Nat
      BY <1>b, <2>1, <2>6
    <3> QED
      BY <1>i, <2>2, <3>1 DEF Readers
  <2> QED
    BY <2>5, <2>7, <2>8 DEF ReaderTypes
<1>7. CASE ReadReturns
  <2>1. BufferLength <= rd.nbytes /\ rd.pc = "loop" /\ rd.print_len <= BufferLength
        /\ BufferLength \in Nat
    BY <1>b, <1>i, <1>7 DEF ReadReturns, ReaderTypes, BufferLength
  <2>2. NewOffset = rd.i
    BY <1>i, <1>b DEF NewOffset
  <2>3. rd' \in Readers /\ rd'.pc \in {"user", "call", "eof"}
    <3>1. rd.nbytes - rd.print_len \in Nat /\ rd.retval + rd.print_len \in Nat
      BY <1>i, <2>1
    <3>2. CASE rd.print_len = 0
      <4>1. rd' \in {[rd EXCEPT !.pc = "eof"], [rd EXCEPT !.pc = "user"]}
        BY <1>7, <3>2 DEF ReadReturns, UserReadEnds
      <4> QED
        BY <1>i, <4>1
    <3>3. CASE rd.print_len # 0
      <4>1. PICK p \in {"user", "call"} :
              rd' = [rd EXCEPT !.pc = p, !.nbytes = rd.nbytes - rd.print_len,
                               !.retval = rd.retval + rd.print_len, !.offset = rd.i]
        BY <1>7, <2>2, <3>3 DEF ReadReturns
      <4> QED
        BY <1>i, <3>1, <4>1
    <3> QED
      BY <3>2, <3>3
  <2>4. rd'.nbytes <= rd'.size /\ rd'.offset <= blocks /\ rd'.i <= blocks
    BY <1>b, <1>i, <1>7, <2>1, <2>2 DEF ReadReturns
  <2>5. rows' = rows
    BY <1>7 DEF ReadReturns
  <2> QED
    BY <2>3, <2>4, <2>5 DEF ReaderTypes
<1>8. CASE Close
  <2>1. rd'.pc = "idle" /\ rd'.nbytes = 0 /\ rd'.size = 0 /\ rd'.offset <= blocks /\ rd'.i <= blocks
    BY <1>b, <1>i, <1>8 DEF Close
  <2>2. rd' \in Readers
    BY <1>b, <1>i, <1>8 DEF Close, Inodes, Root
  <2>3. rows' \in Seq(RowRecords)
    BY <1>8 DEF Close
  <2> QED
    BY <2>1, <2>2, <2>3 DEF ReaderTypes
<1>9. CASE ~Read /\ (\A size \in ReadSizes : ~Open(size))
  BY <1>9, ReaderAlone DEF ReaderTypes, BufferLength, Room
<1> QED
  BY <1>1, <1>2, <1>3, <1>4, <1>5, <1>6, <1>7, <1>8, <1>9 DEF Read

-----------------------------------------------------------------------------
(* The fields of the reader's record, step by step.                        *)
LEMMA ReaderSteps ==
  ASSUME ReaderTypes
  PROVE  /\ \A size \in ReadSizes : Open(size) =>
              rd'.pc = "user" /\ rd'.offset = 0 /\ rd'.size = size
         /\ UserRead =>
              rd'.pc = "call" /\ rd'.offset = rd.offset /\ rd'.size = rd.size
              /\ rd'.nbytes = rd.size
         /\ ReadProc =>
              /\ rd'.offset = rd.offset /\ rd'.size = rd.size
              /\ rd'.nbytes = rd.nbytes /\ rd'.retval = rd.retval
              /\ IF rd.offset >= blocks
                 THEN rd'.pc \in {"eof", "user"}
                 ELSE rd'.pc = "loop" /\ rd'.i = rd.offset /\ rd'.print_len = 0
         /\ RowCheck =>
              /\ rd'.offset = rd.offset /\ rd'.size = rd.size
              /\ rd'.nbytes = rd.nbytes /\ rd'.retval = rd.retval
              /\ rd'.print_len = rd.print_len
              /\ IF profile_data[rd.i].count # 0
                 THEN rd'.pc = "path" /\ rd'.i = rd.i
                 ELSE rd'.pc = "loop" /\ rd'.i = rd.i + 1
         /\ RowPath \/ RowIndex \/ RowName =>
              /\ rd'.offset = rd.offset /\ rd'.size = rd.size
              /\ rd'.nbytes = rd.nbytes /\ rd'.retval = rd.retval
              /\ rd'.print_len = rd.print_len /\ rd'.i = rd.i
              /\ rd'.pc \in {"index", "name", "count"}
         /\ RowPrint =>
              /\ rd'.offset = rd.offset /\ rd'.size = rd.size
              /\ rd'.nbytes = rd.nbytes /\ rd'.retval = rd.retval
              /\ rd'.print_len \in Nat \ {0} /\ rd'.i = rd.i + 1
              /\ rd'.pc = "loop"
         /\ ReadReturns =>
              /\ rd'.size = rd.size
              /\ IF rd.print_len = 0
                 THEN /\ rd'.pc \in {"eof", "user"} /\ rd'.offset = rd.offset
                      /\ rd'.pc = "eof" <=> rd.retval = 0
                 ELSE /\ rd'.pc \in {"user", "call"} /\ rd'.offset = rd.i
                      /\ rd'.retval \in Nat \ {0}
         /\ Close => rd'.pc = "idle"
<1>t. rd \in Readers
  BY DEF ReaderTypes
<1> USE DEF Readers
<1>1. \A size \in ReadSizes : Open(size) =>
        rd'.pc = "user" /\ rd'.offset = 0 /\ rd'.size = size
  BY <1>t DEF Open
<1>2. ASSUME UserRead
      PROVE  /\ rd'.pc = "call" /\ rd'.offset = rd.offset /\ rd'.size = rd.size
             /\ rd'.nbytes = rd.size
  BY <1>t, <1>2 DEF UserRead
<1>3. ASSUME ReadProc
      PROVE  /\ rd'.offset = rd.offset /\ rd'.size = rd.size
             /\ rd'.nbytes = rd.nbytes /\ rd'.retval = rd.retval
             /\ IF rd.offset >= blocks
                THEN rd'.pc \in {"eof", "user"}
                ELSE rd'.pc = "loop" /\ rd'.i = rd.offset /\ rd'.print_len = 0
  BY <1>t, <1>3 DEF ReadProc, UserReadEnds
<1>4. ASSUME RowCheck
      PROVE  /\ rd'.offset = rd.offset /\ rd'.size = rd.size
             /\ rd'.nbytes = rd.nbytes /\ rd'.retval = rd.retval
             /\ rd'.print_len = rd.print_len
             /\ IF profile_data[rd.i].count # 0
                THEN rd'.pc = "path" /\ rd'.i = rd.i
                ELSE rd'.pc = "loop" /\ rd'.i = rd.i + 1
  BY <1>t, <1>4 DEF RowCheck, AfterNode
<1>5. ASSUME RowPath \/ RowIndex \/ RowName
      PROVE  /\ rd'.offset = rd.offset /\ rd'.size = rd.size
             /\ rd'.nbytes = rd.nbytes /\ rd'.retval = rd.retval
             /\ rd'.print_len = rd.print_len /\ rd'.i = rd.i
             /\ rd'.pc \in {"index", "name", "count"}
  BY <1>t, <1>5 DEF RowPath, RowIndex, RowName
<1>6. ASSUME RowPrint
      PROVE  /\ rd'.offset = rd.offset /\ rd'.size = rd.size
             /\ rd'.nbytes = rd.nbytes /\ rd'.retval = rd.retval
             /\ rd'.print_len \in Nat \ {0} /\ rd'.i = rd.i + 1
             /\ rd'.pc = "loop"
  <2>1. PICK len \in 1 .. LongestRow :
          rd' = [rd EXCEPT !.pc = "loop", !.i = rd.i + 1,
                           !.print_len = rd.print_len + len]
    BY <1>6 DEF RowPrint
  <2>2. rd.print_len + len \in Nat \ {0}
    BY <1>t, ProfilingAssumption
  <2> QED
    BY <1>t, <2>1, <2>2
<1>7. ASSUME ReadReturns
      PROVE  /\ rd'.size = rd.size
             /\ IF rd.print_len = 0
                THEN /\ rd'.pc \in {"eof", "user"} /\ rd'.offset = rd.offset
                     /\ rd'.pc = "eof" <=> rd.retval = 0
                ELSE /\ rd'.pc \in {"user", "call"} /\ rd'.offset = rd.i
                     /\ rd'.retval \in Nat \ {0}
  <2>1. CASE rd.print_len = 0
    BY <1>t, <1>7, <2>1 DEF ReadReturns, UserReadEnds
  <2>2. CASE rd.print_len # 0
    <3>1. NewOffset = rd.i /\ rd.retval + rd.print_len \in Nat \ {0}
      BY <1>t, <2>2 DEF NewOffset
    <3>2. PICK p \in {"user", "call"} :
            rd' = [rd EXCEPT !.pc = p, !.nbytes = rd.nbytes - rd.print_len,
                             !.retval = rd.retval + rd.print_len, !.offset = rd.i]
      BY <1>7, <2>2, <3>1 DEF ReadReturns
    <3> QED
      BY <1>t, <2>2, <3>1, <3>2
  <2> QED
    BY <2>1, <2>2
<1>8. ASSUME Close
      PROVE  rd'.pc = "idle"
  BY <1>t, <1>8 DEF Close
<1> QED
  BY <1>1, <1>2, <1>3, <1>4, <1>5, <1>6, <1>7, <1>8

(* A row is added at the end of those printed before.                      *)
LEMMA RowAdded ==
  ASSUME ReaderTypes, RowPrint
  PROVE  /\ DOMAIN rows' = 1 .. Len(rows) + 1 /\ Len(rows) \in Nat
         /\ DOMAIN rows = 1 .. Len(rows)
         /\ \A k \in DOMAIN rows : rows'[k] = rows[k]
         /\ rows'[Len(rows) + 1] = Row(rd.i)
<1>1. rows' = Append(rows, Row(rd.i))
  BY DEF RowPrint
<1>2. PICK S : rows \in Seq(S)
  BY DEF ReaderTypes
<1> QED
  BY <1>1, <1>2

(* The other steps of the reader leave the rows alone.                     *)
LEMMA RowsKept ==
  ASSUME Read, ~RowPrint, ~Close
  PROVE  rows' = rows
BY DEF Read, UserRead, ReadProc, RowCheck, RowPath, RowIndex, RowName, ReadReturns

(* The row that is printed is after all the others.                        *)
LEMMA PositionNext ==
  ASSUME Reader, [Next]_vars
  PROVE  Position' /\ RowsOnce'
<1> USE DEF InLoop
<1>1. /\ Position /\ RowsOnce
      /\ rd.offset \in Nat /\ rd.i \in Nat /\ rd.print_len \in Nat
      /\ \A k \in DOMAIN rows : rows[k].n \in Nat
  <2>1. \A k \in DOMAIN rows : rows[k].n \in Nodes
    <3>1. rows \in Seq(RowRecords)
      BY DEF Reader, ReaderTypes
    <3>2. \A e \in RowRecords : e.n \in Nodes
      BY DEF RowRecords
    <3>3. \A k \in DOMAIN rows : rows[k] \in RowRecords
      BY <3>1
    <3> QED
      BY <3>2, <3>3
  <2> QED
    BY <2>1 DEF Reader, ReaderTypes, Readers, Nodes
<1>2. CASE \/ \E size \in ReadSizes : Open(size)
           \/ Close
  <2>1. rows' = <<>>
    BY <1>2 DEF Open, Close
  <2>2. rd'.pc \in {"user", "idle"}
    BY <1>2, ReaderSteps DEF Reader
  <2> QED
    BY <2>1, <2>2 DEF Position, RowsOnce
<1>3. CASE RowPrint
  <2>1. /\ rd.pc = "count" /\ rd'.pc = "loop" /\ rd'.i = rd.i + 1
        /\ rd'.offset = rd.offset /\ rd'.print_len # 0
    BY <1>3, ReaderSteps DEF Reader, RowPrint
  <2>2. /\ DOMAIN rows' = 1 .. Len(rows) + 1 /\ Len(rows) \in Nat
        /\ DOMAIN rows = 1 .. Len(rows)
        /\ \A k \in DOMAIN rows : rows'[k] = rows[k]
        /\ rows'[Len(rows) + 1].n = rd.i
    BY <1>3, RowAdded DEF Reader, Row
  <2>3. rd.offset <= rd.i /\ \A k \in DOMAIN rows : rows[k].n < rd.i
    BY <1>1, <2>1 DEF Position, At
  <2>4. \A k \in DOMAIN rows' : rows'[k].n < rd.i + 1
    BY <1>1, <2>2, <2>3
  <2>5. Position'
    BY <1>1, <2>1, <2>3, <2>4 DEF Position, At
  <2>6. RowsOnce'
    BY <1>1, <2>2, <2>3 DEF RowsOnce
  <2> QED
    BY <2>5, <2>6
<1>4. CASE Read /\ ~RowPrint /\ ~Close
  <2>1. rows' = rows
    BY <1>4, RowsKept
  <2>2. CASE UserRead
    BY <1>1, <2>1, <2>2, ReaderSteps DEF Reader, Position, RowsOnce, At, UserRead
  <2>3. CASE ReadProc
    BY <1>1, <2>1, <2>3, ReaderSteps DEF Reader, Position, RowsOnce, At, ReadProc
  <2>4. CASE RowCheck
    BY <1>1, <2>1, <2>4, ReaderSteps DEF Reader, Position, RowsOnce, At, RowCheck
  <2>5. CASE RowPath \/ RowIndex \/ RowName
    BY <1>1, <2>1, <2>5, ReaderSteps
    DEF Reader, Position, RowsOnce, At, RowPath, RowIndex, RowName
  <2>6. CASE ReadReturns
    BY <1>1, <2>1, <2>6, ReaderSteps DEF Reader, Position, RowsOnce, At, ReadReturns
  <2> QED
    BY <1>4, <2>2, <2>3, <2>4, <2>5, <2>6 DEF Read
<1>5. CASE ~Read /\ (\A size \in ReadSizes : ~Open(size))
  BY <1>1, <1>5, ReaderAlone DEF Position, RowsOnce, At
<1> QED
  BY <1>2, <1>3, <1>4, <1>5

(* Each part of a row is read from the node, whoever has stored it there.  *)
LEMMA PartsToldNext ==
  ASSUME Counts, Owners, Reader, [Next]_vars
  PROVE  PartsTold'
<1> USE DEF InLoop, InRow
<1>1. PartsTold /\ ReaderTypes
  BY DEF Reader
<1>2. rd.pc \in InRow => rd.i \in Nodes
  BY ProfilingAssumption DEF ReaderTypes, Readers, Reader, Nodes
<1>3. \A n \in Nodes : Told(n) \subseteq Told(n)'
  BY RecordedKept DEF Told
<1>4. CASE rd'.pc \notin InRow
  BY <1>4 DEF PartsTold
<1>5. CASE RowCheck /\ rd'.pc \in InRow
  <2>1. rd'.pc = "path" /\ rd'.i = rd.i /\ profile_data[rd.i].count # 0
    BY <1>1, <1>5, ReaderSteps
  <2>2. profile_data' = profile_data /\ rd.i \in Nodes
    BY <1>1, <1>5, ProfilingAssumption DEF RowCheck, ReaderTypes, Readers, Nodes
  <2>3. Recorded \in Told(rd.i)
    BY <2>1, <2>2 DEF Recorded, Told, Owners, OwnerFirst, OwnerRight
  <2>4. Recorded' = Recorded /\ Recorded \in Told(rd.i)'
    BY <1>3, <2>1, <2>2, <2>3 DEF Recorded
  <2> QED
    BY <2>1, <2>4 DEF PartsTold
<1>6. CASE RowPath \/ RowIndex \/ RowName
  <2>1. /\ rd.pc \in InRow /\ rd'.i = rd.i /\ profile_data' = profile_data
        /\ cleared' = cleared
    BY <1>1, <1>6, ReaderSteps DEF RowPath, RowIndex, RowName
  <2>2. Recorded \in Told(rd.i) /\ Recorded' = Recorded /\ Told(rd.i)' = Told(rd.i)
    BY <1>1, <2>1 DEF PartsTold, Recorded, Told
  <2>3. CASE RowPath
    <3>1. /\ rd'.pc = "index"
          /\ rd'.path = Recorded \/ (rd'.path = NoPath /\ Recorded \in Deep)
      BY <1>1, <2>3 DEF RowPath, ReaderTypes, Readers
    <3>2. PathTold(rd'.path, rd.i)
      BY <2>2, <3>1 DEF PathTold
    <3> QED
      BY <2>1, <2>2, <3>1, <3>2 DEF PartsTold, PathTold
  <2>4. CASE RowIndex
    <3>1. /\ rd.pc = "index" /\ rd'.pc = "name" /\ rd'.path = rd.path
          /\ rd'.array_index = inode_array_index[Recorded]
      BY <1>1, <2>4 DEF RowIndex, ReaderTypes, Readers
    <3>2. PathTold(rd.path, rd.i) /\ IndexTold(rd'.array_index, rd.i)
      BY <1>1, <2>2, <3>1 DEF PartsTold, IndexTold
    <3> QED
      BY <2>1, <2>2, <3>1, <3>2 DEF PartsTold, PathTold, IndexTold
  <2>5. CASE RowName
    <3>1. /\ rd.pc = "name" /\ rd'.pc = "count" /\ rd'.path = rd.path
          /\ rd'.array_index = rd.array_index /\ rd'.name = Recorded
      BY <1>1, <2>5 DEF RowName, ReaderTypes, Readers
    <3>2. PathTold(rd.path, rd.i) /\ IndexTold(rd.array_index, rd.i)
      BY <1>1, <3>1 DEF PartsTold
    <3> QED
      BY <2>1, <2>2, <3>1, <3>2 DEF PartsTold, PathTold, IndexTold
  <2> QED
    BY <1>6, <2>3, <2>4, <2>5
<1>7. CASE ~Read /\ (\A size \in ReadSizes : ~Open(size)) /\ rd.pc \in InRow
  <2>1. rd' = rd /\ rd.i \in Nodes
    BY <1>2, <1>7, ReaderAlone
  <2>2. Recorded \in Told(rd.i) => Recorded' \in Told(rd.i)'
    BY <2>1, RecordedKept DEF Recorded
  <2>3. Told(rd.i) \subseteq Told(rd.i)'
    BY <1>3, <2>1
  <2> QED
    BY <1>1, <2>1, <2>2, <2>3 DEF PartsTold, PathTold, IndexTold
<1>8. CASE UserRead \/ ReadProc \/ RowPrint \/ ReadReturns \/ Close
           \/ \E size \in ReadSizes : Open(size)
  <2>1. rd'.pc \notin InRow
    BY <1>1, <1>8, ReaderSteps
  <2> QED
    BY <1>4, <2>1
<1> QED
  BY <1>4, <1>5, <1>6, <1>7, <1>8, ReaderAlone DEF Read

LEMMA RowsTrueNext ==
  ASSUME Counts, Owners, Reader, [Next]_vars
  PROVE  RowsTrue'
<1>1. RowsTrue /\ \A n : Told(n) \subseteq Told(n)'
  BY RecordedKept DEF Reader, Told
<1>2. CASE RowPrint
  <2> DEFINE r == Row(rd.i)
  <2>1. rd.pc = "count" /\ cleared' = cleared
    BY <1>2 DEF RowPrint
  <2>2. /\ r.n = rd.i /\ r.path = rd.path /\ r.name = rd.name
        /\ r.page = rd.i - rd.array_index
    BY DEF Row
  <2>3. /\ PathTold(r.path, r.n) /\ r.name \in Told(r.n)
        /\ \E ino \in Told(r.n) : r.page = r.n - inode_array_index[ino]
    BY <2>1, <2>2 DEF Reader, PartsTold, IndexTold
  <2> HIDE DEF r
  <2>4. /\ DOMAIN rows' = 1 .. Len(rows) + 1 /\ Len(rows) \in Nat
        /\ DOMAIN rows = 1 .. Len(rows)
        /\ \A k \in DOMAIN rows : rows'[k] = rows[k]
        /\ rows'[Len(rows) + 1] = r
    BY <1>2, RowAdded DEF Reader, r
  <2>5. \A k \in DOMAIN rows' : rows'[k] = r \/ (k \in DOMAIN rows /\ rows'[k] = rows[k])
    BY <2>4
  <2> QED
    BY <1>1, <2>1, <2>3, <2>5 DEF RowsTrue, PathTold, Told
<1>3. CASE \/ \E size \in ReadSizes : Open(size)
           \/ Close
  <2>1. rows' = <<>>
    BY <1>3 DEF Open, Close
  <2> QED
    BY <2>1 DEF RowsTrue
<1>4. CASE rows' = rows
  BY <1>1, <1>4 DEF RowsTrue, PathTold
<1> QED
  BY <1>2, <1>3, <1>4, RowsKept, ReaderAlone

LEMMA ReaderNext == RowsFit /\ Counts /\ Owners /\ Reader /\ [Next]_vars => Reader'
  BY ReaderTypesNext, PositionNext, PartsToldNext, RowsTrueNext DEF Reader

LEMMA ReaderInvariant == RowsFit => (Spec => []Reader)
<1> SUFFICES ASSUME RowsFit PROVE Spec => []Reader
  OBVIOUS
<1>1. Counts /\ Owners /\ Reader /\ [Next]_vars => Reader'
  BY ReaderNext
<1> QED
  BY <1>1, ReaderInit, CountsInvariant, OwnersInvariant, PTL DEF Spec

(* If no row is longer than the room that is kept for it, every row stays  *)
(* in the buffer, tells for its path, its name and its page only what      *)
(* faults there recorded, or the root's after a clear, and no node is      *)
(* printed twice, in whatever sizes the file is read, and whoever counts   *)
(* or clears between the readings of the parts of a row.                   *)
THEOREM RowsSound == RowsFit => (Spec => [](TypeOK /\ RowsTrue /\ RowsOnce))
<1> SUFFICES ASSUME RowsFit PROVE Spec => [](TypeOK /\ RowsTrue /\ RowsOnce)
  OBVIOUS
<1>1. Counts /\ Reader => TypeOK
  BY DEF Counts, CountTypes, Reader, ReaderTypes, Readers, TypeOK
<1>2. Reader => RowsTrue /\ RowsOnce
  BY DEF Reader
<1> QED
  BY <1>1, <1>2, CountsInvariant, ReaderInvariant, PTL

(* The file a node belongs to is the only one that faults there.           *)
LEMMA OneFaulter ==
  ASSUME OwnFaults, NEW n \in Nodes, NEW f \in Faulters(n)
  PROVE  f \in Files /\ n \in PagesOf(f) /\ \A g \in Faulters(n) : g = f
<1>1. \A g \in Faulters(n) :
        g \in Files /\ \E q \in 0 .. pages[g] - 1 : n = inode_array_index[g] + q
  BY DEF OwnFaults, Faulters, FaultNodes
<1>2. f \in Files /\ n \in PagesOf(f)
  BY <1>1 DEF PagesOf
<1>3. ASSUME NEW g \in Faulters(n)
      PROVE  g = f
  <2>1. PICK p \in 0 .. pages[f] - 1 : n = inode_array_index[f] + p
    BY <1>1
  <2>2. PICK q \in 0 .. pages[g] - 1 : n = inode_array_index[g] + q
    BY <1>1
  <2> QED
    BY <1>1, <2>1, <2>2, ProfilingAssumption
<1> QED
  BY <1>2, <1>3

(* If besides nobody faults behind the end of a file, then, until the      *)
(* profile is cleared, path, name and page of a row are those of the one   *)
(* file that the node belongs to.                                          *)
THEOREM RowsOwnHold == RowsFit /\ OwnFaults => (Spec => []RowsOwn)
<1> SUFFICES ASSUME RowsFit, OwnFaults PROVE Spec => []RowsOwn
  OBVIOUS
<1>1. Reader => RowsOwn
  <2> SUFFICES ASSUME Reader, ~cleared, NEW k \in DOMAIN rows
               PROVE  \E f \in Files :
                        /\ rows[k].n \in PagesOf(f) /\ rows[k].name = f
                        /\ rows[k].path \in {f, NoPath}
                        /\ rows[k].page = rows[k].n - inode_array_index[f]
    BY DEF RowsOwn
  <2> DEFINE r == rows[k]
  <2>1. r.n \in Nodes
    <3>1. rows \in Seq(RowRecords)
      BY DEF Reader, ReaderTypes
    <3>2. rows[k] \in RowRecords
      BY <3>1
    <3> QED
      BY <3>2 DEF RowRecords
  <2>2. Told(r.n) = Faulters(r.n)
    BY DEF Told
  <2>3. /\ r.path \in Faulters(r.n) \/ r.path = NoPath
        /\ r.name \in Faulters(r.n)
        /\ \E ino \in Faulters(r.n) : r.page = r.n - inode_array_index[ino]
    BY <2>2 DEF Reader, RowsTrue, PathTold
  <2> HIDE DEF r
  <2>4. /\ r.name \in Files /\ r.n \in PagesOf(r.name)
        /\ \A g \in Faulters(r.n) : g = r.name
    BY <2>1, <2>3, OneFaulter
  <2> QED
    BY <2>3, <2>4 DEF r
<1> QED
  BY <1>1, ReaderInvariant, PTL

-----------------------------------------------------------------------------
(* What is due has a count, and is printed when the reader has gone past   *)
(* it.  A read that has brought nothing yet has all of its buffer left.    *)

DueCounted == due \subseteq Nodes /\ \A n \in due : profile_data[n].count # 0

DuePrinted ==
  rd.pc # "idle" => \A n \in due : n < At => \E k \in DOMAIN rows : rows[k].n = n

WholeBuffer ==
  /\ rd.pc # "idle" => rd.size \in ReadSizes
  /\ rd.pc \in InLoop \cup {"call"} /\ rd.retval = 0 =>
       rd.nbytes = rd.size

Dues == DueCounted /\ DuePrinted /\ WholeBuffer /\ ReadComplete

LEMMA DuesInit == Init => Dues
  BY DEF Init, Dues, DueCounted, DuePrinted, WholeBuffer, ReadComplete

LEMMA DueCountedNext ==
  ASSUME Counts, DueCounted, [Next]_vars
  PROVE  DueCounted'
<1>t. /\ profile_data \in [Nodes -> [inode_number : Inodes, count : Nat]]
      /\ task \in [Tasks -> [pc : {"idle", "inode", "load", "store"},
                             n : Nat, ino : Nat, count : Nat]]
  BY DEF Counts, CountTypes
<1>1. ASSUME NEW t \in Tasks, StoreInode(t)
      PROVE  DueCounted'
  <2>1. \A n \in Nodes : profile_data'[n].count = profile_data[n].count
    BY <1>t, <1>1 DEF StoreInode
  <2> QED
    BY <1>1, <2>1 DEF StoreInode, DueCounted
<1>2. ASSUME NEW t \in Tasks, StoreCount(t)
      PROVE  DueCounted'
  <2>1. \A n \in Nodes :
          profile_data'[n].count \in {task[t].count + 1, profile_data[n].count}
    BY <1>t, <1>2 DEF StoreCount
  <2>2. task[t].count + 1 # 0
    BY <1>t
  <2> QED
    BY <1>2, <2>1, <2>2 DEF StoreCount, DueCounted
<1>3. CASE ClearNode
  <2>1. \A n \in Nodes \ {clearing} : profile_data'[n] = profile_data[n]
    BY <1>t, <1>3 DEF ClearNode
  <2> QED
    BY <1>3, <2>1 DEF ClearNode, DueCounted
<1>4. CASE \E size \in ReadSizes : Open(size)
  BY <1>4 DEF Open, Counted, DueCounted
<1>5. CASE Close
  BY <1>5 DEF Close, DueCounted
<1>6. CASE \/ \E t \in Tasks : LoadCount(t)
           \/ \E t \in Tasks, f \in Files : \E n \in FaultNodes(f) : Fault(t, f, n)
           \/ Switch \/ Clear
           \/ UserRead \/ ReadProc \/ RowCheck \/ RowPath \/ RowIndex \/ RowName
           \/ RowPrint \/ ReadReturns \/ UNCHANGED vars
  <2>1. UNCHANGED <<profile_data, due>>
    BY <1>6
    DEF LoadCount, Fault, Switch, Clear, UserRead, ReadProc, RowCheck, RowPath,
        RowIndex, RowName, RowPrint, ReadReturns, vars
  <2> QED
    BY <2>1 DEF DueCounted
<1> QED
  BY <1>1, <1>2, <1>3, <1>4, <1>5, <1>6 DEF Next, Add, Write, Read

LEMMA WholeBufferNext ==
  ASSUME ReaderTypes, WholeBuffer, [Next]_vars
  PROVE  WholeBuffer'
<1> USE DEF InLoop
<1>1. CASE \E size \in ReadSizes : Open(size)
  BY <1>1, ReaderSteps DEF WholeBuffer
<1>2. CASE UserRead
  BY <1>2, ReaderSteps DEF WholeBuffer, UserRead
<1>3. CASE ReadProc
  BY <1>3, ReaderSteps DEF WholeBuffer, ReadProc
<1>4. CASE RowCheck
  BY <1>4, ReaderSteps DEF WholeBuffer, RowCheck
<1>5. CASE RowPath \/ RowIndex \/ RowName
  BY <1>5, ReaderSteps DEF WholeBuffer, RowPath, RowIndex, RowName
<1>6. CASE RowPrint
  BY <1>6, ReaderSteps DEF WholeBuffer, RowPrint
<1>7. CASE ReadReturns
  BY <1>7, ReaderSteps DEF WholeBuffer, ReadReturns
<1>8. CASE Close
  BY <1>8, ReaderSteps DEF WholeBuffer
<1>9. CASE ~Read /\ (\A size \in ReadSizes : ~Open(size))
  BY <1>9, ReaderAlone DEF WholeBuffer
<1> QED
  BY <1>1, <1>2, <1>3, <1>4, <1>5, <1>6, <1>7, <1>8, <1>9 DEF Read

(* What another task does to the nodes that are due is to clear them.      *)
LEMMA DueKept ==
  ASSUME [Next]_vars, ~Close, \A size \in ReadSizes : ~Open(size)
  PROVE  due' \subseteq due
BY DEF Next, Add, Fault, StoreInode, LoadCount, StoreCount, Write, Switch, Clear,
       ClearNode, Read, UserRead, ReadProc, RowCheck, RowPath, RowIndex, RowName,
       RowPrint, ReadReturns, vars

LEMMA DuePrintedNext ==
  ASSUME Reader, DueCounted, DuePrinted, [Next]_vars
  PROVE  DuePrinted'
<1> USE DEF InLoop
<1>1. /\ rd.offset \in Nat /\ rd.i \in Nat /\ blocks \in Nat /\ rd.i <= blocks
      /\ \A n \in due : n \in Nat
  BY ProfilingAssumption DEF Reader, ReaderTypes, Readers, DueCounted, Nodes
<1>2. CASE \E size \in ReadSizes : Open(size)
  <2>1. rd'.pc = "user" /\ rd'.offset = 0
    BY <1>2, ReaderSteps DEF Reader
  <2>2. due' \subseteq Nodes
    BY <1>2 DEF Open, Counted
  <2> QED
    BY <2>1, <2>2 DEF DuePrinted, At, Nodes
<1>3. CASE Close
  BY <1>3, ReaderSteps DEF Reader, DuePrinted
<1>4. CASE RowPrint
  <2>1. rd.pc = "count" /\ rd'.pc = "loop" /\ rd'.i = rd.i + 1 /\ due' = due
    BY <1>4, ReaderSteps DEF Reader, RowPrint
  <2>2. \A n \in due : n < rd.i => \E k \in DOMAIN rows : rows[k].n = n
    BY <2>1 DEF DuePrinted, At
  <2>3. /\ DOMAIN rows' = 1 .. Len(rows) + 1 /\ Len(rows) \in Nat
        /\ DOMAIN rows = 1 .. Len(rows)
        /\ \A k \in DOMAIN rows : rows'[k] = rows[k]
        /\ rows'[Len(rows) + 1].n = rd.i
    BY <1>4, RowAdded DEF Reader, Row
  <2>4. ASSUME NEW n \in due, n < rd.i + 1
        PROVE  \E k \in DOMAIN rows' : rows'[k].n = n
    <3>1. CASE n = rd.i
      BY <2>3, <3>1
    <3>2. CASE n < rd.i
      BY <2>2, <2>3, <3>2
    <3> QED
      BY <1>1, <2>4, <3>1, <3>2
  <2> QED
    BY <2>1, <2>4 DEF DuePrinted, At
<1>5. CASE Read /\ ~RowPrint /\ ~Close
  <2>1. rows' = rows /\ due' = due
    BY <1>5
    DEF Read, UserRead, ReadProc, RowCheck, RowPath, RowIndex, RowName, ReadReturns
  <2>2. rd.pc # "idle" /\ \A n \in due : n < At => \E k \in DOMAIN rows : rows[k].n = n
    BY <1>5
    DEF DuePrinted, Read, UserRead, ReadProc, RowCheck, RowPath, RowIndex, RowName,
        ReadReturns
  <2>3. \A n \in due : n < At' => n < At
    <3>1. CASE UserRead
      BY <3>1, ReaderSteps DEF Reader, At, UserRead
    <3>2. CASE ReadProc
      BY <3>2, ReaderSteps DEF Reader, At, ReadProc
    <3>3. CASE RowCheck
      <4>1. /\ rd.pc = "loop" /\ At = rd.i
            /\ IF profile_data[rd.i].count # 0 THEN At' = rd.i ELSE At' = rd.i + 1
        BY <3>3, ReaderSteps DEF Reader, At, RowCheck
      <4>2. profile_data[rd.i].count = 0 => rd.i \notin due
        BY DEF DueCounted
      <4> QED
        BY <1>1, <4>1, <4>2
    <3>4. CASE RowPath \/ RowIndex \/ RowName
      BY <3>4, ReaderSteps DEF Reader, At, RowPath, RowIndex, RowName
    <3>5. CASE ReadReturns
      <4>1. rd.pc = "loop" /\ rd'.offset \in {rd.offset, rd.i} /\ rd.offset <= rd.i
        BY <3>5, ReaderSteps DEF Reader, Position, ReadReturns
      <4>2. rd'.pc \in {"eof", "user", "call"}
        BY <3>5, ReaderSteps DEF Reader
      <4> QED
        BY <1>1, <4>1, <4>2 DEF At
    <3> QED
      BY <1>5, <3>1, <3>2, <3>3, <3>4, <3>5 DEF Read
  <2> QED
    BY <2>1, <2>2, <2>3 DEF DuePrinted
<1>6. CASE ~Read /\ (\A size \in ReadSizes : ~Open(size))
  <2>1. rd' = rd /\ rows' = rows /\ due' \subseteq due
    BY <1>6, ReaderAlone, DueKept DEF Read
  <2> QED
    BY <2>1 DEF DuePrinted, At
<1> QED
  BY <1>2, <1>3, <1>4, <1>5, <1>6

LEMMA ReadCompleteNext ==
  ASSUME RoomForRow, Reader, Dues, [Next]_vars
  PROVE  ReadComplete'
<1> USE DEF InLoop
<1>1. /\ rd.offset \in Nat /\ rd.i \in Nat /\ blocks \in Nat /\ rd.i <= blocks
      /\ rd.offset <= blocks /\ MAX_STRING_LEN \in Nat
      /\ \A n \in due : n \in 0 .. blocks - 1
  BY ProfilingAssumption DEF Reader, ReaderTypes, Readers, Dues, DueCounted, Nodes
<1>2. SUFFICES ASSUME rd'.pc = "eof"
               PROVE  \A n \in due' : \E k \in DOMAIN rows' : rows'[k].n = n
  BY DEF ReadComplete
<1>3. CASE ReadProc
  <2>1. rows' = rows /\ due' = due /\ rd.pc = "call"
    BY <1>3 DEF ReadProc
  <2>2. rd.offset >= blocks
    BY <1>2, <1>3, ReaderSteps DEF Reader
  <2>3. At = rd.offset
    BY <2>1 DEF At
  <2>4. \A n \in due : n < At
    BY <1>1, <2>2, <2>3
  <2> QED
    BY <2>1, <2>4 DEF Dues, DuePrinted
<1>4. CASE ReadReturns
  <2>1. rows' = rows /\ due' = due /\ rd.pc = "loop"
    BY <1>4 DEF ReadReturns
  <2>2. rd.print_len = 0 /\ rd.retval = 0
    <3>1. /\ rd.print_len = 0 => (rd'.pc = "eof" <=> rd.retval = 0)
          /\ rd.print_len # 0 => rd'.pc \in {"user", "call"}
      BY <1>4, ReaderSteps DEF Reader
    <3> QED
      BY <1>2, <3>1
  <2>3. rd.nbytes = rd.size /\ rd.size \in ReadSizes
    BY <2>1, <2>2 DEF Dues, WholeBuffer
  <2>4. Room
    <3>1. MAX_STRING_LEN <= rd.nbytes /\ MAX_STRING_LEN <= PROC_BLOCK_SIZE
      BY <2>3 DEF RoomForRow
    <3>2. MAX_STRING_LEN <= BufferLength
      BY <3>1 DEF BufferLength
    <3> QED
      BY <1>1, <2>2, <3>2 DEF Room
  <2>5. rd.i = blocks /\ At = rd.i
    BY <1>4, <2>1, <2>4 DEF ReadReturns, At
  <2>6. \A n \in due : n < At
    BY <1>1, <2>5
  <2> QED
    BY <2>1, <2>6 DEF Dues, DuePrinted
<1>5. CASE ~Read /\ (\A size \in ReadSizes : ~Open(size))
  <2>1. rd' = rd /\ rows' = rows /\ due' \subseteq due
    BY <1>5, ReaderAlone, DueKept DEF Read
  <2> QED
    BY <1>2, <2>1 DEF Dues, ReadComplete
<1>6. CASE UserRead \/ RowCheck \/ RowPath \/ RowIndex \/ RowName \/ RowPrint \/ Close
           \/ \E size \in ReadSizes : Open(size)
  <2>1. rd'.pc # "eof"
    BY <1>6, ReaderSteps DEF Reader
  <2> QED
    BY <1>2, <2>1
<1> QED
  BY <1>3, <1>4, <1>5, <1>6 DEF Read

LEMMA DuesNext ==
  ASSUME RoomForRow, Counts, Reader, Dues, [Next]_vars
  PROVE  Dues'
BY DueCountedNext, DuePrintedNext, WholeBufferNext, ReadCompleteNext DEF Reader, Dues

(* If besides every read has room for a row, the file lists all that was   *)
(* counted when it was opened and not cleared since, each node once.       *)
THEOREM RowsHold == RoomForRow /\ RowsFit => (Spec => []RowsRight)
<1> SUFFICES ASSUME RoomForRow, RowsFit PROVE Spec => []RowsRight
  OBVIOUS
<1>1. Counts /\ Reader /\ Dues /\ [Next]_vars => Dues'
  BY DuesNext
<1>2. TypeOK /\ RowsTrue /\ RowsOnce /\ Dues => RowsRight
  BY DEF Dues, RowsRight
<1> QED
  BY <1>1, <1>2, DuesInit, CountsInvariant, ReaderInvariant, RowsSound, PTL DEF Spec
=============================================================================
