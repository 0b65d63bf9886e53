----------------------------- MODULE AxfsProfiling -----------------------------
(***************************************************************************)
(* The page profile of one mounted image (axfs_profiling.c): for each node *)
(* how often a fault brought it in, and for which inode.  Faults write it, *)
(* the volume's file in /proc/axfs prints, clears, and switches it.  No    *)
(* lock protects it: tasks that fault, a task that reads the file and a    *)
(* task that writes it take turns at every load and store.                 *)
(*                                                                         *)
(* The image has files only at inode numbers other than 0 (the root), and  *)
(* each of its nodes is a page of at most one file; a fault may lie behind *)
(* the end of its file all the same, and is then counted for a node of     *)
(* another (axfs_fault).  One behind the last node would be counted in     *)
(* memory that is not the profile's: it is left out.  A count stays below  *)
(* the limit of an unsigned long.                                          *)
(***************************************************************************)
EXTENDS Integers, Sequences

CONSTANTS
  Tasks,             \* the tasks that fault on pages of the image
  blocks,            \* the number of nodes
  pages,             \* pages[ino], over the files
  inode_array_index, \* inode_array_index[ino], over the files and the root
  Deep,              \* the files that are not in the root directory
  FaultPages,        \* FaultPages[ino]: the pages that faults on it are for
  Commands,          \* what is written to the file: "on", "off", "clear"
  MaxFaults,         \* a bound on the number of faults
  ReadSizes,         \* the sizes that the file is read(2) with
  PROC_BLOCK_SIZE,   \* the most that proc_file_read asks for at once
  MAX_STRING_LEN,    \* the room that a row needs to be begun
  LongestRow         \* the length of the image's longest row

VARIABLES
  profiling_on,
  profile_data, \* profile_data[n]: inode_number and count
  task,         \* task[t]: pc, the node, its inode, and the count it loaded
  started,      \* how many faults there were
  clearing,     \* the node that memset clears next, or blocks
  rd,           \* the reader: pc and the locals of both read functions
  rows,         \* what the reader has been given since it opened the file
  faults,       \* faults[n]: faults on n that were counted (history)
  due,          \* nodes counted when the file was opened, and not cleared
                \* since (history)
  cleared       \* whether "clear" was ever written (history)

vars == <<profiling_on, profile_data, task, started, clearing, rd, rows,
          faults, due, cleared>>

Root == 0
Files == DOMAIN pages
Inodes == Files \cup {Root}
Nodes == 0 .. blocks - 1

ASSUME ProfilingAssumption ==
  /\ blocks \in Nat \ {0} /\ MaxFaults \in Nat
  /\ 0 \notin Files /\ Files \subseteq Nat
  /\ pages \in [Files -> Nat] /\ inode_array_index \in [Inodes -> Nat]
  /\ Deep \subseteq Files
  /\ FaultPages \in [Files -> SUBSET Nat]
  /\ \A f \in Files : \A p \in FaultPages[f] : inode_array_index[f] + p < blocks
  /\ \A f \in Files : inode_array_index[f] + pages[f] <= blocks
  /\ \A f, g \in Files : \A p \in 0 .. pages[f] - 1, q \in 0 .. pages[g] - 1 :
       inode_array_index[f] + p = inode_array_index[g] + q => f = g
  /\ Commands \subseteq {"on", "off", "clear"}
  /\ ReadSizes \subseteq Nat \ {0}
  /\ PROC_BLOCK_SIZE \in Nat /\ MAX_STRING_LEN \in Nat \ {0}
  /\ LongestRow \in Nat \ {0}

PagesOf(f) == {inode_array_index[f] + p : p \in 0 .. pages[f] - 1}

(* The nodes that a fault on a file is counted for, and the files whose    *)
(* faults are counted for a node.                                          *)
FaultNodes(f) == {inode_array_index[f] + p : p \in FaultPages[f]}
Faulters(n) == {f \in Files : n \in FaultNodes(f)}

(* A path that is not printed, for want of memory.                         *)
NoPath == -1

Unused == [inode_number |-> 0, count |-> 0]

-----------------------------------------------------------------------------
(* init_axfs_profiling.                                                    *)
Init ==
  /\ profiling_on = TRUE
  /\ profile_data = [n \in Nodes |-> Unused]
  /\ task = [t \in Tasks |-> [pc |-> "idle", n |-> 0, ino |-> Root, count |-> 0]]
  /\ started = 0
  /\ clearing = blocks
  /\ rd = [pc |-> "idle", size |-> 0, nbytes |-> 0, retval |-> 0, offset |-> 0,
           i |-> 0, print_len |-> 0, path |-> Root, array_index |-> 0,
           name |-> Root]
  /\ rows = <<>>
  /\ faults = [n \in Nodes |-> 0]
  /\ due = {}
  /\ cleared = FALSE

-----------------------------------------------------------------------------
(* axfs_profiling_add, as axfs_fault calls it before anyone looks at the   *)
(* size of the file.                                                       *)

Fault(t, f, n) ==
  /\ task[t].pc = "idle"
  /\ started < MaxFaults
  /\ n \in FaultNodes(f)
  /\ started' = started + 1
  /\ task' = IF profiling_on
             THEN [task EXCEPT ![t] =
                     [pc |-> "inode", n |-> n, ino |-> f, count |-> 0]]
             ELSE task
  /\ UNCHANGED <<profiling_on, profile_data, clearing, rd, rows, faults, due,
                 cleared>>

(* Mutant: the inode is only recorded for a node that has been counted.    *)
StoreInodeCounted(t) ==
  /\ task[t].pc = "inode"
  /\ profile_data' =
       IF profile_data[task[t].n].count = 0 THEN profile_data
       ELSE [profile_data EXCEPT ![task[t].n].inode_number = task[t].ino]
  /\ task' = [task EXCEPT ![t].pc = "load"]
  /\ UNCHANGED <<profiling_on, started, clearing, rd, rows, faults, due,
                 cleared>>

StoreInode(t) ==
  /\ task[t].pc = "inode"
  /\ profile_data' = [profile_data EXCEPT ![task[t].n].inode_number = task[t].ino]
  /\ task' = [task EXCEPT ![t].pc = "load"]
  /\ UNCHANGED <<profiling_on, started, clearing, rd, rows, faults, due,
                 cleared>>

LoadCount(t) ==
  /\ task[t].pc = "load"
  /\ task' = [task EXCEPT ![t].pc = "store",
                          ![t].count = profile_data[task[t].n].count]
  /\ UNCHANGED <<profiling_on, profile_data, started, clearing, rd, rows,
                 faults, due, cleared>>

(* Mutant: the count is stored as it was loaded.                           *)
StoreCountKept(t) ==
  /\ task[t].pc = "store"
  /\ profile_data' = [profile_data EXCEPT ![task[t].n].count = task[t].count]
  /\ faults' = [faults EXCEPT ![task[t].n] = @ + 1]
  /\ task' = [task EXCEPT ![t] =
                [pc |-> "idle", n |-> 0, ino |-> Root, count |-> 0]]
  /\ UNCHANGED <<profiling_on, started, clearing, rd, rows, due, cleared>>

StoreCount(t) ==
  /\ task[t].pc = "store"
  /\ profile_data' = [profile_data EXCEPT ![task[t].n].count = task[t].count + 1]
  /\ faults' = [faults EXCEPT ![task[t].n] = @ + 1]
  /\ task' = [task EXCEPT ![t] =
                [pc |-> "idle", n |-> 0, ino |-> Root, count |-> 0]]
  /\ UNCHANGED <<profiling_on, started, clearing, rd, rows, due, cleared>>

Add(t) == StoreInode(t) \/ LoadCount(t) \/ StoreCount(t)

-----------------------------------------------------------------------------
(* procfile_write.                                                         *)

Switch ==
  /\ clearing = blocks
  /\ \E c \in Commands \cap {"on", "off"} : profiling_on' = (c = "on")
  /\ UNCHANGED <<profile_data, task, started, clearing, rd, rows, faults, due,
                 cleared>>

Clear ==
  /\ clearing = blocks
  /\ "clear" \in Commands
  /\ clearing' = 0
  /\ cleared' = TRUE
  /\ UNCHANGED <<profiling_on, profile_data, task, started, rd, rows, faults, due>>

(* memset, node by node.                                                   *)
ClearNode ==
  /\ clearing < blocks
  /\ profile_data' = [profile_data EXCEPT ![clearing] = Unused]
  /\ due' = due \ {clearing}
  /\ clearing' = clearing + 1
  /\ UNCHANGED <<profiling_on, task, started, rd, rows, faults, cleared>>

Write == Switch \/ Clear \/ ClearNode

-----------------------------------------------------------------------------
(* A session of reads of the file, from its opening to the first read that *)
(* brings nothing.  UserRead and the outcome of ReadProc are the kernel's  *)
(* proc_file_read (external): it calls procfile_read until the user's      *)
(* buffer is full or a call brings nothing, and adds to the file position  *)
(* what procfile_read leaves in *buffer_location.                          *)

Counted == {n \in Nodes : profile_data[n].count # 0}

Open(size) ==
  /\ rd.pc = "idle"
  /\ rd' = [rd EXCEPT !.pc = "user", !.size = size, !.offset = 0]
  /\ rows' = <<>>
  /\ due' = Counted
  /\ UNCHANGED <<profiling_on, profile_data, task, started, clearing, faults,
                 cleared>>

UserRead ==
  /\ rd.pc = "user"
  /\ rd' = [rd EXCEPT !.pc = "call", !.nbytes = rd.size, !.retval = 0]
  /\ UNCHANGED <<profiling_on, profile_data, task, started, clearing, rows,
                 faults, due, cleared>>

BufferLength ==
  IF rd.nbytes < PROC_BLOCK_SIZE THEN rd.nbytes ELSE PROC_BLOCK_SIZE

(* Where proc_file_read goes after a call that brings nothing.             *)
UserReadEnds == IF rd.retval = 0 THEN "eof" ELSE "user"

ReadProc ==
  /\ rd.pc = "call"
  /\ rd' = IF rd.offset >= blocks
           THEN [rd EXCEPT !.pc = UserReadEnds]
           ELSE [rd EXCEPT !.pc = "loop", !.i = rd.offset, !.print_len = 0]
  /\ UNCHANGED <<profiling_on, profile_data, task, started, clearing, rows,
                 faults, due, cleared>>

Room == rd.print_len + MAX_STRING_LEN <= BufferLength

(* Mutant: a node that is not counted is looked at again.                  *)
AfterUncounted == rd.i

AfterNode == rd.i + 1

RowCheck ==
  /\ rd.pc = "loop" /\ rd.i < blocks /\ Room
  /\ rd' = IF profile_data[rd.i].count # 0 THEN [rd EXCEPT !.pc = "path"]
                                           ELSE [rd EXCEPT !.i = AfterNode]
  /\ UNCHANGED <<profiling_on, profile_data, task, started, clearing, rows,
                 faults, due, cleared>>

(* The row is of the node's inode, whose number is read anew for each of   *)
(* its parts.  RowPath is get_directory_path: of a file in another         *)
(* directory than the root it prints nothing if vmalloc fails.             *)
Recorded == profile_data[rd.i].inode_number

RowPath ==
  /\ rd.pc = "path"
  /\ \E path \in {Recorded} \cup (IF Recorded \in Deep THEN {NoPath} ELSE {}) :
       rd' = [rd EXCEPT !.pc = "index", !.path = path]
  /\ UNCHANGED <<profiling_on, profile_data, task, started, clearing, rows,
                 faults, due, cleared>>

RowIndex ==
  /\ rd.pc = "index"
  /\ rd' = [rd EXCEPT !.pc = "name", !.array_index = inode_array_index[Recorded]]
  /\ UNCHANGED <<profiling_on, profile_data, task, started, clearing, rows,
                 faults, due, cleared>>

RowName ==
  /\ rd.pc = "name"
  /\ rd' = [rd EXCEPT !.pc = "count", !.name = Recorded]
  /\ UNCHANGED <<profiling_on, profile_data, task, started, clearing, rows,
                 faults, due, cleared>>

(* The page is a difference of unsigned numbers; only that of the root,    *)
(* which has no pages, can be below zero.                                  *)
Row(n) ==
  [n |-> n, path |-> rd.path, page |-> n - rd.array_index, name |-> rd.name,
   count |-> profile_data[n].count]

(* sprintf does not know how much room there is.  The length of the path,  *)
(* which the code adds before, is part of the row's.                       *)
RowPrint ==
  /\ rd.pc = "count"
  /\ rows' = Append(rows, Row(rd.i))
  /\ \E len \in 1 .. LongestRow :
       rd' = [rd EXCEPT !.pc = "loop", !.i = rd.i + 1,
                        !.print_len = rd.print_len + len]
  /\ UNCHANGED <<profiling_on, profile_data, task, started, clearing, faults,
                 due, cleared>>

(* The file position, to which i - offset is added.                        *)
NewOffset == rd.offset + (rd.i - rd.offset)

ReadReturns ==
  /\ rd.pc = "loop"
  /\ rd.i = blocks \/ ~Room
  /\ rd' = IF rd.print_len = 0 THEN [rd EXCEPT !.pc = UserReadEnds]
           ELSE [rd EXCEPT !.pc = IF rd.nbytes = rd.print_len THEN "user" ELSE "call",
                           !.nbytes = rd.nbytes - rd.print_len,
                           !.retval = rd.retval + rd.print_len,
                           !.offset = NewOffset]
  /\ UNCHANGED <<profiling_on, profile_data, task, started, clearing, rows,
                 faults, due, cleared>>

Close ==
  /\ rd.pc = "eof"
  /\ rd' = [rd EXCEPT !.pc = "idle", !.size = 0, !.nbytes = 0, !.retval = 0,
                      !.offset = 0, !.i = 0, !.print_len = 0, !.path = Root,
                      !.array_index = 0, !.name = Root]
  /\ rows' = <<>>
  /\ due' = {}
  /\ UNCHANGED <<profiling_on, profile_data, task, started, clearing, faults,
                 cleared>>

Read ==
  \/ UserRead \/ ReadProc
  \/ RowCheck \/ RowPath \/ RowIndex \/ RowName \/ RowPrint
  \/ ReadReturns \/ Close

-----------------------------------------------------------------------------
Next ==
  \/ \E t \in Tasks : Add(t)
  \/ \E t \in Tasks, f \in Files : \E n \in FaultNodes(f) : Fault(t, f, n)
  \/ Write
  \/ \E size \in ReadSizes : Open(size)
  \/ Read

Spec == Init /\ [][Next]_vars

(* A task inside the kernel keeps running.                                 *)
FairSpec ==
  /\ Spec
  /\ WF_vars(Read) /\ WF_vars(ClearNode)
  /\ \A t \in Tasks : WF_vars(Add(t))

-----------------------------------------------------------------------------
(* Types: what is printed stays in the buffer it is printed to, although   *)
(* the length of a row is only known when it has been printed (RowsFit).   *)
TypeOK ==
  /\ profiling_on \in BOOLEAN
  /\ profile_data \in [Nodes -> [inode_number : Inodes, count : Nat]]
  /\ \A t \in Tasks : task[t].pc \in {"idle", "inode", "load", "store"}
  /\ started \in 0 .. MaxFaults
  /\ clearing \in 0 .. blocks
  /\ rd.pc \in {"idle", "user", "call", "loop", "path", "index", "name", "count",
               "eof"}
  /\ rd.offset \in 0 .. blocks /\ rd.i \in 0 .. blocks
  /\ rd.nbytes \in 0 .. rd.size
  /\ rd.pc = "loop" => rd.print_len <= BufferLength

(* A count is never more than the faults there were, and a node that was   *)
(* brought in is not reported as one that was not, unless it was cleared:  *)
(* tasks that fault on the same node lose increments to each other, but    *)
(* not all of them.                                                        *)
CountSound ==
  \A n \in Nodes :
    /\ profile_data[n].count <= faults[n]
    /\ faults[n] > 0 /\ ~cleared => profile_data[n].count > 0

(* Whom a row of a node may be of: a file whose faults are counted there,  *)
(* or, after a clear, the root.                                            *)
Told(n) == Faulters(n) \cup (IF cleared THEN {Root} ELSE {})

PathTold(path, n) ==
  path \in Told(n) \/ (path = NoPath /\ Told(n) \cap Deep # {})

(* The path, the name and the page of a row are each those of a file that  *)
(* faults were counted for at its node, whatever is counted while it is    *)
(* printed ("Record the inode number to determine the file name later",    *)
(* before the count): unless the profile is cleared, all three are of the  *)
(* node's file, if no other's faults are counted there.  A path that had   *)
(* no memory is missing, and after a clear each part may be the root's.    *)
RowsTrue ==
  \A k \in DOMAIN rows : LET r == rows[k] IN
    /\ PathTold(r.path, r.n)
    /\ r.name \in Told(r.n)
    /\ \E ino \in Told(r.n) : r.page = r.n - inode_array_index[ino]

(* No node is printed twice, in whatever pieces the file is read.          *)
RowsOnce ==
  \A j, k \in DOMAIN rows : j < k => rows[j].n < rows[k].n

(* When a read brings nothing, each node that was counted when the file    *)
(* was opened, and not cleared since, has been printed ("This funtion will *)
(* be called repeatedly filling the buffer until an EOF is returned").     *)
ReadComplete ==
  rd.pc = "eof" => \A n \in due : \E k \in DOMAIN rows : rows[k].n = n

(* The file ends, however much is counted while it is read.                *)
ReadEnds == rd.pc # "idle" ~> rd.pc = "idle"

(* A node with a count has the file recorded that it belongs to ("Record   *)
(* the inode number to determine the file name later").                    *)
CountedHasOwner ==
  \A n \in Counted :
    \E f \in Files : profile_data[n].inode_number = f /\ n \in PagesOf(f)

(* When no fault is under way, the count is the number of faults ("count   *)
(* of times entered page cache").                                          *)
CountExact ==
  (\A t \in Tasks : task[t].pc = "idle") =>
    \A n \in Nodes : profile_data[n].count = faults[n]

(* The parts of a row are of one inode, also after a clear.                *)
RowsWhole ==
  \A k \in DOMAIN rows : LET r == rows[k] IN
    r.path \in {r.name, NoPath} /\ r.page = r.n - inode_array_index[r.name]

(* Until the profile is cleared, each row is of the file that the node is  *)
(* a page of, and of the page.                                             *)
RowsOwn ==
  ~cleared => \A k \in DOMAIN rows : LET r == rows[k] IN
    \E f \in Files :
      /\ r.n \in PagesOf(f) /\ r.name = f /\ r.path \in {f, NoPath}
      /\ r.page = r.n - inode_array_index[f]

(* Nobody faults behind the end of a file.                                 *)
OwnFaults == \A f \in Files : FaultPages[f] \subseteq 0 .. pages[f] - 1

(* Every read has room for a row when it begins.                           *)
RoomForRow ==
  /\ MAX_STRING_LEN <= PROC_BLOCK_SIZE
  /\ \A size \in ReadSizes : MAX_STRING_LEN <= size

(* No row is longer than what the code keeps room for.                     *)
RowsFit == LongestRow <= MAX_STRING_LEN

(* The file lists what was counted when it was opened, each node once and  *)
(* by the names of those who faulted there, in whatever pieces it is read, *)
(* whatever is counted meanwhile, and stays in the buffer.                 *)
RowsRight == TypeOK /\ RowsTrue /\ RowsOnce /\ ReadComplete
=============================================================================
