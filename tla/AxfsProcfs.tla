------------------------------ MODULE AxfsProcfs ------------------------------
(***************************************************************************)
(* The profiling managers of all mounted volumes and their files in        *)
(* /proc/axfs (axfs_profiling.c): init_axfs_profiling and                  *)
(* shutdown_axfs_profiling with the creation and removal of the file and   *)
(* of the directory, while users read and write the files.                 *)
(*                                                                         *)
(* The kernel's part is external: create_proc_entry puts a new file at the *)
(* front of its directory; remove_proc_entry unlinks the file, lets no new *)
(* user in, and waits for the users that are inside; a file that is        *)
(* unlinked is not found again.  A volume's file stands for its name       *)
(* (volume0, volume1, ...), its data is the volume's manager, and the      *)
(* manager's sbi is the volume's superblock.  Registrations do not overlap *)
(* each other: mount(2) holds the kernel's lock, and that it gives it up   *)
(* where proc_mkdir sleeps, between the look at our_proc_dir and the       *)
(* assignment, is left out.                                                *)
(***************************************************************************)
EXTENDS Sequences, SequencesExt

CONSTANTS
  Mounts,      \* the volumes
  Users,       \* the tasks that use the files
  NoMount,     \* not a volume
  NoNodes,     \* the volumes whose image has no nodes (sbi->blocks = 0)
  Siblings     \* what follows /proc/axfs in /proc: "none" (nothing, or an
               \* entry without data), "data" (an entry with data)

VARIABLES
  mount,        \* mount[m]: "out", "in", "removing" its file, or "stuck"
  order,        \* the mounted volumes, in the order they were mounted
  our_proc_dir, \* whether our_proc_dir is not NULL
  subdir,       \* our_proc_dir->subdir: the volumes that have a file
  manager,      \* manager[m]: whether volume m has a manager in memory
  user,         \* user[u]: the volume whose file u is using
  disorder,     \* whether a volume was unmounted that was not the last one
                \* mounted (history)
  failed        \* whether memory, or an entry of /proc, was not had (history)

vars == <<mount, order, our_proc_dir, subdir, manager, user, disorder, failed>>

ASSUME ProcfsAssumption ==
  /\ NoMount \notin Mounts
  /\ NoNodes \subseteq Mounts
  /\ Siblings \subseteq {"none", "data"}

Init ==
  /\ mount = [m \in Mounts |-> "out"]
  /\ order = <<>>
  /\ our_proc_dir = FALSE
  /\ subdir = <<>>
  /\ manager = [m \in Mounts |-> FALSE]
  /\ user = [u \in Users |-> NoMount]
  /\ disorder = FALSE /\ failed = FALSE

-----------------------------------------------------------------------------
(* delete_proc_directory, when the files are those of dir.                 *)
KeepDirectory(dir) == our_proc_dir /\ dir # <<>>

(* A volume is mounted.  One that left something behind is another volume  *)
(* when it is mounted again.                                               *)
MountVolume(m) ==
  /\ mount[m] = "out" /\ ~manager[m]
  /\ mount' = [mount EXCEPT ![m] = "in"]
  /\ order' = Append(order, m)
  /\ UNCHANGED <<user, disorder>>

Register(m) ==
  /\ MountVolume(m)
  /\ m \notin NoNodes
  /\ manager' = [manager EXCEPT ![m] = TRUE]
  /\ our_proc_dir' = TRUE
  /\ subdir' = <<m>> \o subdir
  /\ UNCHANGED failed

(* init_axfs_profiling gets no memory (never any for no nodes: vmalloc of  *)
(* no bytes fails); fill_super does not look.                              *)
VmallocFails(m) ==
  /\ MountVolume(m)
  /\ failed' = (failed \/ m \notin NoNodes)
  /\ UNCHANGED <<our_proc_dir, subdir, manager>>

(* proc_mkdir fails; init_axfs_profiling does not look.                    *)
MkdirFails(m) ==
  /\ m \notin NoNodes /\ ~our_proc_dir
  /\ MountVolume(m)
  /\ failed' = TRUE
  /\ manager' = [manager EXCEPT ![m] = TRUE]
  /\ UNCHANGED <<our_proc_dir, subdir>>

(* Mutant: the new directory is left when the file cannot be made.         *)
CreateEntryFailsKept(m) ==
  /\ m \notin NoNodes
  /\ MountVolume(m)
  /\ failed' = TRUE
  /\ manager' = [manager EXCEPT ![m] = TRUE]
  /\ our_proc_dir' = TRUE
  /\ UNCHANGED subdir

(* create_proc_entry fails: the directory goes if it is empty.             *)
CreateEntryFails(m) ==
  /\ m \notin NoNodes
  /\ MountVolume(m)
  /\ failed' = TRUE
  /\ manager' = [manager EXCEPT ![m] = TRUE]
  /\ our_proc_dir' = (subdir # <<>>)
  /\ UNCHANGED subdir

-----------------------------------------------------------------------------
(* shutdown_axfs_profiling, and the rest of put_super, which frees the     *)
(* superblock whatever it returns.                                         *)

Unmounting(m) ==
  /\ mount[m] = "in"
  /\ disorder' = (disorder \/ Last(order) # m)
  /\ UNCHANGED failed

Unmounted(m) ==
  /\ mount' = [mount EXCEPT ![m] = "out"]
  /\ \E k \in DOMAIN order : order[k] = m /\ order' = RemoveAt(order, k)
  /\ UNCHANGED user

(* An image without nodes has nothing to be released, and no directory is  *)
(* searched for it.                                                        *)
ShutdownNoNodes(m) ==
  /\ Unmounting(m)
  /\ m \in NoNodes
  /\ Unmounted(m)
  /\ UNCHANGED <<our_proc_dir, subdir, manager>>

Stuck(m) ==
  /\ mount' = [mount EXCEPT ![m] = "stuck"]
  /\ UNCHANGED <<order, our_proc_dir, subdir, manager, user>>

(* delete_proc_file follows our_proc_dir, which may be NULL.               *)
ShutdownNoDirectory(m) ==
  /\ Unmounting(m)
  /\ m \notin NoNodes
  /\ ~our_proc_dir
  /\ Stuck(m)

Searches(m) ==
  /\ Unmounting(m)
  /\ m \notin NoNodes
  /\ our_proc_dir /\ subdir # <<>>

(* Mutant: the name that is removed is that of the oldest file.            *)
RemoveEntryOldest(m) ==
  /\ Searches(m)
  /\ Head(subdir) = m
  /\ subdir' = Front(subdir)
  /\ mount' = [mount EXCEPT ![m] = "removing"]
  /\ UNCHANGED <<order, our_proc_dir, manager, user>>

(* The first file of the directory is the volume's: it is removed.         *)
RemoveEntry(m) ==
  /\ Searches(m)
  /\ Head(subdir) = m
  /\ subdir' = Tail(subdir)
  /\ mount' = [mount EXCEPT ![m] = "removing"]
  /\ UNCHANGED <<order, our_proc_dir, manager, user>>

(* Mutant: the users of the other files are waited for as well.            *)
RemovedQuiet(m) ==
  /\ mount[m] = "removing"
  /\ \A u \in Users : user[u] = NoMount
  /\ our_proc_dir' = KeepDirectory(subdir)
  /\ manager' = [manager EXCEPT ![m] = FALSE]
  /\ Unmounted(m)
  /\ UNCHANGED <<subdir, disorder, failed>>

(* Mutant: the manager is not freed.                                       *)
RemovedKept(m) ==
  /\ mount[m] = "removing"
  /\ \A u \in Users : user[u] # m
  /\ our_proc_dir' = KeepDirectory(subdir)
  /\ Unmounted(m)
  /\ UNCHANGED <<subdir, manager, disorder, failed>>

Removed(m) ==
  /\ mount[m] = "removing"
  /\ \A u \in Users : user[u] # m
  /\ our_proc_dir' = KeepDirectory(subdir)
  /\ manager' = [manager EXCEPT ![m] = FALSE]
  /\ Unmounted(m)
  /\ UNCHANGED <<subdir, disorder, failed>>

(* The first file is another volume's.  The search goes on with            *)
(* our_proc_dir->next, which is what follows the directory in /proc, and   *)
(* stays there if that has data.                                           *)
SearchEnds(m) ==
  /\ Searches(m)
  /\ Head(subdir) # m
  /\ "none" \in Siblings
  /\ Unmounted(m)
  /\ UNCHANGED <<our_proc_dir, subdir, manager>>

(* There is no file in the directory, as another volume's is on its way    *)
(* out, and nobody else will find the directory again.                     *)
SearchEmpty(m) ==
  /\ Unmounting(m)
  /\ m \notin NoNodes
  /\ our_proc_dir /\ subdir = <<>>
  /\ our_proc_dir' = KeepDirectory(subdir)
  /\ Unmounted(m)
  /\ UNCHANGED <<subdir, manager>>

SearchNeverEnds(m) ==
  /\ Searches(m)
  /\ Head(subdir) # m
  /\ "data" \in Siblings
  /\ Stuck(m)

-----------------------------------------------------------------------------
(* procfile_read or procfile_write, by user u on the file of volume m.     *)
Enter(u, m) ==
  /\ user[u] = NoMount
  /\ Contains(subdir, m)
  /\ user' = [user EXCEPT ![u] = m]
  /\ UNCHANGED <<mount, order, our_proc_dir, subdir, manager, disorder, failed>>

Leave(u) ==
  /\ user[u] # NoMount
  /\ user' = [user EXCEPT ![u] = NoMount]
  /\ UNCHANGED <<mount, order, our_proc_dir, subdir, manager, disorder, failed>>

Volume(m) ==
  \/ Register(m) \/ VmallocFails(m) \/ MkdirFails(m) \/ CreateEntryFails(m)
  \/ ShutdownNoNodes(m) \/ ShutdownNoDirectory(m)
  \/ RemoveEntry(m) \/ Removed(m) \/ SearchEnds(m) \/ SearchEmpty(m)
  \/ SearchNeverEnds(m)

Next ==
  \/ \E m \in Mounts : Volume(m)
  \/ \E u \in Users : Leave(u) \/ \E m \in Mounts : Enter(u, m)

Spec == Init /\ [][Next]_vars

(* A user inside a file leaves it, and remove_proc_entry then returns.     *)
FairSpec ==
  /\ Spec
  /\ \A u \in Users : WF_vars(Leave(u))
  /\ \A m \in Mounts : WF_vars(Removed(m))

-----------------------------------------------------------------------------
TypeOK ==
  /\ mount \in [Mounts -> {"out", "in", "removing", "stuck"}]
  /\ IsInjective(order) /\ ToSet(order) = {m \in Mounts : mount[m] # "out"}
  /\ our_proc_dir \in BOOLEAN
  /\ IsInjective(subdir) /\ ToSet(subdir) \subseteq {m \in Mounts : manager[m]}
  /\ user \in [Users -> Mounts \cup {NoMount}]
  /\ disorder \in BOOLEAN /\ failed \in BOOLEAN

(* The directory is there exactly as long as there is a file in it, or one *)
(* on its way out, whatever fails and in whatever order volumes come and   *)
(* go ("Removes the proc directory once all of the proc files have been    *)
(* removed").                                                              *)
DirectoryWithFiles ==
  /\ subdir # <<>> => our_proc_dir
  /\ our_proc_dir => subdir # <<>> \/ \E m \in Mounts : mount[m] = "removing"

(* Each file belongs to a volume that is mounted, so that no one who opens *)
(* it reaches a superblock that is freed ("Walk through the proc file      *)
(* entries to find the matching sbi").                                     *)
FilesLive == \A m \in ToSet(subdir) : mount[m] = "in"

(* So it is while the volume unmounted was always the last one mounted,    *)
(* whatever could not be had when it was mounted.                          *)
OrderlyFilesLive == ~disorder => FilesLive

(* The manager and the superblock then stay as long as someone uses the    *)
(* file.                                                                   *)
UsersSafe ==
  ~disorder =>
    \A u \in Users : user[u] # NoMount =>
      manager[user[u]] /\ mount[user[u]] \in {"in", "removing"}

(* Unmounting a volume then comes to an end and releases its manager, if   *)
(* it got its file ("Remove the proc file for this volume and release the  *)
(* memory in the profiling manager").                                      *)
Released ==
  ~disorder /\ ~failed =>
    \A m \in Mounts : mount[m] # "stuck" /\ (mount[m] = "out" => ~manager[m])

(* The unmount of a volume ends although its file is in use.               *)
RemovalEnds == \A m \in Mounts : mount[m] = "removing" ~> mount[m] = "out"

(* The files in /proc/axfs are those of managers that exist, and the       *)
(* directory comes and goes with them.                                     *)
DirectoryRight == TypeOK /\ DirectoryWithFiles

(* Through a file, neither one who opens it nor one who is inside it gets  *)
(* to a superblock or a manager that is freed.                             *)
FilesSafe == OrderlyFilesLive /\ UsersSafe
=============================================================================
