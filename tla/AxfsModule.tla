------------------------------ MODULE AxfsModule ------------------------------
(***************************************************************************)
(* The kernel module: init_axfs_fs and exit_axfs_fs (axfs_inode.c), which  *)
(* set up and release the one zlib stream (axfs_uncompress.c), around the  *)
(* volumes and profile files of AxfsProcfs.                                *)
(*                                                                         *)
(* External: the kernel lets the module go only when no superblock refers  *)
(* to it (axfs_fs_type.owner), and lets no mount begin before it is loaded *)
(* or while it goes.  Its static data starts afresh with each load; what   *)
(* it has left in /proc stays there.                                       *)
(***************************************************************************)
EXTENDS AxfsProcfs, Integers

VARIABLES
  module,       \* whether the module is loaded
  initialized,  \* the counter of axfs_uncompress.c
  workspace,    \* whether stream.workspace holds memory
  nomemory,     \* whether axfs_uncompress_init of this load got no memory
                \* (history)
  left          \* what the module that was there before has left: "files", its
                \* "workspace", or that of one "not registered" (history)

moduleVars == <<module, initialized, workspace, nomemory, left>>
allVars == <<vars, moduleVars>>

ModuleInit ==
  /\ Init
  /\ module = FALSE
  /\ initialized = 0
  /\ workspace = FALSE
  /\ nomemory = FALSE
  /\ left = {}

-----------------------------------------------------------------------------
(* Mutant: the counter is taken to be that of the users already there.     *)
UncompressInitCounted(n) == [initialized |-> n + 1, sets |-> n + 1 > 1]

(* axfs_uncompress_init, when the counter is n and there is memory.        *)
UncompressInit(n) == [initialized |-> n + 1, sets |-> n = 0]

(* axfs_uncompress_exit.                                                   *)
UncompressExit(n) == [initialized |-> n - 1, releases |-> n - 1 = 0]

(* A module that is loaded knows of no file in /proc.                      *)
Fresh ==
  /\ ~module
  /\ our_proc_dir' = FALSE /\ subdir' = <<>>
  /\ UNCHANGED <<mount, order, manager, user, disorder, failed>>

Load ==
  LET u == UncompressInit(initialized)
  IN  /\ Fresh
      /\ module' = TRUE
      /\ nomemory' = FALSE
      /\ initialized' = u.initialized
      /\ workspace' = u.sets
      /\ left' = {}

(* axfs_uncompress_init gets no memory; init_axfs_fs does not look.        *)
LoadNoMemory ==
  /\ Fresh
  /\ module' = TRUE
  /\ nomemory' = TRUE
  /\ left' = {}
  /\ UNCHANGED <<initialized, workspace>>

(* register_filesystem fails, and the module is gone again.                *)
LoadFails ==
  /\ Fresh
  /\ left' = IF UncompressInit(initialized).sets THEN {"not registered"} ELSE {}
  /\ UNCHANGED <<module, initialized, workspace, nomemory>>

(* exit_axfs_fs, and the static data gone with it.                         *)
Unload ==
  LET u == UncompressExit(initialized)
  IN  /\ module
      /\ \A m \in Mounts : mount[m] = "out"
      /\ module' = FALSE
      /\ initialized' = 0
      /\ workspace' = FALSE
      /\ left' = (IF workspace /\ ~u.releases THEN {"workspace"} ELSE {})
                \cup (IF subdir # <<>> THEN {"files"} ELSE {})
      /\ UNCHANGED <<vars, nomemory>>

ModuleNext ==
  \/ Load \/ LoadNoMemory \/ LoadFails \/ Unload
  \/ (Next /\ module /\ UNCHANGED moduleVars)

ModuleSpec == ModuleInit /\ [][ModuleNext]_allVars

FairModuleSpec ==
  /\ ModuleSpec
  /\ \A u \in Users : WF_allVars(Leave(u) /\ module /\ UNCHANGED moduleVars)
  /\ \A m \in Mounts : WF_allVars(Removed(m) /\ module /\ UNCHANGED moduleVars)

-----------------------------------------------------------------------------
(* Volumes are mounted only while the stream is set up, unless there was   *)
(* no memory for it when the module was loaded ("we'll initialize it only  *)
(* once even if it then is used by multiple filesystems").                 *)
StreamReady ==
  (\E m \in Mounts : mount[m] # "out") /\ ~nomemory => module /\ workspace

(* A module that was loaded has released the stream when it is gone        *)
(* ("Cleans up zlib stream once all users exit"); and, if the last volume  *)
(* mounted was always unmounted first, it has left no file, no directory   *)
(* and nobody inside its code.                                             *)
NothingAfterUnload ==
  /\ "workspace" \notin left
  /\ ~disorder => "files" \notin left
  /\ ~disorder /\ ~module => ~our_proc_dir /\ \A u \in Users : user[u] = NoMount

(* The stream is set up before it is used, whatever was not had            *)
(* (axfs_uncompress_init: "Returns: 0 or error number").                   *)
StreamReadyAlways == (\E m \in Mounts : mount[m] # "out") => workspace

(* Nothing is left by a module that is gone.                                *)
LeftNothing == left = {}

(* What is set up for the module is there for as long as a volume needs    *)
(* it, and no longer than the module.                                      *)
ModuleSound == StreamReady /\ NothingAfterUnload
=============================================================================
