------------------------------- MODULE AxfsDir -------------------------------
(***************************************************************************)
(* Directories and inodes (axfs_inode.c): axfs_lookup, axfs_readdir and    *)
(* axfs_create_vfs_inode with iget5_locked's two helpers.                  *)
(*                                                                         *)
(* The VFS is external.  It calls axfs_lookup for a name that it has no    *)
(* dentry for, one call per directory at a time (i_mutex), and keeps the   *)
(* answer, positive or negative, as a dentry until it drops it; an inode   *)
(* without a dentry stays in memory until it is evicted.  It calls         *)
(* axfs_readdir for an open directory, with a buffer that filldir fills,   *)
(* also under i_mutex: a call of either is one step.                       *)
(*                                                                         *)
(* An image is the tables by inode number; a name is a sequence of bytes.  *)
(***************************************************************************)
EXTENDS Integers, Sequences, FiniteSets, FiniteSetsExt

CONSTANTS
  inode_num_entries, inode_array_index, inode_name, mode, inode_file_size,
  Names,      \* the names that are looked up
  CHAR_MIN,   \* of the build's char: -128, or 0 if it is unsigned
  Garbage,    \* what the four bytes after inode_number on the stack can hold
  Slots,      \* memory for VFS inodes
  Files,      \* open directories
  ReadSizes,  \* buffers of a directory read, in bytes of names
  MaxSeek,    \* bound: positions that the user seeks to
  MaxCached   \* bound: dentries that are cached at a time

Inodes == DOMAIN mode

S_IFMT(m) == m \div 4096
S_IFCHR == 2  S_IFDIR == 4  S_IFREG == 8  S_IFLNK == 10

IsDir(n) == S_IFMT(mode[n]) = S_IFDIR
Dirs == {n \in Inodes : IsDir(n)}

(* The entries of directory d are the inodes from its array index on.      *)
EntryInode(d, i) == inode_array_index[d] + i
Entries(d) == 0 .. inode_num_entries[d] - 1

(* Bytes compared as unsigned, as memcmp and strcmp do.                    *)
Less(a, b) ==
  \/ \E k \in DOMAIN a \cap DOMAIN b :
       /\ a[k] < b[k]
       /\ \A j \in 1 .. k - 1 : a[j] = b[j]
  \/ /\ Len(a) < Len(b)
     /\ \A j \in DOMAIN a : a[j] = b[j]

(* "alpha sorted directories"; each inode is an entry of one directory.    *)
ASSUME DirAssumption ==
  /\ {inode_num_entries, inode_array_index, inode_file_size}
       \subseteq [Inodes -> Nat]
  /\ \A d \in Dirs :
       /\ \A i \in Entries(d) :
            /\ EntryInode(d, i) \in Inodes \ {0}
            /\ inode_name[EntryInode(d, i)] \in Seq(0 .. 255) \ {<<>>}
       /\ \A i, j \in Entries(d) : i < j =>
            Less(inode_name[EntryInode(d, i)], inode_name[EntryInode(d, j)])
  /\ \A d, e \in Dirs : d # e =>
       {EntryInode(d, i) : i \in Entries(d)}
         \cap {EntryInode(e, i) : i \in Entries(e)} = {}
  /\ Inodes \subseteq Nat /\ 0 \in Dirs
  /\ Names \subseteq Seq(0 .. 255) \ {<<>>}
  /\ {"none", "negative"} \cap Slots = {}
  /\ ReadSizes \subseteq Nat /\ MaxSeek \in Nat
  /\ CHAR_MIN \in {-128, 0}

VARIABLES
  inode,   \* inode[s]: a VFS inode, or Free
  root,    \* where the root's inode is
  dentry,  \* dentry[<<d, n>>]: where the inode of name n of directory d is,
           \* "negative", or "none"
  file,    \* file[f]: an open directory, or Closed
  failed   \* the names for which there was no memory (history)

vars == <<inode, root, dentry, file, failed>>

Free == [i_ino |-> -1]
Closed == [dir |-> -1]

-----------------------------------------------------------------------------
(* axfs_create_vfs_inode.                                                  *)

(* What the inode's operations and its size depend on.                     *)
Kind(n) ==
  CASE S_IFMT(mode[n]) = S_IFREG -> "file"
    [] S_IFMT(mode[n]) = S_IFDIR -> "directory"
    [] S_IFMT(mode[n]) = S_IFLNK -> "link"
    [] OTHER -> "special"

FilledInode(n) ==
  [i_ino |-> n, i_mode |-> mode[n], i_op |-> Kind(n),
   i_size |-> IF Kind(n) = "special" THEN 0 ELSE inode_file_size[n],
   i_blocks |-> IF Kind(n) = "special" THEN 0 ELSE inode_num_entries[n]]

(* *inode_number: eight bytes, of which the upper four are garbage g (with *)
(* the lower bytes first in memory).                                       *)
Key(n, g) == <<g, n>>

axfs_iget5_test(s, key) == inode[s] # Free /\ <<0, inode[s].i_ino>> = key

(* The slots where iget5_locked, asked for key, finds an inode.            *)
Found(key) == {s \in Slots : axfs_iget5_test(s, key)}

Init ==
  /\ root \in Slots
  /\ inode = [s \in Slots |-> IF s = root THEN FilledInode(0) ELSE Free]
  /\ dentry = [x \in Dirs \X Names |-> "none"]
  /\ file = [f \in Files |-> Closed]
  /\ failed = {}

-----------------------------------------------------------------------------
(* axfs_lookup: the loop over the entries.                                 *)

AsChar(c) == IF c >= 128 THEN c + 2 * CHAR_MIN ELSE c

(* Mutant: the first letters are compared as signed on both sides.         *)
BreaksEarlySigned(name, e) == AsChar(name[1]) < AsChar(e[1])

(* The fast test; the dentry's name is of unsigned char, the entry's of    *)
(* char.                                                                   *)
BreaksEarly(name, e) == name[1] < AsChar(e[1])

(* Mutant: the lengths are not compared.                                   *)
EndsAtPrefix(name, e) ==
  \/ BreaksEarly(name, e)
  \/ Len(e) <= Len(name) /\ e = SubSeq(name, 1, Len(e))
  \/ Less(name, e)

(* The entry that ends the loop: passed by, or found (err <= 0).           *)
EndsAt(name, e) ==
  BreaksEarly(name, e) \/ (Len(name) = Len(e) /\ (name = e \/ Less(name, e)))

(* The inode that is found under name in directory d, as a set.            *)
Find(d, name) ==
  LET Name(i) == inode_name[EntryInode(d, i)]
      ends == {i \in Entries(d) : EndsAt(name, Name(i))}
  IN  {EntryInode(d, i) : i \in {i \in ends :
         /\ i = Min(ends)
         /\ ~BreaksEarly(name, Name(i))
         /\ Len(Name(i)) <= Len(name)
         /\ SubSeq(name, 1, Len(Name(i))) = Name(i)}}

(* s holds a directory that is in use, and name is not in the dcache.      *)
Used == {root} \cup {s \in Slots : \E d \in Dirs, n \in Names : dentry[<<d, n>>] = s}

Asks(s, name) ==
  /\ s \in Used
  /\ inode[s].i_op = "directory"
  /\ dentry[<<inode[s].i_ino, name>>] = "none"
  /\ Cardinality({x \in DOMAIN dentry : dentry[x] # "none"}) < MaxCached

Answer(s, name, a) == dentry' = [dentry EXCEPT ![<<inode[s].i_ino, name>>] = a]

LookupAbsent(s, name) ==
  /\ Asks(s, name)
  /\ Find(inode[s].i_ino, name) = {}
  /\ Answer(s, name, "negative")
  /\ UNCHANGED <<inode, root, file, failed>>

(* The inode is in memory already.                                         *)
LookupFinds(s, name, g) ==
  /\ Asks(s, name)
  /\ \E n \in Find(inode[s].i_ino, name) : \E s2 \in Found(Key(n, g)) :
       Answer(s, name, s2)
  /\ UNCHANGED <<inode, root, file, failed>>

LookupCreates(s, name, g) ==
  /\ Asks(s, name)
  /\ \E n \in Find(inode[s].i_ino, name), s2 \in Slots :
       /\ Found(Key(n, g)) = {}
       /\ inode[s2] = Free
       /\ inode' = [inode EXCEPT ![s2] = FilledInode(n)]
       /\ Answer(s, name, s2)
  /\ UNCHANGED <<root, file, failed>>

(* No memory: axfs_create_vfs_inode returns NULL, which is added as well.  *)
LookupNoMemory(s, name, g) ==
  /\ Asks(s, name)
  /\ \E n \in Find(inode[s].i_ino, name) : Found(Key(n, g)) = {}
  /\ Answer(s, name, "negative")
  /\ failed' = failed \cup {<<inode[s].i_ino, name>>}
  /\ UNCHANGED <<inode, root, file>>

-----------------------------------------------------------------------------
(* External: the dcache drops a dentry that nothing below it or nobody     *)
(* needs; an inode without a dentry is evicted.                            *)
Needed(s) ==
  \/ \E f \in Files : file[f] # Closed /\ file[f].slot = s
  \/ /\ inode[s].i_op = "directory"
     /\ \E n \in Names : dentry[<<inode[s].i_ino, n>>] # "none"

Drop(d, n) ==
  /\ dentry[<<d, n>>] # "none"
  /\ dentry[<<d, n>>] \in Slots => ~Needed(dentry[<<d, n>>])
  /\ dentry' = [dentry EXCEPT ![<<d, n>>] = "none"]
  /\ failed' = failed \ {<<d, n>>}
  /\ UNCHANGED <<inode, root, file>>

Evict(s) ==
  /\ s \notin Used /\ inode[s] # Free
  /\ inode' = [inode EXCEPT ![s] = Free]
  /\ UNCHANGED <<root, dentry, file, failed>>

-----------------------------------------------------------------------------
(* Directory reads.                                                        *)

(* A struct file, whose listing begins at position p.                      *)
OpenedAt(d, s, p) ==
  [dir |-> d, slot |-> s, f_pos |-> p, start |-> p, listed |-> <<>>,
   told |-> "nothing"]

Open(f, s) ==
  /\ file[f] = Closed
  /\ s \in Used /\ inode[s].i_op = "directory"
  /\ file' = [file EXCEPT ![f] = OpenedAt(inode[s].i_ino, s, 0)]
  /\ UNCHANGED <<inode, root, dentry, failed>>

Close(f) ==
  /\ file[f] # Closed
  /\ file' = [file EXCEPT ![f] = Closed]
  /\ UNCHANGED <<inode, root, dentry, failed>>

(* generic_file_llseek.                                                    *)
Seek(f, p) ==
  /\ file[f] # Closed
  /\ file' = [file EXCEPT ![f] = OpenedAt(file[f].dir, file[f].slot, p)]
  /\ UNCHANGED <<inode, root, dentry, failed>>

(* What axfs_readdir tells filldir of entry i.  filldir keeps the type in  *)
(* one byte.                                                               *)
Dirent(d, i) ==
  LET n == EntryInode(d, i)
  IN  [name |-> inode_name[n], d_ino |-> n, d_type |-> mode[n] % 256]

(* The bytes that the entries i .. j - 1 take.                             *)
Bytes(d, i, j) ==
  FoldSet(LAMBDA k, n : n + Len(inode_name[EntryInode(d, k)]), 0, i .. j - 1)

(* The entry that filldir (external) refuses, or the number of entries.    *)
Refused(d, pos, room) ==
  IF pos >= inode_num_entries[d] THEN pos
  ELSE Max({pos} \cup {k \in pos + 1 .. inode_num_entries[d] : Bytes(d, pos, k) <= room})

(* Mutant: the position moves past the entry that filldir has refused.     *)
NextPosPast(d, pos, room) ==
  IF Refused(d, pos, room) < inode_num_entries[d]
  THEN Refused(d, pos, room) + 1 ELSE Refused(d, pos, room)

(* f_pos after the loop of axfs_readdir.                                   *)
NextPos(d, pos, room) == Refused(d, pos, room)

(* axfs_readdir tells filldir nothing.                                     *)
Beyond(d, pos) == pos >= inode_num_entries[d]

(* getdents (external) tells the end of the directory if filldir was not   *)
(* called, and EINVAL if the first entry did not fit.  The result of       *)
(* axfs_readdir is 0 in each case.                                         *)
Readdir(f, room) ==
  LET d == file[f].dir
      pos == file[f].f_pos
      refused == IF Beyond(d, pos) THEN pos ELSE Refused(d, pos, room)
  IN  /\ file[f] # Closed /\ file[f].told # "end"
      /\ file' = [file EXCEPT ![f] = [file[f] EXCEPT
           !.f_pos = IF Beyond(d, pos) THEN pos ELSE NextPos(d, pos, room),
           !.listed = @ \o [k \in 1 .. refused - pos |-> Dirent(d, pos + k - 1)],
           !.told = CASE refused > pos -> "entries"
                      [] Beyond(d, pos) -> "end"
                      [] OTHER -> "einval"]]
      /\ UNCHANGED <<inode, root, dentry, failed>>

Next ==
  \/ \E s \in Slots, name \in Names :
       \/ LookupAbsent(s, name)
       \/ \E g \in Garbage :
            LookupFinds(s, name, g) \/ LookupCreates(s, name, g)
            \/ LookupNoMemory(s, name, g)
  \/ \E d \in Dirs, n \in Names : Drop(d, n)
  \/ \E s \in Slots : Evict(s)
  \/ \E f \in Files :
       \/ \E s \in Slots : Open(f, s)
       \/ \E room \in ReadSizes : Readdir(f, room)
       \/ \E p \in 0 .. MaxSeek : Seek(f, p)
       \/ Close(f)

Spec == Init /\ [][Next]_vars

-----------------------------------------------------------------------------
TypeOK ==
  /\ root \in Slots /\ inode[root] # Free
  /\ \A s \in Slots : inode[s] = Free \/ inode[s].i_ino \in Inodes
  /\ dentry \in [Dirs \X Names -> Slots \cup {"none", "negative"}]
  /\ \A f \in Files : file[f] # Closed =>
       file[f].dir \in Dirs /\ file[f].slot \in Slots /\ file[f].f_pos \in Nat
  /\ failed \subseteq Dirs \X Names

(* The inodes of directory d that are called name.                         *)
Named(d, name) ==
  {n \in Inodes : \E i \in Entries(d) : n = EntryInode(d, i) /\ inode_name[n] = name}

(* A name that has been looked up has an inode exactly if the directory    *)
(* has an entry of that name, whatever bytes it is made of, and it is that *)
(* entry's, fit for its type; unless there was no memory for it.  An inode *)
(* that has been in memory since before is no other than one that is made  *)
(* anew.                                                                   *)
LookupRight ==
  \A d \in Dirs, n \in Names :
    /\ dentry[<<d, n>>] = "negative" => Named(d, n) = {} \/ <<d, n>> \in failed
    /\ dentry[<<d, n>>] \in Slots =>
         LET v == inode[dentry[<<d, n>>]]
         IN  /\ v # Free /\ v.i_ino \in Named(d, n)
             /\ v.i_mode = mode[v.i_ino]
             /\ v.i_size = IF v.i_op = "special" THEN 0 ELSE inode_file_size[v.i_ino]

(* No two inodes in use are inodes of the same file, although a file may   *)
(* have two in memory.                                                     *)
OneInUse ==
  \A s, s2 \in Used : inode[s].i_ino = inode[s2].i_ino => s = s2

(* From where it was opened or sought, a directory is listed in order,     *)
(* each entry once, over any sequence of reads with buffers of any size.   *)
ReaddirInOrder ==
  \A f \in Files : file[f] # Closed =>
    /\ file[f].f_pos = file[f].start + Len(file[f].listed)
    /\ \A k \in DOMAIN file[f].listed :
         LET n == EntryInode(file[f].dir, file[f].start + k - 1)
         IN  file[f].listed[k].d_ino = n /\ file[f].listed[k].name = inode_name[n]

(* A reader that is told the end has been listed the last entry.           *)
ReaddirEnds ==
  \A f \in Files : file[f] # Closed /\ file[f].told = "end" =>
    \A i \in Entries(file[f].dir) : i >= file[f].start =>
      \E k \in DOMAIN file[f].listed :
        file[f].listed[k].d_ino = EntryInode(file[f].dir, i)

(* What a directory lists can be looked up in it, and leads to the same    *)
(* inode.                                                                  *)
ListedFound ==
  \A f \in Files : file[f] # Closed =>
    \A k \in DOMAIN file[f].listed :
      LET e == file[f].listed[k]
          a == IF e.name \in Names THEN dentry[<<file[f].dir, e.name>>] ELSE "none"
      IN  /\ a = "negative" => <<file[f].dir, e.name>> \in failed
          /\ a \in Slots => inode[a].i_ino = e.d_ino

(* A file that exists is not reported absent.                              *)
NegativeTrue ==
  \A d \in Dirs, n \in Names : dentry[<<d, n>>] = "negative" => Named(d, n) = {}

(* A file has one inode in memory (axfs_iget5_test: "1 on match").         *)
OneInode ==
  \A s, s2 \in Slots :
    inode[s] # Free /\ inode[s2] # Free /\ inode[s].i_ino = inode[s2].i_ino => s = s2

(* The type of a listed entry is that of the file, or unknown ("fills in   *)
(* the dirent structure").                                                 *)
DirentType ==
  \A f \in Files : file[f] # Closed =>
    \A k \in DOMAIN file[f].listed :
      LET e == file[f].listed[k] IN e.d_type \in {0, S_IFMT(mode[e.d_ino])}

(* A listing is the directory from where it was begun, each entry once and *)
(* in order, whole when the end is told, and of names that lookup finds.   *)
ListingRight == TypeOK /\ ReaddirInOrder /\ ReaddirEnds /\ ListedFound
=============================================================================
