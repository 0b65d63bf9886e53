------------------------------- MODULE AxfsTool -------------------------------
(***************************************************************************)
(* The host tool (src/axfs/axfs.cpp): it loads an image into memory,       *)
(* lists the tree (ls), following links, and reads one file (readFile),    *)
(* with a buffer that keeps the last cblock it inflated.  The kernel reads *)
(* the same images through AxfsImage: what the tool reads is compared with *)
(* that.                                                                   *)
(*                                                                         *)
(* Assertions are compiled in: a failed one ends the program.  External:   *)
(* the inflater (AxfsInflate) and the C library.  There is memory for what *)
(* the tool allocates, and a file that is there is as long as it says; of  *)
(* a write behind its room the model tells that it happens, and goes on as *)
(* if it had hit nothing.                                                  *)
(***************************************************************************)
EXTENDS AxfsImage, Sequences, FiniteSets

CONSTANTS
  super,    \* super[m]: whether image m is there, its magic and compression_type
  region,   \* region[m][name]: a region of image m and its descriptor
  packed,   \* packed[m][c]: where cblock c of image m starts in its region
  tree,     \* tree[m]: the inodes of image m, their kinds, entries and depths
  BYTE,     \* the number of values of a byte, 256
  PERM,     \* what the type in a mode is shifted by, 0010000
  WORD,     \* the number of values of a uint64_t
  LINK,     \* sizeof(linkName)
  Wanted    \* the inodes main may be built to read (19)

ASSUME ToolAssumption ==
  /\ {BYTE, PERM, WORD, LINK} \subseteq Nat \ {0}
  /\ Wanted \subseteq Nat

VARIABLES
  pc,       \* "open", "load", "ls", "read", "print", "exit" or "aborted"
  image,    \* the image opened
  wanted,   \* the inode main reads
  loaded,   \* the regions in memory, by name
  frames,   \* the calls of ls under way, the outermost first
  shown,    \* the lines ls has printed
  rd,       \* the call of readFile under way
  out,      \* the bytes written to where it copies
  cblock_buffer,
  cachedBlock

vars == <<pc, image, wanted, loaded, frames, shown, rd, out, cblock_buffer,
          cachedBlock>>

Least(a, b) == IF a < b THEN a ELSE b

Blocks == DOMAIN sbi[image].cblock_len
CblockSize == sbi[image].cblock_size

(* The regions in the order in which load reads them.                      *)
Regions == <<"xip", "strings", "compressed", "byte_aligned", "node_type",
  "node_index", "cnode_offset", "cnode_index", "banode_offset",
  "cblock_offset", "inode_file_size", "inode_name_offset",
  "inode_num_entries", "inode_mode_index", "inode_array_index", "modes",
  "uids", "gids">>

NoFile == [id |-> 0, cap |-> 0, length |-> 0, node |-> 0]
NoBlock == -1

-----------------------------------------------------------------------------
(* Tables.                                                                 *)

(* axfs_bytetable_stitch: one plane for each byte of an entry.             *)
Stitch(t, index) ==
  LET split == t.size \div t.table_byte_depth
      output[i \in 0 .. t.table_byte_depth] ==
        IF i = t.table_byte_depth THEN 0
        ELSE t.data[index + i * split] + BYTE * output[i + 1]
  IN  output[0]

(* What its assertion lets through.                                        *)
In(name, index) == index < loaded[name].max_index
Get(name, index) == Stitch(loaded[name], index)

(* Byte i of a region in memory.                                           *)
Byte(name, i) ==
  IF i \in DOMAIN loaded[name].data THEN loaded[name].data[i] ELSE Junk

(* The S_IS macros, on the mode that regions r hold of inode id.           *)
KindIn(r, id) ==
  LET type == (Stitch(r["modes"], Stitch(r["inode_mode_index"], id)) \div PERM) % 16
  IN  CASE type = 4  -> "dir"
        [] type = 10 -> "link"
        [] type = 8  -> "file"
        [] OTHER     -> "other"

Kind(id) == KindIn(loaded, id)

-----------------------------------------------------------------------------
Init ==
  /\ pc = "open"
  /\ image \in Mounts
  /\ wanted \in Wanted
  /\ loaded = <<>>
  /\ frames = <<>>
  /\ shown = <<>>
  /\ rd = NoFile
  /\ out = <<>>
  /\ cblock_buffer = [i \in 0 .. CblockSize - 1 |-> Junk]
  /\ cachedBlock = NoBlock

Abort ==
  /\ pc' = "aborted"
  /\ UNCHANGED <<image, wanted, loaded, frames, shown, rd, out, cblock_buffer,
                 cachedBlock>>

(* fopen and the assertions of load let image m through.                   *)
Known(m) ==
  /\ super[m].there
  /\ super[m].magic = "AXFS" /\ super[m].compression_type = "zlib"

Open ==
  /\ pc = "open"
  /\ IF Known(image)
     THEN /\ pc' = "load"
          /\ UNCHANGED <<image, wanted, loaded, frames, shown, rd, out,
                         cblock_buffer, cachedBlock>>
     ELSE Abort

(* A call of ls for directory id.                                          *)
Frame(id) ==
  [first |-> Get("inode_array_index", id),
   numFiles |-> Get("inode_num_entries", id), i |-> 0]

(* loadRegionImpl takes region r.                                          *)
Loadable(r) == r.compressed_size = 0

Missing == Cardinality(DOMAIN loaded) < Len(Regions)

LoadRegion ==
  /\ pc = "load" /\ Missing
  /\ LET name == Regions[Cardinality(DOMAIN loaded) + 1]
     IN
     IF Loadable(region[image][name])
     THEN /\ loaded' = [n \in DOMAIN loaded \cup {name} |->
                          IF n = name THEN region[image][n] ELSE loaded[n]]
          /\ UNCHANGED <<pc, image, wanted, frames, shown, rd, out,
                         cblock_buffer, cachedBlock>>
     ELSE Abort

(* load returns, and main calls ls(0).                                     *)
Loaded ==
  /\ pc = "load" /\ ~Missing
  /\ IF In("inode_num_entries", 0) /\ In("inode_array_index", 0)
     THEN /\ pc' = "ls"
          /\ frames' = <<Frame(0)>>
          /\ UNCHANGED <<image, wanted, loaded, shown, rd, out, cblock_buffer,
                         cachedBlock>>
     ELSE Abort

-----------------------------------------------------------------------------
(* ls.                                                                     *)

Top == frames[Len(frames)]
Entry == Top.first + Top.i

(* The assertions of what ls gets of every entry.                          *)
EntryThere(id) ==
  /\ In("inode_name_offset", id) /\ In("inode_mode_index", id)
  /\ In("modes", Get("inode_mode_index", id))

(* How many pages printInfo shows.                                         *)
PagesShown(id) ==
  (Get("inode_file_size", id) + PAGE_CACHE_SIZE - 1) \div PAGE_CACHE_SIZE

(* printInfo: the types of the nodes of a file, and its assertions.        *)
InfoThere(id) ==
  /\ In("inode_file_size", id) /\ In("inode_array_index", id)
  /\ \A k \in 0 .. PagesShown(id) - 1 :
       LET n == Get("inode_array_index", id) + k
       IN  In("node_type", n) /\ Get("node_type", n) \in 0 .. 2

Info(id) ==
  [k \in 1 .. PagesShown(id) |->
     Get("node_type", Get("inode_array_index", id) + k - 1)]

Line(id, level, info) == [id |-> id, level |-> level, info |-> info]

(* The entry is done with: the next one of the innermost call.             *)
Advanced == [frames EXCEPT ![Len(frames)].i = @ + 1]

(* Mutant: a directory is listed when the one it is in is through.         *)
DescendedLast(id) == <<Frame(id)>> \o Advanced

(* ls calls itself for entry id, and will go on behind it.                 *)
Descended(id) == Append(Advanced, Frame(id))

LsEntry ==
  /\ pc = "ls"
  /\ Top.i < Top.numFiles
  /\ LET id == Entry
         level == Len(frames) - 1
     IN  IF ~EntryThere(id) THEN Abort
         ELSE CASE Kind(id) = "dir" ->
                IF In("inode_num_entries", id) /\ In("inode_array_index", id)
                THEN /\ shown' = Append(shown, Line(id, level, <<>>))
                     /\ frames' = Descended(id)
                     /\ UNCHANGED <<pc, image, wanted, loaded, rd, out,
                                    cblock_buffer, cachedBlock>>
                ELSE Abort
              [] Kind(id) = "file" ->
                IF InfoThere(id)
                THEN /\ shown' = Append(shown, Line(id, level, Info(id)))
                     /\ frames' = Advanced
                     /\ UNCHANGED <<pc, image, wanted, loaded, rd, out,
                                    cblock_buffer, cachedBlock>>
                ELSE Abort
              [] Kind(id) = "other" ->
                /\ shown' = Append(shown, Line(id, level, <<>>))
                /\ frames' = Advanced
                /\ UNCHANGED <<pc, image, wanted, loaded, rd, out,
                               cblock_buffer, cachedBlock>>
              [] OTHER -> FALSE

(* A call of readFile(id, _, 0, length) into cap bytes.                    *)
ReadFile(id, cap) ==
  [id |-> id, cap |-> cap, length |-> Least(Get("inode_file_size", id), cap),
   node |-> Get("inode_array_index", id)]

FileThere(id) == In("inode_file_size", id) /\ In("inode_array_index", id)

LsLink ==
  /\ pc = "ls"
  /\ Top.i < Top.numFiles
  /\ EntryThere(Entry) /\ Kind(Entry) = "link"
  /\ IF FileThere(Entry)
     THEN /\ pc' = "read"
          /\ rd' = ReadFile(Entry, LINK)
          /\ UNCHANGED <<image, wanted, loaded, frames, shown, out,
                         cblock_buffer, cachedBlock>>
     ELSE Abort

(* A call of ls returns, into another or into main, which reads wanted.    *)
LsReturn ==
  /\ pc = "ls"
  /\ Top.i = Top.numFiles
  /\ frames' = SubSeq(frames, 1, Len(frames) - 1)
  /\ UNCHANGED <<image, wanted, loaded, shown, out, cblock_buffer, cachedBlock>>
  /\ IF frames' # <<>> THEN UNCHANGED <<pc, rd>>
     ELSE IF FileThere(wanted)
     THEN pc' = "read" /\ rd' = ReadFile(wanted, Get("inode_file_size", wanted))
     ELSE pc' = "aborted" /\ UNCHANGED rd

-----------------------------------------------------------------------------
(* readFile.                                                               *)

NodeThere ==
  /\ In("node_index", rd.node) /\ In("node_type", rd.node)
  /\ Get("node_type", rd.node) \in 0 .. 2

(* The bytes src are copied.                                               *)
Copied(src) ==
  /\ out' = out \o src
  /\ rd' = [rd EXCEPT !.length = (@ - Len(src)) % WORD, !.node = @ + 1]

(* Mutant: a whole page is copied.                                         *)
AlignedLengthPage(length) == PAGE_CACHE_SIZE

AlignedLength(length) == Least(PAGE_CACHE_SIZE, length)

ReadAligned ==
  /\ Get("node_type", rd.node) = Byte_Aligned
  /\ LET nodeIndex == Get("node_index", rd.node)
         srcOffset == Get("banode_offset", nodeIndex)
     IN  IF In("banode_offset", nodeIndex)
         THEN /\ Copied([k \in 1 .. AlignedLength(rd.length) |->
                          Byte("byte_aligned", srcOffset + k - 1)])
              /\ UNCHANGED <<pc, image, wanted, loaded, frames, shown,
                             cblock_buffer, cachedBlock>>
         ELSE Abort

(* A whole page, whatever is left to read.                                 *)
ReadXip ==
  /\ Get("node_type", rd.node) = XIP
  /\ LET at == Get("node_index", rd.node) * PAGE_CACHE_SIZE
     IN  Copied([k \in 1 .. PAGE_CACHE_SIZE |-> Byte("xip", at + k - 1)])
  /\ UNCHANGED <<pc, image, wanted, loaded, frames, shown, cblock_buffer,
                 cachedBlock>>

(* What stbi_zlib_decode_buffer makes of the buffer, from len bytes: the   *)
(* cblock that lies there, or, when there is none or it does not inflate,  *)
(* nothing of use.  Behind a short cblock the buffer keeps what it held.   *)
Inflated(from, len) ==
  LET there == {c \in Blocks \ sbi[image].bad_cblocks :
                  packed[image][c] = from /\ packed[image][c + 1] - from = len}
  IN  [i \in DOMAIN cblock_buffer |->
         IF there = {} THEN Junk
         ELSE LET c == CHOOSE c \in there : TRUE
              IN  IF i < sbi[image].cblock_len[c]
                  THEN CBlockByte(image, c, i) ELSE cblock_buffer[i]]

(* Mutant: the block is taken to be there once any has been inflated.      *)
IsCachedAny(c) == cachedBlock # NoBlock

IsCached(c) == cachedBlock = c

(* The buffer, once it is to hold cblock c.                                *)
Held(c) ==
  IF IsCached(c) THEN cblock_buffer
  ELSE LET srcOffset == Get("cblock_offset", c)
       IN  Inflated(srcOffset, Get("cblock_offset", c + 1) - srcOffset)

(* Byte i of the buffer buf.                                               *)
Buffer(buf, i) == IF i \in DOMAIN buf THEN buf[i] ELSE Junk

CompressedThere(n) ==
  /\ In("cnode_offset", n) /\ In("cnode_index", n)
  /\ In("cblock_offset", Get("cnode_index", n) + 1)

ReadCompressed ==
  /\ Get("node_type", rd.node) = Compressed
  /\ \E nodeIndex \in {Get("node_index", rd.node)} :
       IF CompressedThere(nodeIndex)
       THEN LET cnodeOffset == Get("cnode_offset", nodeIndex)
                n == Least((CblockSize - cnodeOffset) % WORD, rd.length)
            IN  /\ cachedBlock' = Get("cnode_index", nodeIndex)
                /\ cblock_buffer' = Held(cachedBlock')
                /\ Copied([k \in 1 .. n |->
                             Buffer(cblock_buffer', cnodeOffset + k - 1)])
                /\ UNCHANGED <<pc, image, wanted, loaded, frames, shown>>
       ELSE Abort

ReadNode ==
  /\ pc = "read" /\ rd.length > 0
  /\ IF NodeThere THEN ReadAligned \/ ReadXip \/ ReadCompressed ELSE Abort

(* readFile returns to main, which ends.                                   *)
ReadReturns ==
  /\ pc = "read" /\ rd.length = 0 /\ frames = <<>>
  /\ pc' = "exit"
  /\ out' = <<>>
  /\ rd' = NoFile
  /\ UNCHANGED <<image, wanted, loaded, frames, shown, cblock_buffer, cachedBlock>>

(* The bytes name, and a 0 behind the first size of them: what lies        *)
(* between is what the buffer held before.                                 *)
Terminated(name, size) ==
  [i \in 1 .. IF size < Len(name) THEN Len(name) ELSE size + 1 |->
     IF i = size + 1 THEN Zero ELSE IF i <= Len(name) THEN name[i] ELSE Junk]

(* readFile returns to ls, which ends the name where the link ends.        *)
LsTerminate ==
  /\ pc = "read" /\ rd.length = 0 /\ frames # <<>>
  /\ pc' = "print"
  /\ out' = Terminated(out, Get("inode_file_size", rd.id))
  /\ UNCHANGED <<image, wanted, loaded, frames, shown, rd, cblock_buffer,
                 cachedBlock>>

(* ls prints the link, and goes on.                                        *)
LsPrint ==
  /\ pc = "print"
  /\ pc' = "ls"
  /\ shown' = Append(shown, Line(Entry, Len(frames) - 1,
                         SubSeq(out, 1, Get("inode_file_size", rd.id))))
  /\ frames' = Advanced
  /\ out' = <<>>
  /\ rd' = NoFile
  /\ UNCHANGED <<image, wanted, loaded, cblock_buffer, cachedBlock>>

-----------------------------------------------------------------------------
Next ==
  \/ Open \/ LoadRegion \/ Loaded \/ LsEntry \/ LsLink \/ LsReturn
  \/ ReadNode \/ LsTerminate \/ LsPrint \/ ReadReturns

(* The process is gone.                                                    *)
Gone == pc \in {"exit", "aborted"} /\ UNCHANGED vars

Spec == Init /\ [][Next \/ Gone]_vars

-----------------------------------------------------------------------------
TypeOK ==
  /\ pc \in {"open", "load", "ls", "read", "print", "exit", "aborted"}
  /\ wanted \in Wanted
  /\ \E n \in 0 .. Len(Regions) :
       DOMAIN loaded = {Regions[k] : k \in 1 .. n}
  /\ \A k \in 1 .. Len(frames) : frames[k].i \in 0 .. frames[k].numFiles
  /\ rd.length \in 0 .. WORD - 1
  /\ cachedBlock \in Blocks \cup {NoBlock}
  /\ DOMAIN cblock_buffer = 0 .. CblockSize - 1
  /\ pc \in {"ls", "print"} => frames # <<>>

(* The page that holds byte pos of inode id, as the kernel sees it.        *)
PageOf(id, pos) == [m |-> image, ino |-> id, index |-> pos \div PAGE_CACHE_SIZE]

(* How many bytes of its inode the call of readFile is to bring.           *)
Total == Least(FileSize(PageOf(rd.id, 0)), rd.cap)

(* They end within an XIP page, which readFile copies whole: length is     *)
(* then less than what is taken from it.                                   *)
Overreaches ==
  /\ Total % PAGE_CACHE_SIZE # 0
  /\ NodeType(PageOf(rd.id, Total)) = XIP

(* Nothing is written behind the room there is for it.                     *)
InRoom == Len(out) <= rd.cap

(* readFile, which copies cblocks to their end and pages of files of any   *)
(* length, and ls, which ends the name of a link, write nothing behind the *)
(* room there is for it, but in two cases: the bytes asked for end within  *)
(* an XIP page, or a link fills linkName.                                  *)
Fits ==
  ~InRoom => \/ Overreaches
             \/ pc = "print" /\ FileSize(PageOf(rd.id, 0)) >= rd.cap

(* Every byte of the file that readFile has copied, for ls or for main, is *)
(* the one that readpage would put there, unless it lies in a cblock that  *)
(* does not inflate, whatever was read before and left in the buffer; and  *)
(* what it returns is the file, or as much of it as was asked for, unless  *)
(* that ends within an XIP page.                                           *)
ReadRight ==
  pc = "read" =>
    /\ \A i \in 1 .. Least(Len(out), Total) :
         LET r == PageOf(rd.id, i - 1)
         IN  \/ out[i] = NodeByte(r, (i - 1) % PAGE_CACHE_SIZE)
             \/ Corrupt(r)
    /\ rd.length = 0 => Len(out) = Total \/ Overreaches

(***************************************************************************)
(* What Fits and ReadRight rest on: the image holds the tables that        *)
(* AxfsImage gives, and its files are laid out as the tool takes them.     *)
(***************************************************************************)

(* Table f lies in the region called name.                                 *)
Stores(m, name, f) ==
  /\ region[m][name].max_index \in Nat
  /\ DOMAIN f = 0 .. region[m][name].max_index - 1
  /\ \A i \in DOMAIN f : Stitch(region[m][name], i) = f[i]

StoresTables(m) ==
  /\ Stores(m, "inode_file_size", sbi[m].inode_file_size)
  /\ Stores(m, "inode_array_index", sbi[m].inode_array_index)
  /\ Stores(m, "inode_num_entries", tree[m].num_entries)
  /\ tree[m].num_entries \in [DOMAIN tree[m].num_entries -> Nat]
  /\ Stores(m, "node_type", sbi[m].node_type)
  /\ Stores(m, "node_index", sbi[m].node_index)
  /\ Stores(m, "cnode_offset", sbi[m].cnode_offset)
  /\ Stores(m, "cnode_index", sbi[m].cnode_index)
  /\ Stores(m, "banode_offset", sbi[m].banode_offset)
  /\ Stores(m, "cblock_offset", packed[m])

(* The named bytes from i up to j lie there in a region.                   *)
StoresBytes(m, name, i, j, named(_, _)) ==
  \A b \in i .. j - 1 :
    b \in DOMAIN region[m][name].data /\ region[m][name].data[b] = named(m, b)

(* The nodes of the first n bytes of inode id: a cblock does not reach     *)
(* beyond the page that is read of it, unless the file ends there          *)
(* (readFile goes on to the next node with what it has copied).            *)
Readable(m, id, n) ==
  \A pos \in 0 .. n - 1 :
    LET r == [m |-> m, ino |-> id, index |-> pos \div PAGE_CACHE_SIZE]
        at == NodeIndex(r) * PAGE_CACHE_SIZE
    IN  /\ StoredOK(r)
        /\ NodeType(r) = XIP =>
             StoresBytes(m, "xip", at, at + PAGE_CACHE_SIZE, XIPByte)
        /\ NodeType(r) = Compressed =>
             Least(sbi[m].cblock_size - CnodeOffset(r),
                   FileSize(r) - r.index * PAGE_CACHE_SIZE) = FileBytes(r)

IsLink(m, id) == KindIn(region[m], id) = "link"

LaidOut(m) ==
  /\ StoresTables(m)
  /\ sbi[m].cblock_size < WORD
  /\ StoresBytes(m, "byte_aligned", 0, sbi[m].byte_aligned_size, BAByte)
  /\ \A c, d \in DOMAIN sbi[m].cblock_len : packed[m][c] = packed[m][d] => c = d
  /\ \A id \in DOMAIN sbi[m].inode_file_size :
       LET size == sbi[m].inode_file_size[id]
       IN  /\ size < WORD
           /\ IsLink(m, id) => Readable(m, id, Least(size, LINK))
           /\ id \in Wanted => Readable(m, id, size)

(* The inodes of image m, and those that are entries of its directory d.   *)
Inodes(m) == DOMAIN tree[m].kind

EntriesOf(m, d) ==
  IF tree[m].kind[d] # "dir" THEN {}
  ELSE LET first == sbi[m].inode_array_index[d]
       IN  first .. first + tree[m].num_entries[d] - 1

Dir(m, id) == CHOOSE d \in Inodes(m) : id \in EntriesOf(m, d)

(* An inode and the directories it is in.                                  *)
Within(m, id) ==
  LET up[x \in Inodes(m)] == IF x = 0 THEN {0} ELSE {x} \cup up[Dir(m, x)]
  IN  up[id]

(* ls prints the tree as it is: each line is an entry of a directory that  *)
(* is one level up, the first entry right below its directory, and each    *)
(* other below the entry before it and all that is in that one.            *)
ListedInOrder ==
  \A k \in 1 .. Len(shown) :
    LET id == shown[k].id
        d  == Dir(image, id)
    IN  /\ \A j \in 1 .. k - 1 : shown[j].id # id
        /\ IF d = 0 THEN shown[k].level = 0
           ELSE \E j \in 1 .. k - 1 :
                  shown[j].id = d /\ shown[k].level = shown[j].level + 1
        /\ IF id - 1 \in EntriesOf(image, d)
           THEN k > 1 /\ id - 1 \in Within(image, shown[k - 1].id)
           ELSE IF d = 0 THEN k = 1 ELSE shown[k - 1].id = d

(* Of every file it prints the types of all its nodes, and once ls is      *)
(* through, every inode but the root has its line.                         *)
ListedWhole ==
  /\ \A k \in 1 .. Len(shown) :
       LET id == shown[k].id
           p(i) == [m |-> image, ino |-> id, index |-> i]
       IN  tree[image].kind[id] = "file" =>
             /\ Len(shown[k].info) = MaxBlock(p(0))
             /\ \A i \in 1 .. Len(shown[k].info) :
                  shown[k].info[i] = NodeType(p(i - 1))
  /\ pc = "exit" =>
       {shown[k].id : k \in 1 .. Len(shown)} = Inodes(image) \ {0}

(* The tool refuses exactly what it does not implement: an image that is   *)
(* not there, of another kind or compression, or with a compressed region. *)
(* Only a read that overreaches is given up later.                         *)
Supported(m) ==
  /\ Known(m)
  /\ \A name \in DOMAIN region[m] : region[m][name].compressed_size = 0

RefusesRight ==
  /\ pc = "aborted" => ~Supported(image) \/ Overreaches
  /\ pc \in {"ls", "exit"} => Supported(image)

(* Of an image that the tool implements, and of no other, ls prints the    *)
(* whole tree, level by level, unless it is given up in a read.            *)
ListsTree == TypeOK /\ ListedInOrder /\ ListedWhole /\ RefusesRight

-----------------------------------------------------------------------------
(***************************************************************************)
(* What ListsTree rests on besides: the directories of an image are a tree *)
(* below inode 0, and the tables have all that the tool looks up.          *)
(***************************************************************************)

(* Every inode but the root is an entry of one directory, one level up.    *)
IsTree(m) ==
  /\ 0 \in Inodes(m) /\ tree[m].kind[0] = "dir"
  /\ tree[m].level \in [Inodes(m) -> Nat] /\ tree[m].level[0] = 0
  /\ \A d \in Inodes(m) : \A id \in EntriesOf(m, d) :
       id \in Inodes(m) /\ tree[m].level[id] = tree[m].level[d] + 1
  /\ \A id \in Inodes(m) \ {0} : \E d \in Inodes(m) : id \in EntriesOf(m, d)
  /\ \A d, e \in Inodes(m) : EntriesOf(m, d) \cap EntriesOf(m, e) # {} => d = e

(* The tables of inodes are of all of them, and lead to modes, nodes and   *)
(* cblocks that are there; and the image has the regions that load reads.  *)
Complete(m) ==
  /\ DOMAIN region[m] = {Regions[k] : k \in 1 .. Len(Regions)}
  /\ Inodes(m) = DOMAIN tree[m].num_entries
  /\ Inodes(m) = DOMAIN sbi[m].inode_file_size
  /\ \A id \in Inodes(m) :
       /\ id < region[m]["inode_name_offset"].max_index
       /\ id < region[m]["inode_mode_index"].max_index
       /\ Stitch(region[m]["inode_mode_index"], id) < region[m]["modes"].max_index
       /\ tree[m].kind[id] = KindIn(region[m], id)
       /\ tree[m].kind[id] = "file" =>
            \A k \in 0 .. MaxBlock([m |-> m, ino |-> id, index |-> 0]) - 1 :
              sbi[m].inode_array_index[id] + k \in DOMAIN sbi[m].node_type
  /\ \A c \in DOMAIN sbi[m].cblock_len : c + 1 \in DOMAIN packed[m]
  /\ Wanted \subseteq Inodes(m)
=============================================================================
