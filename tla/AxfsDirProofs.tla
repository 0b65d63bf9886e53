----------------------------- MODULE AxfsDirProofs -----------------------------
(***************************************************************************)
(* Proofs about AxfsDir, for any directories and names, any number of      *)
(* inodes in memory, and directory reads with buffers of any size.         *)
(***************************************************************************)
EXTENDS AxfsDir, SequenceTheorems, WellFoundedInduction, TLAPS

-----------------------------------------------------------------------------
(* The least and the greatest number of a set.                             *)
Before == {ss \in Nat \X Nat : ss[1] < ss[2]}

LEMMA BeforeWellFounded == IsWellFoundedOn(Before, Nat)
  BY NatLessThanWellFounded, Zenon DEF OpToRel, Before

LEMMA LeastIs ==
  ASSUME NEW T, T \subseteq Nat, T # {}
  PROVE  Min(T) \in T /\ \A y \in T : Min(T) <= y
<1>1. PICK x \in T : \A y \in T : ~(<<y, x>> \in Before)
  BY BeforeWellFounded, WFMin, Zenon
<1>2. \A y \in T : x <= y
  <2> TAKE y \in T
  <2>1. x \in Nat /\ y \in Nat
    OBVIOUS
  <2>2. (<<y, x>> \in Before) <=> y < x
    BY <2>1 DEF Before
  <2> QED
    BY <1>1, <2>1, <2>2
<1> QED
  BY <1>2, Zenon DEF Min

LEMMA GreatestIs ==
  ASSUME NEW b \in Nat, NEW T, T \subseteq 0 .. b, T # {}
  PROVE  Max(T) \in T /\ \A y \in T : Max(T) >= y
<1> DEFINE U == {b - y : y \in T}
<1>1. U \subseteq Nat /\ U # {}
  <2>1. \A y \in T : y \in 0 .. b /\ b - y \in Nat
    <3> TAKE y \in T
    <3>1. y \in 0 .. b
      OBVIOUS
    <3> QED
      BY <3>1
  <2> QED
    BY <2>1
<1>2. PICK u \in U : \A v \in U : u <= v
  BY <1>1, LeastIs
<1>3. PICK x \in T : u = b - x
  OBVIOUS
<1>4. \A y \in T : x >= y
  <2> TAKE y \in T
  <2>1. b - y \in U
    OBVIOUS
  <2>2. x \in 0 .. b /\ y \in 0 .. b
    OBVIOUS
  <2> QED
    BY <2>1, <2>2, <1>2, <1>3
<1> QED
  BY <1>4, Zenon DEF Max

-----------------------------------------------------------------------------
(* Names and their order.                                                  *)
Bytestring == Seq(0 .. 255) \ {<<>>}

LEMMA BytesOf ==
  ASSUME NEW a \in Bytestring
  PROVE  /\ a \in [1 .. Len(a) -> 0 .. 255] /\ Len(a) \in Nat /\ 1 \in DOMAIN a
         /\ SubSeq(a, 1, Len(a)) = a
<1>1. a \in Seq(0 .. 255) /\ a # <<>>
  BY DEF Bytestring
<1>2. a \in [1 .. Len(a) -> 0 .. 255]
  BY <1>1, LenProperties
<1>3. Len(a) \in Nat /\ SubSeq(a, 1, Len(a)) = a
  BY <1>1
<1>4. 1 \in DOMAIN a
  BY <1>1
<1> QED
  BY <1>2, <1>3, <1>4

LEMMA ByteAt ==
  ASSUME NEW a \in Bytestring, NEW k \in DOMAIN a
  PROVE  k \in Nat /\ k >= 1 /\ a[k] \in 0 .. 255
<1>1. a \in [1 .. Len(a) -> 0 .. 255] /\ Len(a) \in Nat
  BY BytesOf
<1>2. k \in 1 .. Len(a)
  BY <1>1
<1>3. a[k] \in 0 .. 255
  BY <1>1, <1>2
<1> QED
  BY <1>1, <1>2, <1>3

LEMMA ByteOrder ==
  \A x, y \in 0 .. 255 : ~(x < x) /\ ~(x < y /\ y < x) /\ (x < y => x <= y)
  OBVIOUS

LEMMA LessIrreflexive ==
  ASSUME NEW a \in Bytestring
  PROVE  ~Less(a, a)
<1>1. ASSUME NEW k \in DOMAIN a, a[k] < a[k] PROVE FALSE
  <2>1. a[k] \in 0 .. 255
    BY ByteAt
  <2> QED
    BY <2>1, <1>1
<1>2. Len(a) \in Nat
  BY BytesOf
<1>3. ~(Len(a) < Len(a))
  BY <1>2
<1> QED
  BY <1>1, <1>3 DEF Less

(* Of names of equal length, one is less than the other at some byte.      *)
LEMMA LessAt ==
  ASSUME NEW a \in Bytestring, NEW b \in Bytestring, Len(a) = Len(b), Less(a, b)
  PROVE  \E k \in DOMAIN a \cap DOMAIN b : a[k] < b[k] /\ \A j \in 1 .. k - 1 : a[j] = b[j]
<1>1. Len(a) \in Nat
  BY BytesOf
<1>2. ~(Len(a) < Len(b))
  BY <1>1
<1> QED
  BY <1>2 DEF Less

LEMMA LessAsymmetric ==
  ASSUME NEW a \in Bytestring, NEW b \in Bytestring, Len(a) = Len(b),
         Less(a, b), Less(b, a)
  PROVE  FALSE
<1>1. PICK k \in DOMAIN a \cap DOMAIN b : a[k] < b[k] /\ \A j \in 1 .. k - 1 : a[j] = b[j]
  BY LessAt
<1>2. PICK m \in DOMAIN b \cap DOMAIN a : b[m] < a[m] /\ \A j \in 1 .. m - 1 : b[j] = a[j]
  BY LessAt
<1>3. k \in Nat /\ k >= 1 /\ a[k] \in 0 .. 255 /\ b[k] \in 0 .. 255
  BY ByteAt
<1>4. m \in Nat /\ m >= 1 /\ a[m] \in 0 .. 255 /\ b[m] \in 0 .. 255
  BY ByteAt
<1>5. ~(k < m)
  <2>1. SUFFICES ASSUME k < m PROVE FALSE
    OBVIOUS
  <2>2. k \in 1 .. m - 1
    BY <1>3, <1>4, <2>1
  <2>3. b[k] = a[k]
    BY <2>2, <1>2
  <2>4. a[k] < a[k]
    BY <2>3, <1>1
  <2> QED
    BY <2>4, <1>3, ByteOrder, Zenon
<1>6. ~(m < k)
  <2>1. SUFFICES ASSUME m < k PROVE FALSE
    OBVIOUS
  <2>2. m \in 1 .. k - 1
    BY <1>3, <1>4, <2>1
  <2>3. a[m] = b[m]
    BY <2>2, <1>1
  <2>4. b[m] < b[m]
    BY <2>3, <1>2
  <2> QED
    BY <2>4, <1>4, ByteOrder, Zenon
<1>7. k # m
  <2>1. SUFFICES ASSUME k = m PROVE FALSE
    OBVIOUS
  <2>2. a[k] < b[k] /\ b[k] < a[k]
    BY <2>1, <1>1, <1>2
  <2> QED
    BY <2>2, <1>3, ByteOrder, Zenon
<1> QED
  BY <1>3, <1>4, <1>5, <1>6, <1>7

(* The first byte of a name that is not greater is not greater.            *)
LEMMA FirstByte ==
  ASSUME NEW e \in Bytestring, NEW name \in Bytestring, name = e \/ Less(e, name)
  PROVE  e[1] <= name[1]
<1>1. /\ 1 \in DOMAIN e /\ 1 \in DOMAIN name
      /\ e[1] \in 0 .. 255 /\ name[1] \in 0 .. 255
  BY BytesOf, ByteAt
<1>2. CASE name = e
  BY <1>1, <1>2
<1>3. ASSUME NEW k \in DOMAIN e \cap DOMAIN name,
             e[k] < name[k], \A j \in 1 .. k - 1 : e[j] = name[j]
      PROVE  e[1] <= name[1]
  <2>1. k \in Nat /\ k >= 1
    BY ByteAt
  <2>2. CASE k = 1
    <3>1. e[1] < name[1]
      BY <2>2, <1>3
    <3> QED
      BY <3>1, <1>1, ByteOrder, Zenon
  <2>3. CASE k # 1
    <3>1. 1 \in 1 .. k - 1
      BY <2>1, <2>3
    <3>2. e[1] = name[1]
      BY <3>1, <1>3
    <3> QED
      BY <3>2, <1>1
  <2> QED
    BY <2>2, <2>3
<1>4. ASSUME \A j \in DOMAIN e : e[j] = name[j] PROVE e[1] <= name[1]
  <2>1. e[1] = name[1]
    BY <1>1, <1>4
  <2> QED
    BY <2>1, <1>1
<1> QED
  BY <1>2, <1>3, <1>4 DEF Less

(* No letter is, as a char, greater than it is as a byte; so the fast test *)
(* never passes a greater name by.                                         *)
LEMMA NotEarly ==
  ASSUME NEW name \in Bytestring, NEW e \in Bytestring, name = e \/ Less(e, name)
  PROVE  ~BreaksEarly(name, e)
<1>1. e[1] \in 0 .. 255 /\ name[1] \in 0 .. 255
  BY BytesOf, ByteAt
<1>2. e[1] <= name[1]
  BY FirstByte
<1>3. CHAR_MIN \in Int /\ CHAR_MIN <= 0
  BY DirAssumption
<1>4. AsChar(e[1]) \in Int /\ AsChar(e[1]) <= e[1]
  BY <1>1, <1>3 DEF AsChar
<1>5. ~(name[1] < AsChar(e[1]))
  <2> DEFINE c == AsChar(e[1])
             x == e[1]
             y == name[1]
  <2>1. c \in Int /\ x \in Int /\ y \in Int /\ c <= x /\ x <= y
    BY <1>1, <1>2, <1>4
  <2> HIDE DEF c, x, y
  <2>2. ~(y < c)
    BY <2>1
  <2> QED
    BY <2>2 DEF c, y
<1> QED
  BY <1>5 DEF BreaksEarly

-----------------------------------------------------------------------------
(* The image.                                                              *)
LEMMA ImageFacts ==
  /\ Inodes \subseteq Nat /\ 0 \in Dirs /\ Dirs \subseteq Inodes
  /\ \A d \in Dirs :
       /\ inode_num_entries[d] \in Nat
       /\ \A i \in Entries(d) : /\ EntryInode(d, i) \in Inodes \ {0}
                                /\ inode_name[EntryInode(d, i)] \in Bytestring
  BY DirAssumption DEF Dirs, Bytestring

LEMMA EntriesSorted ==
  ASSUME NEW d \in Dirs, NEW i \in Entries(d), NEW j \in Entries(d), i < j
  PROVE  Less(inode_name[EntryInode(d, i)], inode_name[EntryInode(d, j)])
  BY DirAssumption

LEMMA EntriesDisjoint ==
  ASSUME NEW d \in Dirs, NEW e \in Dirs, NEW i \in Entries(d), NEW j \in Entries(e),
         EntryInode(d, i) = EntryInode(e, j)
  PROVE  d = e
<1> DEFINE D == {EntryInode(d, k) : k \in Entries(d)}
           E == {EntryInode(e, k) : k \in Entries(e)}
<1>1. d # e => D \cap E = {}
  <2>1. \A x, y \in Dirs : x # y =>
          {EntryInode(x, k) : k \in Entries(x)} \cap {EntryInode(y, k) : k \in Entries(y)} = {}
    BY DirAssumption, Zenon
  <2> QED
    BY <2>1, Zenon
<1>2. EntryInode(d, i) \in D /\ EntryInode(e, j) \in E
  OBVIOUS
<1> HIDE DEF D, E
<1> QED
  BY <1>1, <1>2

(* A directory has no two entries of a name, and no file is in two.        *)
LEMMA NameUnique ==
  ASSUME NEW d \in Dirs, NEW i \in Entries(d), NEW j \in Entries(d),
         inode_name[EntryInode(d, i)] = inode_name[EntryInode(d, j)]
  PROVE  i = j
<1>1. i \in Int /\ j \in Int
  BY DEF Entries
<1>2. inode_name[EntryInode(d, i)] \in Bytestring
  BY ImageFacts
<1>3. ~(i < j) /\ ~(j < i)
  BY <1>2, EntriesSorted, LessIrreflexive
<1> QED
  BY <1>1, <1>3

LEMMA NamedUnique ==
  ASSUME NEW d \in Dirs, NEW e \in Dirs, NEW name, NEW other,
         NEW n \in Named(d, name)
  PROVE  /\ \A m \in Named(d, name) : m = n
         /\ n \in Named(e, other) => d = e /\ name = other
         /\ n \in Inodes \ {0}
<1>1. PICK i \in Entries(d) : n = EntryInode(d, i) /\ inode_name[n] = name
  BY DEF Named
<1>2. \A m \in Named(d, name) : m = n
  BY <1>1, NameUnique DEF Named
<1>3. ASSUME n \in Named(e, other) PROVE d = e /\ name = other
  <2>1. PICK j \in Entries(e) : n = EntryInode(e, j) /\ inode_name[n] = other
    BY <1>3 DEF Named
  <2>2. d = e
    BY <1>1, <2>1, EntriesDisjoint
  <2> QED
    BY <1>1, <2>1, <2>2
<1> QED
  BY <1>1, <1>2, <1>3, ImageFacts

(* The loop of axfs_lookup finds the entry of a name, if there is one, and *)
(* nothing else, although it stops at a comparison of other bytes.         *)
LEMMA FindIsNamed ==
  ASSUME NEW d \in Dirs, NEW name \in Names
  PROVE  Find(d, name) = Named(d, name)
<1> DEFINE Name(i) == inode_name[EntryInode(d, i)]
           ends == {i \in Entries(d) : EndsAt(name, Name(i))}
<1>1. name \in Bytestring
  BY DirAssumption DEF Bytestring
<1>2. \A i \in Entries(d) : Name(i) \in Bytestring /\ EntryInode(d, i) \in Inodes
  BY ImageFacts
<1>3. ASSUME NEW n \in Find(d, name) PROVE n \in Named(d, name)
  <2>1. PICK i \in Entries(d) :
          /\ n = EntryInode(d, i) /\ EndsAt(name, Name(i)) /\ ~BreaksEarly(name, Name(i))
          /\ SubSeq(name, 1, Len(Name(i))) = Name(i)
    BY <1>3 DEF Find
  <2>2. Len(name) = Len(Name(i))
    BY <2>1 DEF EndsAt
  <2>3. name = Name(i)
    BY <2>1, <2>2, <1>1, <1>2 DEF Bytestring
  <2> QED
    BY <2>1, <2>3, <1>2 DEF Named
<1>4. ASSUME NEW n \in Named(d, name) PROVE n \in Find(d, name)
  <2>1. PICK i \in Entries(d) : n = EntryInode(d, i) /\ Name(i) = name
    BY <1>4 DEF Named
  <2>2. i \in ends
    BY <2>1 DEF EndsAt
  <2>3. \A j \in ends : i <= j
    <3> SUFFICES ASSUME NEW j \in ends, j < i PROVE FALSE
      BY DEF Entries
    <3>1. j \in Entries(d) /\ EndsAt(name, Name(j)) /\ Name(j) \in Bytestring
      BY <1>2
    <3>2. Less(Name(j), name)
      BY <3>1, <2>1, EntriesSorted
    <3>3. ~BreaksEarly(name, Name(j))
      BY <3>1, <3>2, <1>1, NotEarly
    <3>4. Len(name) = Len(Name(j)) /\ (name = Name(j) \/ Less(name, Name(j)))
      BY <3>1, <3>3 DEF EndsAt
    <3> QED
      BY <3>1, <3>2, <3>4, <1>1, LessIrreflexive, LessAsymmetric
  <2>4. ends \subseteq Nat
    BY ImageFacts DEF Entries
  <2>5. Min(ends) \in ends /\ Min(ends) <= i
    BY <2>2, <2>4, LeastIs
  <2>6. i = Min(ends)
    BY <2>2, <2>3, <2>4, <2>5
  <2>7. ~BreaksEarly(name, Name(i))
    BY <2>1, <1>1, NotEarly
  <2>8. Len(Name(i)) <= Len(name) /\ SubSeq(name, 1, Len(Name(i))) = Name(i)
    BY <2>1, <1>1 DEF Bytestring
  <2> QED
    BY <2>1, <2>2, <2>6, <2>7, <2>8 DEF Find
<1> QED
  BY <1>3, <1>4

-----------------------------------------------------------------------------
(* Inodes in memory and dentries.                                          *)
LEMMA FilledFacts ==
  ASSUME NEW n \in Inodes
  PROVE  /\ FilledInode(n).i_ino = n /\ FilledInode(n).i_mode = mode[n]
         /\ FilledInode(n).i_op = Kind(n)
         /\ FilledInode(n).i_size = IF Kind(n) = "special" THEN 0 ELSE inode_file_size[n]
         /\ FilledInode(n) # Free
         /\ Kind(n) = "directory" => n \in Dirs
<1>1. /\ FilledInode(n).i_ino = n /\ FilledInode(n).i_mode = mode[n]
      /\ FilledInode(n).i_op = Kind(n)
      /\ FilledInode(n).i_size = IF Kind(n) = "special" THEN 0 ELSE inode_file_size[n]
  BY DEF FilledInode
<1>2. FilledInode(n) # Free
  <2>1. Free.i_ino = -1
    BY DEF Free
  <2>2. n # -1
    BY ImageFacts
  <2> QED
    BY <1>1, <2>1, <2>2
<1>3. Kind(n) = "directory" => n \in Dirs
  BY DEF Kind, Dirs, IsDir, S_IFREG, S_IFDIR, S_IFLNK
<1> QED
  BY <1>1, <1>2, <1>3

Filled == {FilledInode(n) : n \in Inodes}
Answers == Slots \cup {"none", "negative"}

(* A dentry leads to the inode of its name's entry; a negative one says    *)
(* that there is none, or no memory for it.                                *)
InodesRight ==
  /\ inode \in [Slots -> {Free} \cup Filled]
  /\ root \in Slots /\ inode[root] = FilledInode(0)

DentriesRight ==
  /\ dentry \in [Dirs \X Names -> Answers] /\ failed \subseteq Dirs \X Names
  /\ \A x \in Dirs \X Names :
       /\ dentry[x] \in Slots =>
            \E n \in Named(x[1], x[2]) : inode[dentry[x]] = FilledInode(n)
       /\ dentry[x] = "negative" => Named(x[1], x[2]) = {} \/ x \in failed

CacheRight == InodesRight /\ DentriesRight

LEMMA SlotFacts ==
  ASSUME CacheRight, NEW s \in Used
  PROVE  /\ s \in Slots
         /\ \E n \in Inodes : inode[s] = FilledInode(n) /\ inode[s].i_ino = n
                              /\ (inode[s].i_op = "directory" => n \in Dirs)
<1> USE DEF CacheRight, InodesRight, DentriesRight
<1>1. CASE s = root
  BY <1>1, ImageFacts, FilledFacts
<1>2. CASE s \in Slots /\ \E d \in Dirs, n \in Names : dentry[<<d, n>>] = s
  <2>1. PICK d \in Dirs, m \in Names : dentry[<<d, m>>] = s
    BY <1>2
  <2>2. PICK n \in Named(d, m) : inode[s] = FilledInode(n)
    BY <2>1, <1>2
  <2>3. n \in Inodes
    BY DEF Named
  <2> QED
    BY <2>2, <2>3, <1>2, FilledFacts
<1> QED
  BY <1>1, <1>2 DEF Used

(* What the lookup actions have in common: the directory that is asked.    *)
LEMMA AskedFacts ==
  ASSUME CacheRight, NEW s, NEW name \in Names, Asks(s, name)
  PROVE  /\ s \in Slots /\ inode[s].i_ino \in Dirs
         /\ <<inode[s].i_ino, name>> \in Dirs \X Names
         /\ Find(inode[s].i_ino, name) = Named(inode[s].i_ino, name)
  BY SlotFacts, FindIsNamed DEF Asks

(* An answer keeps the others as they are.                                 *)
LEMMA AnswerRight ==
  ASSUME CacheRight, NEW s, NEW name \in Names, Asks(s, name), NEW a \in Answers,
         Answer(s, name, a), InodesRight', failed \subseteq failed',
         failed' \subseteq Dirs \X Names,
         \A t \in Slots : inode[t] # Free => inode'[t] = inode[t],
         a \in Slots => \E n \in Named(inode[s].i_ino, name) : inode'[a] = FilledInode(n),
         a = "negative" => Named(inode[s].i_ino, name) = {}
                           \/ <<inode[s].i_ino, name>> \in failed'
  PROVE  CacheRight'
<1> DEFINE at == <<inode[s].i_ino, name>>
<1>1. at \in Dirs \X Names /\ at[1] = inode[s].i_ino /\ at[2] = name
  BY AskedFacts
<1> HIDE DEF at
<1>2. dentry' = [dentry EXCEPT ![at] = a]
  BY DEF Answer, at
<1>3. dentry' \in [Dirs \X Names -> Answers] /\ dentry'[at] = a
  BY <1>1, <1>2 DEF CacheRight, DentriesRight
<1>4. ASSUME NEW x \in Dirs \X Names
      PROVE  /\ dentry'[x] \in Slots =>
                  \E n \in Named(x[1], x[2]) : inode'[dentry'[x]] = FilledInode(n)
             /\ dentry'[x] = "negative" => Named(x[1], x[2]) = {} \/ x \in failed'
  <2>1. CASE x = at
    BY <2>1, <1>1, <1>3 DEF at
  <2>2. CASE x # at
    <3>1. dentry'[x] = dentry[x]
      BY <2>2, <1>2 DEF CacheRight, DentriesRight
    <3>2. ASSUME dentry[x] \in Slots
          PROVE  \E n \in Named(x[1], x[2]) : inode'[dentry[x]] = FilledInode(n)
      <4>1. PICK n \in Named(x[1], x[2]) : inode[dentry[x]] = FilledInode(n)
        BY <3>2 DEF CacheRight, DentriesRight
      <4>2. inode[dentry[x]] # Free
        BY <4>1, FilledFacts DEF Named
      <4> QED
        BY <4>1, <4>2, <3>2
    <3> QED
      BY <3>1, <3>2 DEF CacheRight, DentriesRight
  <2> QED
    BY <2>1, <2>2
<1> QED
  BY <1>3, <1>4 DEF CacheRight, DentriesRight

LEMMA CacheInit == Init => CacheRight
<1> SUFFICES ASSUME Init PROVE CacheRight
  OBVIOUS
<1>1. inode \in [Slots -> {Free} \cup Filled] /\ inode[root] = FilledInode(0)
  BY ImageFacts DEF Init, Filled
<1>2. \A x \in Dirs \X Names : dentry[x] = "none"
  BY DEF Init
<1>3. dentry \in [Dirs \X Names -> Answers]
  BY DEF Init, Answers
<1>4. "none" \notin Slots
  BY DirAssumption
<1> QED
  BY <1>1, <1>2, <1>3, <1>4 DEF Init, CacheRight, InodesRight, DentriesRight

LEMMA CacheStutter == CacheRight /\ UNCHANGED <<inode, root, dentry, failed>> => CacheRight'
  BY DEF CacheRight, InodesRight, DentriesRight

LEMMA LookupKeeps ==
  ASSUME CacheRight, NEW s \in Slots, NEW name \in Names, NEW g,
         \/ LookupAbsent(s, name) \/ LookupFinds(s, name, g)
         \/ LookupCreates(s, name, g) \/ LookupNoMemory(s, name, g)
  PROVE  CacheRight'
<1> DEFINE d == inode[s].i_ino
<1>1. Asks(s, name)
  BY DEF LookupAbsent, LookupFinds, LookupCreates, LookupNoMemory
<1>2. d \in Dirs /\ Find(d, name) = Named(d, name) /\ <<d, name>> \in Dirs \X Names
  BY <1>1, AskedFacts
<1>3. "negative" \notin Slots /\ "negative" \in Answers
  BY DirAssumption DEF Answers
<1>4. CASE LookupAbsent(s, name)
  <2>1. InodesRight' /\ failed' = failed /\ inode' = inode
    BY <1>4 DEF LookupAbsent, CacheRight, InodesRight
  <2> QED
    BY <1>1, <1>2, <1>3, <1>4, <2>1, AnswerRight DEF LookupAbsent, CacheRight, DentriesRight
<1>5. CASE LookupFinds(s, name, g)
  <2>1. InodesRight' /\ failed' = failed /\ inode' = inode
    BY <1>5 DEF LookupFinds, CacheRight, InodesRight
  <2>2. PICK n \in Named(d, name) : \E t \in Found(Key(n, g)) : Answer(s, name, t)
    BY <1>2, <1>5 DEF LookupFinds
  <2>6. PICK t \in Found(Key(n, g)) : Answer(s, name, t)
    BY <2>2
  <2>3. t \in Slots /\ inode[t] # Free /\ inode[t].i_ino = n
    BY DEF Found, axfs_iget5_test, Key
  <2>4. inode[t] = FilledInode(n)
    BY <2>3, FilledFacts DEF CacheRight, InodesRight, Filled
  <2>5. t \in Answers /\ t # "negative"
    BY <2>3, <1>3 DEF Answers
  <2> QED
    BY <1>1, <2>1, <2>3, <2>4, <2>5, <2>6, AnswerRight DEF CacheRight, DentriesRight
<1>6. CASE LookupCreates(s, name, g)
  <2>1. PICK n \in Named(d, name), t \in Slots :
          /\ inode[t] = Free /\ inode' = [inode EXCEPT ![t] = FilledInode(n)]
          /\ Answer(s, name, t)
    BY <1>2, <1>6 DEF LookupCreates
  <2>2. failed' = failed /\ root' = root
    BY <1>6 DEF LookupCreates
  <2>3. n \in Inodes /\ FilledInode(n) \in Filled
    BY DEF Named, Filled
  <2>4. inode[root] # Free
    BY ImageFacts, FilledFacts DEF CacheRight, InodesRight
  <2>5. InodesRight'
    BY <2>1, <2>2, <2>3, <2>4 DEF CacheRight, InodesRight
  <2>6. \A r \in Slots : inode[r] # Free => inode'[r] = inode[r]
    BY <2>1 DEF CacheRight, InodesRight
  <2>7. inode'[t] = FilledInode(n)
    BY <2>1 DEF CacheRight, InodesRight
  <2>8. t \in Answers /\ t # "negative"
    BY <1>3 DEF Answers
  <2> QED
    BY <1>1, <2>1, <2>2, <2>5, <2>6, <2>7, <2>8, AnswerRight DEF CacheRight, DentriesRight
<1>7. CASE LookupNoMemory(s, name, g)
  <2>1. InodesRight' /\ inode' = inode
    BY <1>7 DEF LookupNoMemory, CacheRight, InodesRight
  <2>2. failed' = failed \cup {<<d, name>>}
    BY <1>7 DEF LookupNoMemory
  <2>3. failed \subseteq failed' /\ failed' \subseteq Dirs \X Names /\ <<d, name>> \in failed'
    BY <2>2, <1>2 DEF CacheRight, DentriesRight
  <2>4. Answer(s, name, "negative")
    BY <1>7 DEF LookupNoMemory
  <2> QED
    BY <1>1, <1>3, <2>1, <2>3, <2>4, AnswerRight
<1> QED
  BY <1>4, <1>5, <1>6, <1>7

LEMMA DropKeeps ==
  ASSUME CacheRight, NEW d \in Dirs, NEW n \in Names, Drop(d, n)
  PROVE  CacheRight'
<1> USE DEF CacheRight, InodesRight, DentriesRight
<1>1. <<d, n>> \in Dirs \X Names
  OBVIOUS
<1>2. /\ dentry' = [dentry EXCEPT ![<<d, n>>] = "none"]
      /\ failed' = failed \ {<<d, n>>} /\ UNCHANGED <<inode, root>>
  BY DEF Drop
<1>3. "none" \notin Slots /\ "none" \in Answers
  BY DirAssumption DEF Answers
<1>4. \A x \in Dirs \X Names : dentry'[x] = IF x = <<d, n>> THEN "none" ELSE dentry[x]
  BY <1>1, <1>2
<1>5. dentry' \in [Dirs \X Names -> Answers]
  BY <1>2, <1>3
<1> QED
  BY <1>2, <1>3, <1>4, <1>5

LEMMA EvictKeeps ==
  ASSUME CacheRight, NEW s \in Slots, Evict(s)
  PROVE  CacheRight'
<1> USE DEF CacheRight, InodesRight, DentriesRight
<1>1. s # root /\ \A x \in Dirs \X Names : dentry[x] # s
  <2> SUFFICES ASSUME NEW x \in Dirs \X Names PROVE dentry[x] # s
    BY DEF Evict, Used
  <2>1. PICK d \in Dirs, n \in Names : x = <<d, n>>
    OBVIOUS
  <2> QED
    BY <2>1 DEF Evict, Used
<1>2. \A t \in Slots : t # s => inode'[t] = inode[t]
  BY DEF Evict
<1>3. inode' \in [Slots -> {Free} \cup Filled] /\ UNCHANGED <<root, dentry, failed>>
  BY DEF Evict
<1> QED
  BY <1>1, <1>2, <1>3

LEMMA CacheKeeps == CacheRight /\ [Next]_vars => CacheRight'
<1> SUFFICES ASSUME CacheRight, [Next]_vars PROVE CacheRight'
  OBVIOUS
<1>1. CASE UNCHANGED vars
  BY <1>1, CacheStutter DEF vars
<1>2. ASSUME NEW s \in Slots, NEW name \in Names, NEW g,
             \/ LookupAbsent(s, name) \/ LookupFinds(s, name, g)
             \/ LookupCreates(s, name, g) \/ LookupNoMemory(s, name, g)
      PROVE  CacheRight'
  BY <1>2, LookupKeeps
<1>3. ASSUME NEW s \in Slots, NEW name \in Names, LookupAbsent(s, name) PROVE CacheRight'
  BY <1>3, LookupKeeps
<1>4. ASSUME NEW f \in Files,
             \/ \E s \in Slots : Open(f, s)
             \/ \E room \in ReadSizes : Readdir(f, room)
             \/ \E p \in 0 .. MaxSeek : Seek(f, p)
             \/ Close(f)
      PROVE  CacheRight'
  <2>1. UNCHANGED <<inode, root, dentry, failed>>
    BY <1>4 DEF Open, Readdir, Seek, Close
  <2> QED
    BY <2>1, CacheStutter
<1> QED
  BY <1>1, <1>2, <1>3, <1>4, DropKeeps, EvictKeeps DEF Next

-----------------------------------------------------------------------------
(* Open directories: what a listing has, from where it was begun.          *)
Dirents == {Dirent(d, i) : d \in Dirs, i \in Nat}
OpenDir == [dir : Dirs, slot : Slots, f_pos : Nat, start : Nat, listed : Seq(Dirents),
            told : {"nothing", "entries", "end", "einval"}]

Listing(v) ==
  /\ v.f_pos = v.start + Len(v.listed)
  /\ \A k \in 1 .. Len(v.listed) :
       /\ v.start + k - 1 \in Entries(v.dir)
       /\ v.listed[k] = Dirent(v.dir, v.start + k - 1)
  /\ v.told = "end" => v.f_pos >= inode_num_entries[v.dir]

FilesRight ==
  /\ file \in [Files -> {Closed} \cup OpenDir]
  /\ \A f \in Files : file[f] # Closed => Listing(file[f])

LEMMA ClosedIsNot == Closed \notin OpenDir
<1>1. \A v \in OpenDir : v.dir \in Nat
  BY ImageFacts DEF OpenDir
<1>2. Closed.dir = -1
  BY DEF Closed
<1> QED
  BY <1>1, <1>2

(* filldir refuses an entry at or after the position, or none.             *)
LEMMA RefusedWhere ==
  ASSUME NEW d \in Dirs, NEW pos \in Nat, pos < inode_num_entries[d], NEW room
  PROVE  Refused(d, pos, room) \in pos .. inode_num_entries[d]
<1> DEFINE n == inode_num_entries[d]
           T == {pos} \cup {k \in pos + 1 .. n : Bytes(d, pos, k) <= room}
<1>1. n \in Nat /\ pos \in 0 .. n
  BY ImageFacts
<1>2. T \subseteq pos .. n /\ T # {} /\ T \subseteq 0 .. n
  BY <1>1
<1>3. Max(T) \in T
  BY <1>1, <1>2, GreatestIs
<1>4. ~(pos >= n)
  BY <1>1
<1>5. Refused(d, pos, room) = Max(T)
  BY <1>4 DEF Refused
<1> QED
  BY <1>2, <1>3, <1>5

LEMMA JoinedSeq ==
  ASSUME NEW S, NEW s \in Seq(S), NEW r \in Seq(S)
  PROVE  /\ s \o r \in Seq(S) /\ Len(s \o r) = Len(s) + Len(r)
         /\ \A k \in 1 .. Len(s) : (s \o r)[k] = s[k]
         /\ \A k \in 1 .. Len(r) : (s \o r)[Len(s) + k] = r[k]
<1>1. /\ s \o r \in Seq(S) /\ Len(s \o r) = Len(s) + Len(r)
      /\ \A k \in 1 .. Len(s) + Len(r) :
           (s \o r)[k] = IF k <= Len(s) THEN s[k] ELSE r[k - Len(s)]
  BY ConcatProperties
<1>2. Len(s) \in Nat /\ Len(r) \in Nat
  BY LenProperties
<1>3. ASSUME NEW k \in 1 .. Len(s) PROVE (s \o r)[k] = s[k]
  <2>1. k \in 1 .. Len(s) + Len(r) /\ k <= Len(s)
    BY <1>2
  <2> QED
    BY <2>1, <1>1
<1>4. ASSUME NEW k \in 1 .. Len(r) PROVE (s \o r)[Len(s) + k] = r[k]
  <2> DEFINE j == Len(s) + k
  <2>1. j \in 1 .. Len(s) + Len(r) /\ ~(j <= Len(s)) /\ j - Len(s) = k
    BY <1>2
  <2> HIDE DEF j
  <2>2. (s \o r)[j] = r[k]
    BY <2>1, <1>1
  <2> QED
    BY <2>2 DEF j
<1> QED
  BY <1>1, <1>3, <1>4

(* A read of entries adds them to the listing.                             *)
LEMMA ListingGrows ==
  ASSUME NEW v \in OpenDir, Listing(v), NEW w \in OpenDir, NEW m \in Nat,
         w.dir = v.dir, w.start = v.start, w.f_pos = v.f_pos + m,
         w.listed = v.listed \o [k \in 1 .. m |-> Dirent(v.dir, v.f_pos + k - 1)],
         m > 0 => v.f_pos + m <= inode_num_entries[v.dir],
         w.told = "end" => w.f_pos >= inode_num_entries[v.dir]
  PROVE  Listing(w)
<1> DEFINE more == [k \in 1 .. m |-> Dirent(v.dir, v.f_pos + k - 1)]
           s == v.listed
           l == Len(v.listed)
<1>1. /\ v.f_pos \in Nat /\ v.start \in Nat /\ v.dir \in Dirs /\ s \in Seq(Dirents)
      /\ inode_num_entries[v.dir] \in Nat
  BY ImageFacts DEF OpenDir
<1>2. l \in Nat /\ v.f_pos = v.start + l
  BY <1>1, LenProperties DEF Listing
<1>3. more \in Seq(Dirents) /\ Len(more) = m
  <2>1. \A k \in 1 .. m : Dirent(v.dir, v.f_pos + k - 1) \in Dirents
    <3> TAKE k \in 1 .. m
    <3>1. v.f_pos + k - 1 \in Nat
      BY <1>1
    <3> QED
      BY <1>1, <3>1 DEF Dirents
  <2>2. more \in [1 .. m -> Dirents]
    BY <2>1
  <2> QED
    BY <2>2, IsASeq, LenProperties
<1> HIDE DEF more, s, l
<1>4. w.listed = s \o more
  BY DEF s, more
<1>5. /\ Len(w.listed) = l + m
      /\ \A k \in 1 .. l : w.listed[k] = s[k]
      /\ \A k \in 1 .. m : w.listed[l + k] = more[k]
  <2>1. l = Len(s)
    BY DEF l, s
  <2>2. /\ Len(s \o more) = Len(s) + Len(more)
        /\ \A k \in 1 .. Len(s) : (s \o more)[k] = s[k]
        /\ \A k \in 1 .. Len(more) : (s \o more)[Len(s) + k] = more[k]
    <3>1. s \in Seq(Dirents) /\ more \in Seq(Dirents)
      BY <1>1, <1>3
    <3> QED
      BY ONLY <3>1, JoinedSeq
  <2>3. Len(more) = m
    BY <1>3
  <2> QED
    BY <2>1, <2>2, <2>3, <1>4, Zenon
<1>6. ASSUME NEW k \in 1 .. Len(w.listed)
      PROVE  /\ w.start + k - 1 \in Entries(w.dir)
             /\ w.listed[k] = Dirent(w.dir, w.start + k - 1)
  <2>1. CASE k <= l
    <3>1. k \in 1 .. l
      BY <2>1, <1>2, <1>5
    <3>2. w.listed[k] = v.listed[k]
      BY <1>5, <3>1 DEF s
    <3> QED
      BY <3>1, <3>2 DEF Listing, l, s
  <2>2. CASE ~(k <= l)
    <3> DEFINE b == v.start
               p == v.f_pos
               n == inode_num_entries[v.dir]
    <3>1. PICK h \in 1 .. m : k = l + h
      <4>1. k - l \in 1 .. m /\ k = l + (k - l)
        BY <2>2, <1>2, <1>5
      <4> QED
        BY <4>1
    <3>2. w.listed[k] = Dirent(v.dir, p + h - 1)
      <4>1. more[h] = Dirent(v.dir, p + h - 1)
        BY DEF more
      <4> QED
        BY <4>1, <3>1, <1>5
    <3>3. b \in Nat /\ p \in Nat /\ n \in Nat /\ p = b + l /\ l \in Nat
          /\ (m > 0 => p + m <= n)
      BY <1>1, <1>2
    <3> HIDE DEF b, p, n
    <3>4. p + h - 1 = b + k - 1 /\ b + k - 1 \in 0 .. n - 1
      BY <3>1, <3>3
    <3> QED
      BY <3>2, <3>4 DEF Entries, b, p, n
  <2> QED
    BY <2>1, <2>2
<1>7. w.f_pos = w.start + Len(w.listed)
  BY <1>1, <1>2, <1>5
<1> QED
  BY <1>6, <1>7 DEF Listing

(* A file after a read.                                                    *)
ReadTo(v, p, l, t) == [v EXCEPT !.f_pos = p, !.listed = l, !.told = t]

LEMMA ReadToFields ==
  ASSUME NEW v \in OpenDir, NEW p, NEW l, NEW t
  PROVE  LET w == ReadTo(v, p, l, t)
         IN  /\ w.dir = v.dir /\ w.start = v.start /\ w.f_pos = p /\ w.listed = l
             /\ w.told = t
  BY DEF OpenDir, ReadTo

LEMMA ReadToType ==
  ASSUME NEW v \in OpenDir, NEW p \in Nat, NEW l \in Seq(Dirents),
         NEW t \in {"nothing", "entries", "end", "einval"}
  PROVE  ReadTo(v, p, l, t) \in OpenDir
  BY DEF OpenDir, ReadTo

LEMMA ReaddirKeeps ==
  ASSUME FilesRight, NEW f \in Files, NEW room, Readdir(f, room)
  PROVE  FilesRight'
<1> DEFINE v == file[f]
           n == inode_num_entries[v.dir]
           r == IF Beyond(v.dir, v.f_pos) THEN v.f_pos ELSE Refused(v.dir, v.f_pos, room)
           m == r - v.f_pos
           more == [k \in 1 .. m |-> Dirent(v.dir, v.f_pos + k - 1)]
           t == CASE r > v.f_pos -> "entries"
                  [] Beyond(v.dir, v.f_pos) -> "end"
                  [] OTHER -> "einval"
           l == v.listed \o more
           w == ReadTo(v, r, l, t)
<1>1. v \in OpenDir /\ Listing(v)
  BY DEF FilesRight, Readdir
<1>2. v.dir \in Dirs /\ v.f_pos \in Nat /\ n \in Nat
  BY <1>1, ImageFacts DEF OpenDir
<1>3. /\ r \in Nat /\ r >= v.f_pos
      /\ r > v.f_pos => r <= n
      /\ (Beyond(v.dir, v.f_pos) <=> v.f_pos >= n)
  <2>1. CASE v.f_pos >= n
    BY <2>1, <1>2 DEF Beyond
  <2>2. CASE ~(v.f_pos >= n)
    <3>1. r \in v.f_pos .. n
      BY <2>2, <1>2, RefusedWhere DEF Beyond
    <3> QED
      BY <3>1, <2>2, <1>2 DEF Beyond
  <2> QED
    BY <2>1, <2>2
<1>4. file' = [file EXCEPT ![f] = w]
  BY DEF Readdir, NextPos, ReadTo
<1>5. /\ w.dir = v.dir /\ w.start = v.start /\ w.f_pos = r
      /\ w.listed = v.listed \o more /\ w.told = t
  <2> HIDE DEF v, r, l, t
  <2>1. /\ w.dir = v.dir /\ w.start = v.start /\ w.f_pos = r
        /\ w.listed = l /\ w.told = t
    BY <1>1, ReadToFields
  <2> QED
    BY <2>1 DEF l
<1>6. m \in Nat /\ r = v.f_pos + m /\ (m > 0 => v.f_pos + m <= n)
  BY <1>2, <1>3
<1>7. l \in Seq(Dirents)
  <2>1. \A k \in 1 .. m : Dirent(v.dir, v.f_pos + k - 1) \in Dirents
    <3> TAKE k \in 1 .. m
    <3>1. v.f_pos + k - 1 \in Nat
      BY <1>2, <1>6
    <3> QED
      BY <1>2, <3>1 DEF Dirents
  <2>2. more \in Seq(Dirents)
    <3> HIDE DEF m, r, v
    <3> QED
      BY <2>1, <1>6, IsASeq
  <2>3. v.listed \in Seq(Dirents)
    BY <1>1 DEF OpenDir
  <2> HIDE DEF more, v
  <2> QED
    BY <2>2, <2>3, ConcatProperties
<1>8. /\ t \in {"nothing", "entries", "end", "einval"}
      /\ t = "end" => r >= n
  <2>1. t = "end" => Beyond(v.dir, v.f_pos)
    OBVIOUS
  <2>2. t \in {"nothing", "entries", "end", "einval"}
    OBVIOUS
  <2>3. Beyond(v.dir, v.f_pos) => r >= n
    BY <1>2, <1>3
  <2> QED
    BY <2>1, <2>2, <2>3
<1>9. w \in OpenDir
  <2> HIDE DEF v, r, l, t
  <2> QED
    BY <1>1, <1>3, <1>7, <1>8, ReadToType
<1>10. Listing(w)
  <2>1. w.f_pos = v.f_pos + m /\ (w.told = "end" => w.f_pos >= inode_num_entries[v.dir])
    BY <1>5, <1>6, <1>8
  <2> HIDE DEF v, w, r, l, t, m
  <2> QED
    BY <1>1, <1>5, <1>6, <1>9, <2>1, ListingGrows
<1> QED
  BY <1>4, <1>9, <1>10 DEF FilesRight

(* An open directory at the beginning of a listing.                        *)
LEMMA BeginListing ==
  ASSUME FilesRight, NEW f \in Files, NEW d \in Dirs, NEW s \in Slots, NEW p \in Nat,
         file' = [file EXCEPT ![f] = OpenedAt(d, s, p)]
  PROVE  FilesRight'
<1> DEFINE w == OpenedAt(d, s, p)
<1>1. w \in OpenDir
  <2>1. <<>> \in Seq(Dirents)
    OBVIOUS
  <2> QED
    BY <2>1 DEF OpenDir, OpenedAt
<1>2. w.f_pos = p /\ w.start = p /\ w.listed = <<>> /\ w.told = "nothing"
  BY DEF OpenedAt
<1>3. Len(w.listed) = 0 /\ 1 .. Len(w.listed) = {} /\ w.f_pos = w.start + Len(w.listed)
  BY <1>2
<1>4. Listing(w)
  BY <1>2, <1>3 DEF Listing
<1> HIDE DEF w
<1>5. file' = [file EXCEPT ![f] = w]
  BY DEF w
<1> QED
  BY <1>1, <1>4, <1>5 DEF FilesRight

LEMMA FilesInit == Init => FilesRight
  BY DEF Init, FilesRight

LEMMA FilesKeep == CacheRight /\ FilesRight /\ [Next]_vars => FilesRight'
<1> SUFFICES ASSUME CacheRight, FilesRight, [Next]_vars PROVE FilesRight'
  OBVIOUS
<1>1. ASSUME file' = file PROVE FilesRight'
  BY <1>1 DEF FilesRight
<1>2. ASSUME NEW f \in Files, NEW s \in Slots, Open(f, s) PROVE FilesRight'
  <2>1. inode[s].i_ino \in Dirs /\ s \in Slots /\ 0 \in Nat
    BY <1>2, SlotFacts DEF Open
  <2> QED
    BY <1>2, <2>1, BeginListing DEF Open
<1>3. ASSUME NEW f \in Files, NEW p \in 0 .. MaxSeek, Seek(f, p) PROVE FilesRight'
  <2>1. file[f].dir \in Dirs /\ file[f].slot \in Slots
    BY <1>3 DEF Seek, FilesRight, OpenDir
  <2>2. p \in Nat
    BY DirAssumption
  <2> QED
    BY <1>3, <2>1, <2>2, BeginListing DEF Seek
<1>4. ASSUME NEW f \in Files, Close(f) PROVE FilesRight'
  BY <1>4 DEF Close, FilesRight
<1>5. ASSUME NEW s \in Slots, NEW name \in Names, LookupAbsent(s, name) PROVE file' = file
  BY <1>5 DEF LookupAbsent
<1>6. ASSUME NEW s \in Slots, NEW name \in Names, NEW g \in Garbage,
             LookupFinds(s, name, g) \/ LookupCreates(s, name, g)
             \/ LookupNoMemory(s, name, g)
      PROVE  file' = file
  BY <1>6 DEF LookupFinds, LookupCreates, LookupNoMemory
<1>7. ASSUME NEW d \in Dirs, NEW n \in Names, Drop(d, n) PROVE file' = file
  BY <1>7 DEF Drop
<1>8. ASSUME NEW s \in Slots, Evict(s) PROVE file' = file
  BY <1>8 DEF Evict
<1>9. CASE UNCHANGED vars
  BY <1>1, <1>9 DEF vars
<1> QED
  BY <1>1, <1>2, <1>3, <1>4, <1>5, <1>6, <1>7, <1>8, <1>9, ReaddirKeeps DEF Next

-----------------------------------------------------------------------------
(* The properties.                                                         *)
DirInv == CacheRight /\ FilesRight

LEMMA DirTypes == DirInv => TypeOK
<1> SUFFICES ASSUME DirInv PROVE TypeOK
  OBVIOUS
<1> USE DEF DirInv, CacheRight, InodesRight, DentriesRight, FilesRight
<1>1. root \in Slots /\ inode[root] # Free
  BY ImageFacts, FilledFacts
<1>2. \A s \in Slots : inode[s] = Free \/ inode[s].i_ino \in Inodes
  BY FilledFacts DEF Filled
<1>3. \A f \in Files : file[f] # Closed =>
        file[f].dir \in Dirs /\ file[f].slot \in Slots /\ file[f].f_pos \in Nat
  BY DEF OpenDir
<1> QED
  BY <1>1, <1>2, <1>3 DEF TypeOK, Answers

LEMMA LookupFacts == DirInv => LookupRight
<1> SUFFICES ASSUME DirInv, NEW d \in Dirs, NEW n \in Names
    PROVE  /\ dentry[<<d, n>>] = "negative" => Named(d, n) = {} \/ <<d, n>> \in failed
           /\ dentry[<<d, n>>] \in Slots =>
                LET v == inode[dentry[<<d, n>>]]
                IN  /\ v # Free /\ v.i_ino \in Named(d, n)
                    /\ v.i_mode = mode[v.i_ino]
                    /\ v.i_size = IF v.i_op = "special" THEN 0
                                  ELSE inode_file_size[v.i_ino]
  BY DEF LookupRight
<1>1. <<d, n>> \in Dirs \X Names
  OBVIOUS
<1>2. dentry[<<d, n>>] \in Slots =>
        \E m \in Named(d, n) : inode[dentry[<<d, n>>]] = FilledInode(m)
  BY <1>1 DEF DirInv, CacheRight, DentriesRight
<1>3. dentry[<<d, n>>] = "negative" => Named(d, n) = {} \/ <<d, n>> \in failed
  BY <1>1 DEF DirInv, CacheRight, DentriesRight
<1>4. Named(d, n) \subseteq Inodes
  BY DEF Named
<1> QED
  BY <1>2, <1>3, <1>4, FilledFacts

(* Two inodes in use are found under two names, or one is the root's,      *)
(* which is no directory's entry.                                          *)
LEMMA UseFacts == DirInv => OneInUse
<1> SUFFICES ASSUME DirInv, NEW s \in Used, NEW t \in Used,
                    inode[s].i_ino = inode[t].i_ino
             PROVE  s = t
  BY DEF OneInUse
<1>1. ASSUME NEW r \in Used, r # root
      PROVE  \E d \in Dirs, m \in Names : dentry[<<d, m>>] = r /\ inode[r].i_ino \in Named(d, m)
  <2>1. PICK d \in Dirs, m \in Names : r \in Slots /\ dentry[<<d, m>>] = r
    BY <1>1 DEF Used
  <2>2. LookupRight
    BY LookupFacts
  <2> QED
    BY <2>1, <2>2 DEF LookupRight
<1>2. inode[root].i_ino = 0
  BY ImageFacts, FilledFacts DEF DirInv, CacheRight, InodesRight
<1>3. ASSUME NEW r \in Used, inode[r].i_ino = 0 PROVE r = root
  <2> SUFFICES ASSUME r # root PROVE FALSE
    OBVIOUS
  <2>1. PICK d \in Dirs, m \in Names : inode[r].i_ino \in Named(d, m)
    BY <1>1
  <2>2. 0 \in Named(d, m)
    BY <2>1, <1>3
  <2> QED
    BY <2>2, NamedUnique
<1>4. CASE s = root \/ t = root
  BY <1>2, <1>3, <1>4
<1>5. CASE s # root /\ t # root
  <2>1. PICK d \in Dirs, m \in Names : dentry[<<d, m>>] = s /\ inode[s].i_ino \in Named(d, m)
    BY <1>1, <1>5
  <2>2. PICK e \in Dirs, o \in Names : dentry[<<e, o>>] = t /\ inode[t].i_ino \in Named(e, o)
    BY <1>1, <1>5
  <2>3. d = e /\ m = o
    BY <2>1, <2>2, NamedUnique
  <2> QED
    BY <2>1, <2>2, <2>3
<1> QED
  BY <1>4, <1>5

LEMMA ListingFacts == DirInv => ListingRight
<1> SUFFICES ASSUME DirInv PROVE ListingRight
  OBVIOUS
<1>1. ASSUME NEW f \in Files, file[f] # Closed
      PROVE  /\ file[f] \in OpenDir /\ Listing(file[f])
             /\ file[f].dir \in Dirs /\ file[f].start \in Nat /\ file[f].f_pos \in Nat
             /\ Len(file[f].listed) \in Nat
             /\ DOMAIN file[f].listed = 1 .. Len(file[f].listed)
  <2>1. file[f] \in OpenDir /\ Listing(file[f])
    BY <1>1 DEF DirInv, FilesRight
  <2>2. file[f].listed \in Seq(Dirents)
    BY <2>1 DEF OpenDir
  <2>3. file[f].dir \in Dirs /\ file[f].start \in Nat /\ file[f].f_pos \in Nat
    BY <2>1 DEF OpenDir
  <2> QED
    BY <2>1, <2>2, <2>3, LenProperties
<1>2. ASSUME NEW d, NEW i
      PROVE  Dirent(d, i).d_ino = EntryInode(d, i)
             /\ Dirent(d, i).name = inode_name[EntryInode(d, i)]
  BY DEF Dirent
<1>3. ReaddirInOrder
  <2> SUFFICES ASSUME NEW f \in Files, file[f] # Closed
      PROVE  /\ file[f].f_pos = file[f].start + Len(file[f].listed)
             /\ \A k \in DOMAIN file[f].listed :
                  LET n == EntryInode(file[f].dir, file[f].start + k - 1)
                  IN  file[f].listed[k].d_ino = n /\ file[f].listed[k].name = inode_name[n]
    BY DEF ReaddirInOrder
  <2>1. Listing(file[f]) /\ DOMAIN file[f].listed = 1 .. Len(file[f].listed)
    BY <1>1
  <2>2. file[f].f_pos = file[f].start + Len(file[f].listed)
    BY <2>1 DEF Listing
  <2>3. ASSUME NEW k \in DOMAIN file[f].listed
        PROVE  file[f].listed[k] = Dirent(file[f].dir, file[f].start + k - 1)
    BY <2>1 DEF Listing
  <2> QED
    BY <2>2, <2>3, <1>2
<1>4. ReaddirEnds
  <2> SUFFICES ASSUME NEW f \in Files, file[f] # Closed, file[f].told = "end",
                      NEW i \in Entries(file[f].dir), i >= file[f].start
      PROVE  \E k \in DOMAIN file[f].listed :
               file[f].listed[k].d_ino = EntryInode(file[f].dir, i)
    BY DEF ReaddirEnds
  <2> DEFINE b == file[f].start
             l == Len(file[f].listed)
             p == file[f].f_pos
             n == inode_num_entries[file[f].dir]
             k == i - b + 1
  <2>1. b \in Nat /\ l \in Nat /\ p \in Nat /\ n \in Nat /\ p = b + l /\ p >= n
    BY <1>1, ImageFacts DEF Listing
  <2>2. i \in 0 .. n - 1
    BY DEF Entries
  <2>3. k \in 1 .. l /\ b + k - 1 = i
    <3> HIDE DEF b, l, p, n
    <3>1. i >= b
      BY DEF b
    <3> QED
      BY <2>1, <2>2, <3>1
  <2>4. file[f].listed[k] = Dirent(file[f].dir, b + k - 1)
    <3> HIDE DEF k
    <3> QED
      BY <2>3, <1>1 DEF Listing
  <2>5. file[f].listed[k].d_ino = EntryInode(file[f].dir, i)
    BY <2>3, <2>4, <1>2
  <2>6. k \in DOMAIN file[f].listed
    BY <2>3, <1>1
  <2> HIDE DEF k
  <2> QED
    BY <2>5, <2>6
<1>5. ListedFound
  <2> SUFFICES ASSUME NEW f \in Files, file[f] # Closed, NEW k \in DOMAIN file[f].listed
      PROVE  LET e == file[f].listed[k]
                 a == IF e.name \in Names THEN dentry[<<file[f].dir, e.name>>] ELSE "none"
             IN  /\ a = "negative" => <<file[f].dir, e.name>> \in failed
                 /\ a \in Slots => inode[a].i_ino = e.d_ino
    BY DEF ListedFound
  <2> DEFINE e == file[f].listed[k]
             d == file[f].dir
             i == file[f].start + k - 1
  <2>1. d \in Dirs /\ i \in Entries(d) /\ e = Dirent(d, i)
    BY <1>1 DEF Listing
  <2>2. e.d_ino = EntryInode(d, i) /\ e.name = inode_name[EntryInode(d, i)]
    BY <2>1, <1>2
  <2> HIDE DEF e, d, i
  <2>3. e.d_ino \in Named(d, e.name)
    BY <2>1, <2>2, ImageFacts DEF Named
  <2>4. CASE e.name \in Names
    <3>1. LookupRight
      BY LookupFacts
    <3>2. dentry[<<d, e.name>>] = "negative" => <<d, e.name>> \in failed
      BY <2>1, <2>3, <2>4, <3>1 DEF LookupRight
    <3>3. dentry[<<d, e.name>>] \in Slots =>
            inode[dentry[<<d, e.name>>]].i_ino \in Named(d, e.name)
      BY <2>1, <2>4, <3>1 DEF LookupRight
    <3>4. dentry[<<d, e.name>>] \in Slots => inode[dentry[<<d, e.name>>]].i_ino = e.d_ino
      BY <2>1, <2>3, <3>3, NamedUnique
    <3> QED
      BY <2>4, <3>2, <3>4 DEF e, d
  <2>5. CASE e.name \notin Names
    <3>1. "none" \notin Slots
      BY DirAssumption
    <3> QED
      BY <2>5, <3>1 DEF e, d
  <2> QED
    BY <2>4, <2>5
<1> QED
  BY <1>3, <1>4, <1>5, DirTypes DEF ListingRight

LEMMA Invariance == Spec => []DirInv
<1>1. Init => DirInv
  BY CacheInit, FilesInit DEF DirInv
<1>2. DirInv /\ [Next]_vars => DirInv'
  BY CacheKeeps, FilesKeep DEF DirInv
<1> QED
  BY <1>1, <1>2, PTL DEF Spec

(* A dentry leads to the inode of the entry of its name; a negative one    *)
(* says that there is none, unless there was no memory for it: whatever    *)
(* bytes the names are made of, and however char is signed (axfs_lookup).  *)
THEOREM LookupHolds == Spec => []LookupRight
  BY Invariance, LookupFacts, PTL

(* A file has one inode in use, although garbage is part of the key by     *)
(* which inodes are looked for (axfs_iget5_test).                          *)
THEOREM UseHolds == Spec => []OneInUse
  BY Invariance, UseFacts, PTL

(* A listing has each entry from where it was begun once, in order, and    *)
(* all of them when the end is told, and its names are found by lookup     *)
(* (axfs_readdir).                                                         *)
THEOREM ListingHolds == Spec => []ListingRight
  BY Invariance, ListingFacts, PTL
=============================================================================
