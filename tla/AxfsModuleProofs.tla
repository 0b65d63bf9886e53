--------------------------- MODULE AxfsModuleProofs ---------------------------
(***************************************************************************)
(* Proofs about AxfsModule and AxfsProcfs, for any volumes and users.      *)
(***************************************************************************)
EXTENDS AxfsModule, TLAPS

(* a comes before b in s.                                                  *)
Before(s, a, b) == \E i, j \in DOMAIN s : i < j /\ s[i] = a /\ s[j] = b

-----------------------------------------------------------------------------
(* Sequences without duplicates.                                           *)

LEMMA AtEnd ==
  ASSUME NEW S, NEW s \in Seq(S), NEW e \in S, IsInjective(s), e \notin ToSet(s)
  PROVE  /\ Append(s, e) \in Seq(S) /\ IsInjective(Append(s, e))
         /\ ToSet(Append(s, e)) = ToSet(s) \cup {e}
         /\ \A a, b \in S : Before(s, a, b) => Before(Append(s, e), a, b)
         /\ \A a \in ToSet(s) : Before(Append(s, e), a, e)
<1> DEFINE u == Append(s, e)
           n == Len(s)
<1>1. /\ u \in Seq(S) /\ n \in Nat /\ DOMAIN s = 1 .. n /\ DOMAIN u = 1 .. n + 1
      /\ \A i \in 1 .. n : u[i] = s[i]
      /\ u[n + 1] = e
  OBVIOUS
<1> HIDE DEF u, n
<1>2. \A i \in 1 .. n : s[i] # e
  BY <1>1 DEF ToSet
<1>3. IsInjective(u)
  BY <1>1, <1>2 DEF IsInjective
<1>4. ToSet(u) = ToSet(s) \cup {e}
  BY <1>1 DEF ToSet
<1>5. \A a, b \in S : Before(s, a, b) => Before(u, a, b)
  BY <1>1 DEF Before
<1>6. \A a \in ToSet(s) : Before(u, a, e)
  BY <1>1 DEF Before, ToSet
<1> QED
  BY <1>1, <1>3, <1>4, <1>5, <1>6 DEF u

LEMMA AtFront ==
  ASSUME NEW S, NEW s \in Seq(S), NEW e \in S, IsInjective(s), e \notin ToSet(s)
  PROVE  /\ <<e>> \o s \in Seq(S) /\ IsInjective(<<e>> \o s)
         /\ ToSet(<<e>> \o s) = ToSet(s) \cup {e}
         /\ \A a, b : Before(<<e>> \o s, a, b) =>
              Before(s, a, b) \/ (a = e /\ b \in ToSet(s))
<1> DEFINE u == <<e>> \o s
           n == Len(s)
<1>1. /\ u \in Seq(S) /\ n \in Nat /\ DOMAIN s = 1 .. n /\ DOMAIN u = 1 .. n + 1
      /\ \A i \in 2 .. n + 1 : u[i] = s[i - 1]
      /\ u[1] = e
  OBVIOUS
<1> HIDE DEF u, n
<1>2. \A i \in 1 .. n : s[i] # e
  BY <1>1 DEF ToSet
<1>s. \A i \in DOMAIN u : i = 1 \/ (i - 1 \in DOMAIN s /\ u[i] = s[i - 1])
  BY <1>1
<1>3. IsInjective(u)
  <2> SUFFICES ASSUME NEW i \in DOMAIN u, NEW j \in DOMAIN u, u[i] = u[j]
               PROVE  i = j
    BY DEF IsInjective
  <2>1. i = 1 <=> j = 1
    BY <1>1, <1>2, <1>s
  <2>2. i # 1 => i - 1 = j - 1
    BY <1>s, <2>1 DEF IsInjective
  <2> QED
    BY <1>1, <2>1, <2>2
<1>4. ToSet(u) = ToSet(s) \cup {e}
  <2>1. \A i \in 1 .. n : i + 1 \in DOMAIN u /\ u[i + 1] = s[i]
    BY <1>1
  <2>2. 1 \in DOMAIN u /\ u[1] = e
    BY <1>1
  <2>3. ToSet(u) \subseteq ToSet(s) \cup {e}
    <3> SUFFICES ASSUME NEW i \in DOMAIN u PROVE u[i] \in ToSet(s) \cup {e}
      BY DEF ToSet
    <3>1. CASE i = 1
      BY <2>2, <3>1
    <3>2. CASE i - 1 \in DOMAIN s /\ u[i] = s[i - 1]
      BY <3>2 DEF ToSet
    <3> QED
      BY <1>s, <3>1, <3>2
  <2>4. ToSet(s) \subseteq ToSet(u)
    <3> SUFFICES ASSUME NEW i \in DOMAIN s PROVE s[i] \in ToSet(u)
      BY DEF ToSet
    <3>1. i + 1 \in DOMAIN u /\ u[i + 1] = s[i]
      BY <1>1, <2>1
    <3> QED
      BY <3>1 DEF ToSet
  <2>5. e \in ToSet(u)
    BY <2>2 DEF ToSet
  <2> QED
    BY <2>3, <2>4, <2>5
<1>5. ASSUME NEW a, NEW b, Before(u, a, b)
      PROVE  Before(s, a, b) \/ (a = e /\ b \in ToSet(s))
  <2>1. PICK i, j \in DOMAIN u : i < j /\ u[i] = a /\ u[j] = b
    BY <1>5 DEF Before
  <2>2. j - 1 \in DOMAIN s /\ s[j - 1] = b
    BY <1>1, <2>1
  <2>3. CASE i = 1
    BY <1>1, <2>1, <2>2, <2>3 DEF ToSet
  <2>4. CASE i # 1
    <3>1. i - 1 \in DOMAIN s /\ s[i - 1] = a /\ i - 1 < j - 1
      BY <1>1, <2>1, <2>4
    <3> QED
      BY <2>2, <3>1 DEF Before
  <2> QED
    BY <2>3, <2>4
<1> QED
  BY <1>1, <1>3, <1>4, <1>5 DEF u

LEMMA OffFront ==
  ASSUME NEW S, NEW s \in Seq(S), IsInjective(s), s # <<>>
  PROVE  /\ Tail(s) \in Seq(S) /\ IsInjective(Tail(s))
         /\ Head(s) \in ToSet(s) /\ ToSet(Tail(s)) = ToSet(s) \ {Head(s)}
         /\ \A a, b : Before(Tail(s), a, b) => Before(s, a, b)
         /\ \A b \in ToSet(s) \ {Head(s)} : Before(s, Head(s), b)
<1> DEFINE u == Tail(s)
           n == Len(s)
<1>1. /\ u \in Seq(S) /\ n \in Nat \ {0} /\ DOMAIN s = 1 .. n /\ DOMAIN u = 1 .. n - 1
      /\ \A i \in 1 .. n - 1 : u[i] = s[i + 1]
      /\ Head(s) = s[1]
  OBVIOUS
<1> HIDE DEF u, n
<1>s. \A i \in DOMAIN u : i + 1 \in DOMAIN s /\ i + 1 # 1 /\ u[i] = s[i + 1]
  BY <1>1
<1>2. IsInjective(u)
  <2> SUFFICES ASSUME NEW i \in DOMAIN u, NEW j \in DOMAIN u, u[i] = u[j]
               PROVE  i = j
    BY DEF IsInjective
  <2>1. i + 1 = j + 1
    BY <1>s DEF IsInjective
  <2> QED
    BY <1>1, <2>1
<1>3. Head(s) \in ToSet(s) /\ ToSet(u) = ToSet(s) \ {Head(s)}
  <2>1. ToSet(u) \subseteq ToSet(s) \ {Head(s)}
    <3>1. 1 \in DOMAIN s
      BY <1>1
    <3> QED
      BY <1>1, <1>s, <3>1 DEF ToSet, IsInjective
  <2>2. ASSUME NEW i \in DOMAIN s, s[i] # Head(s)
        PROVE  s[i] \in ToSet(u)
    <3>1. i - 1 \in DOMAIN u /\ u[i - 1] = s[i]
      BY <1>1, <2>2
    <3> QED
      BY <3>1 DEF ToSet
  <2>3. Head(s) \in ToSet(s)
    BY <1>1 DEF ToSet
  <2>4. ToSet(s) \ {Head(s)} \subseteq ToSet(u)
    BY <2>2 DEF ToSet
  <2> QED
    BY <2>1, <2>3, <2>4
<1>4. \A a, b : Before(u, a, b) => Before(s, a, b)
  <2> SUFFICES ASSUME NEW i \in DOMAIN u, NEW j \in DOMAIN u, i < j
               PROVE  Before(s, u[i], u[j])
    BY DEF Before
  <2>1. i + 1 \in DOMAIN s /\ j + 1 \in DOMAIN s /\ i + 1 < j + 1
        /\ s[i + 1] = u[i] /\ s[j + 1] = u[j]
    BY <1>1
  <2> QED
    BY <2>1 DEF Before
<1>5. \A b \in ToSet(s) \ {Head(s)} : Before(s, Head(s), b)
  BY <1>1 DEF ToSet, Before
<1> QED
  BY <1>1, <1>2, <1>3, <1>4, <1>5 DEF u

LEMMA Removing ==
  ASSUME NEW S, NEW s \in Seq(S), IsInjective(s), NEW k \in DOMAIN s
  PROVE  /\ RemoveAt(s, k) \in Seq(S) /\ IsInjective(RemoveAt(s, k))
         /\ ToSet(RemoveAt(s, k)) = ToSet(s) \ {s[k]}
         /\ \A a, b : a # s[k] /\ b # s[k] /\ Before(s, a, b) =>
              Before(RemoveAt(s, k), a, b)
<1> DEFINE u == RemoveAt(s, k)
           n == Len(s)
<1>0. n \in Nat /\ DOMAIN s = 1 .. n /\ k \in 1 .. n
  OBVIOUS
<1>1. /\ u \in Seq(S) /\ DOMAIN u = 1 .. n - 1
      /\ \A i \in 1 .. n - 1 : u[i] = IF i < k THEN s[i] ELSE s[i + 1]
  <2> DEFINE v == SubSeq(s, 1, k - 1)
             w == SubSeq(s, k + 1, n)
  <2>1. v \in Seq(S) /\ Len(v) = k - 1 /\ \A i \in 1 .. k - 1 : v[i] = s[i]
    BY <1>0
  <2>2. w \in Seq(S) /\ Len(w) = n - k /\ \A i \in 1 .. n - k : w[i] = s[k + i]
    BY <1>0
  <2>3. u = v \o w
    BY DEF RemoveAt
  <2> HIDE DEF u, v, w, n
  <2>4. u \in Seq(S) /\ Len(u) = n - 1
    <3>0. v \in Seq(S) /\ w \in Seq(S)
      BY <2>1, <2>2
    <3>1. v \o w \in Seq(S) /\ Len(v \o w) = Len(v) + Len(w)
      BY <3>0
    <3>2. Len(v) + Len(w) = n - 1
      BY <1>0, <2>1, <2>2
    <3> QED
      BY <2>3, <3>1, <3>2
  <2>5. ASSUME NEW i \in 1 .. n - 1
        PROVE  u[i] = IF i < k THEN s[i] ELSE s[i + 1]
    <3>1. CASE i < k
      BY <1>0, <2>1, <2>2, <2>3, <3>1
    <3>2. CASE ~(i < k)
      <4>1. i - (k - 1) \in 1 .. n - k /\ k + (i - (k - 1)) = i + 1
        BY <1>0, <3>2
      <4>2. u[i] = w[i - (k - 1)]
        BY <1>0, <2>1, <2>2, <2>3, <3>2
      <4> QED
        BY <2>2, <3>2, <4>1, <4>2
    <3> QED
      BY <3>1, <3>2
  <2> QED
    BY <2>4, <2>5
<1> HIDE DEF u, n
<1>2. \A i \in DOMAIN u : \E j \in DOMAIN s : j # k /\ u[i] = s[j]
  BY <1>0, <1>1
<1>3. \A j \in DOMAIN s \ {k} :
        IF j < k THEN j \in DOMAIN u /\ u[j] = s[j]
        ELSE j - 1 \in DOMAIN u /\ u[j - 1] = s[j]
  BY <1>0, <1>1
<1>4. IsInjective(u)
  <2> SUFFICES ASSUME NEW i \in DOMAIN u, NEW j \in DOMAIN u, u[i] = u[j]
               PROVE  i = j
    BY DEF IsInjective
  <2> DEFINE at(x) == IF x < k THEN x ELSE x + 1
  <2>1. /\ at(i) \in DOMAIN s /\ u[i] = s[at(i)]
        /\ at(j) \in DOMAIN s /\ u[j] = s[at(j)]
    BY <1>0, <1>1
  <2>2. at(i) = at(j)
    BY <2>1 DEF IsInjective
  <2> QED
    BY <1>0, <1>1, <2>2
<1>5. ToSet(u) = ToSet(s) \ {s[k]}
  BY <1>2, <1>3 DEF ToSet, IsInjective
<1>6. ASSUME NEW a, NEW b, a # s[k], b # s[k], Before(s, a, b)
      PROVE  Before(u, a, b)
  <2>1. PICK i, j \in DOMAIN s : i < j /\ s[i] = a /\ s[j] = b
    BY <1>6 DEF Before
  <2>2. i \in Nat /\ j \in Nat /\ k \in Nat /\ i # k /\ j # k
    BY <1>0, <1>6, <2>1
  <2> QED
    BY <1>3, <2>1, <2>2 DEF Before
<1> QED
  BY <1>1, <1>4, <1>5, <1>6 DEF u

(* Nothing comes after the last one.                                       *)
LEMMA LastOne ==
  ASSUME NEW S, NEW s \in Seq(S), IsInjective(s)
  PROVE  \A b : ~Before(s, Last(s), b)
BY DEF Before, Last, IsInjective

-----------------------------------------------------------------------------
(* The volumes that are mounted, and their files.                          *)

Volumes ==
  /\ mount \in [Mounts -> {"out", "in", "removing", "stuck"}]
  /\ order \in Seq(Mounts) /\ IsInjective(order)
  /\ ToSet(order) = {m \in Mounts : mount[m] # "out"}
  /\ user \in [Users -> Mounts \cup {NoMount}]

(* A file that is being removed is no longer in the directory.             *)
FilesManaged ==
  /\ subdir \in Seq(Mounts) /\ IsInjective(subdir)
  /\ manager \in [Mounts -> BOOLEAN]
  /\ \A m \in ToSet(subdir) : manager[m]
  /\ \A m \in Mounts : mount[m] = "removing" => m \notin ToSet(subdir)
  /\ \A m \in NoNodes : ~manager[m]

Flags == our_proc_dir \in BOOLEAN /\ disorder \in BOOLEAN /\ failed \in BOOLEAN

Held == Volumes /\ FilesManaged /\ Flags /\ DirectoryWithFiles

-----------------------------------------------------------------------------
LEMMA HeldInit == Init => Held
<1> SUFFICES ASSUME Init PROVE Held
  OBVIOUS
<1>1. /\ <<>> \in Seq(Mounts) /\ IsInjective(<<>>) /\ ToSet(<<>>) = {}
  BY DEF IsInjective, ToSet
<1>2. Volumes
  BY <1>1 DEF Init, Volumes
<1>3. FilesManaged
  BY <1>1, ProcfsAssumption DEF Init, FilesManaged
<1>4. Flags
  BY DEF Init, Flags
<1>5. DirectoryWithFiles
  BY DEF Init, DirectoryWithFiles
<1> QED
  BY <1>2, <1>3, <1>4, <1>5 DEF Held

LEMMA MountedHeld ==
  ASSUME Held, NEW m \in Mounts, MountVolume(m)
  PROVE  Volumes'
<1>1. m \notin ToSet(order) /\ order' = Append(order, m)
  BY DEF Held, Volumes, MountVolume
<1>2. /\ order' \in Seq(Mounts) /\ IsInjective(order')
      /\ ToSet(order') = ToSet(order) \cup {m}
  BY <1>1, AtEnd DEF Held, Volumes
<1>3. mount' = [mount EXCEPT ![m] = "in"] /\ user' = user
  BY DEF MountVolume
<1> QED
  BY <1>2, <1>3 DEF Held, Volumes

LEMMA UnmountedHeld ==
  ASSUME Held, NEW m \in Mounts, Unmounted(m)
  PROVE  Volumes'
<1>1. PICK k \in DOMAIN order : order[k] = m /\ order' = RemoveAt(order, k)
  BY DEF Unmounted
<1>2. /\ order' \in Seq(Mounts) /\ IsInjective(order')
      /\ ToSet(order') = ToSet(order) \ {m}
  BY <1>1, Removing DEF Held, Volumes
<1>3. mount' = [mount EXCEPT ![m] = "out"] /\ user' = user
  BY DEF Unmounted
<1> QED
  BY <1>2, <1>3 DEF Held, Volumes

LEMMA StuckHeld ==
  ASSUME Held, NEW m \in Mounts, mount[m] = "in", Stuck(m)
  PROVE  Volumes' /\ FilesManaged'
BY DEF Held, Stuck, Volumes, FilesManaged

LEMMA VolumeHeld ==
  ASSUME Held, NEW m \in Mounts, Volume(m)
  PROVE  Held'
<1> USE DEF Held
<1>1. CASE Register(m)
  <2>1. m \notin ToSet(subdir) /\ MountVolume(m)
    BY <1>1 DEF Register, MountVolume, FilesManaged
  <2>2. /\ subdir' = <<m>> \o subdir
        /\ subdir' \in Seq(Mounts) /\ IsInjective(subdir')
        /\ ToSet(subdir') = ToSet(subdir) \cup {m}
    BY <1>1, <2>1, AtFront DEF Register, FilesManaged
  <2>3. FilesManaged'
    BY <1>1, <2>2 DEF Register, MountVolume, Volumes, FilesManaged
  <2>4. our_proc_dir' /\ our_proc_dir' \in BOOLEAN /\ subdir' # <<>>
    BY <1>1, <2>2 DEF Register, ToSet
  <2>5. Flags'
    BY <1>1, <2>4 DEF Register, MountVolume, Flags
  <2>6. DirectoryWithFiles'
    BY <2>4 DEF DirectoryWithFiles
  <2> QED
    BY <2>1, <2>3, <2>5, <2>6, MountedHeld
<1>2. CASE VmallocFails(m) \/ MkdirFails(m) \/ CreateEntryFails(m)
  <2>1. MountVolume(m)
    BY <1>2 DEF VmallocFails, MkdirFails, CreateEntryFails
  <2>2. /\ subdir' = subdir /\ mount' = [mount EXCEPT ![m] = "in"] /\ mount[m] = "out"
        /\ manager' = manager
           \/ (m \notin NoNodes /\ manager' = [manager EXCEPT ![m] = TRUE])
    BY <1>2 DEF VmallocFails, MkdirFails, CreateEntryFails, MountVolume
  <2>3. FilesManaged'
    <3>1. /\ manager' \in [Mounts -> BOOLEAN]
          /\ \A n \in Mounts : manager[n] => manager'[n]
          /\ \A n \in NoNodes : ~manager'[n]
      BY <2>2, ProcfsAssumption DEF FilesManaged
    <3>2. \A n \in Mounts : mount'[n] = "removing" => mount[n] = "removing"
      BY <2>2 DEF Volumes
    <3>3. ToSet(subdir) \subseteq Mounts
      BY DEF FilesManaged, ToSet
    <3> QED
      BY <2>2, <3>1, <3>2, <3>3 DEF FilesManaged
  <2>4. our_proc_dir' = our_proc_dir \/ our_proc_dir' = (subdir # <<>>)
    BY <1>2 DEF VmallocFails, MkdirFails, CreateEntryFails
  <2>5. Flags'
    <3>1. failed' \in BOOLEAN
      BY <1>2 DEF VmallocFails, MkdirFails, CreateEntryFails, Flags
    <3>2. disorder' = disorder
      BY <2>1 DEF MountVolume
    <3> QED
      BY <2>4, <3>1, <3>2 DEF Flags
  <2>6. \A n \in Mounts : mount[n] = "removing" => mount'[n] = "removing"
    BY <2>2 DEF Volumes
  <2>7. DirectoryWithFiles'
    BY <2>2, <2>4, <2>6 DEF DirectoryWithFiles, Flags
  <2> QED
    BY <2>1, <2>3, <2>5, <2>7, MountedHeld
<1>u. ASSUME Unmounting(m), our_proc_dir' = our_proc_dir
      PROVE  Flags'
  BY <1>u DEF Unmounting, Flags
<1>3. CASE ShutdownNoNodes(m) \/ SearchEnds(m)
  <2>1. /\ Unmounted(m) /\ Unmounting(m)
        /\ UNCHANGED <<our_proc_dir, subdir, manager>>
    BY <1>3 DEF ShutdownNoNodes, SearchEnds, Searches
  <2>2. mount' = [mount EXCEPT ![m] = "out"] /\ mount[m] = "in"
    BY <2>1 DEF Unmounted, Unmounting
  <2>3. FilesManaged'
    BY <2>1, <2>2 DEF Volumes, FilesManaged
  <2>4. DirectoryWithFiles'
    BY <2>1, <2>2 DEF Volumes, DirectoryWithFiles
  <2> QED
    BY <1>u, <2>1, <2>3, <2>4, UnmountedHeld
<1>4. CASE ShutdownNoDirectory(m) \/ SearchNeverEnds(m)
  <2>1. Stuck(m) /\ Unmounting(m)
    BY <1>4 DEF ShutdownNoDirectory, SearchNeverEnds, Searches
  <2>2. /\ mount' = [mount EXCEPT ![m] = "stuck"] /\ mount[m] = "in"
        /\ UNCHANGED <<our_proc_dir, subdir>>
    BY <2>1 DEF Stuck, Unmounting
  <2>3. DirectoryWithFiles'
    BY <2>2 DEF Volumes, DirectoryWithFiles
  <2> QED
    BY <1>u, <2>1, <2>2, <2>3, StuckHeld
<1>5. CASE RemoveEntry(m)
  <2>1. /\ mount' = [mount EXCEPT ![m] = "removing"] /\ mount[m] = "in"
        /\ our_proc_dir /\ subdir # <<>> /\ Head(subdir) = m /\ subdir' = Tail(subdir)
        /\ UNCHANGED <<order, our_proc_dir, manager, user>>
    BY <1>5 DEF RemoveEntry, Searches, Unmounting
  <2>2. /\ subdir' \in Seq(Mounts) /\ IsInjective(subdir')
        /\ ToSet(subdir') = ToSet(subdir) \ {m}
    BY <2>1, OffFront DEF FilesManaged
  <2>3. Volumes'
    BY <2>1 DEF Volumes
  <2>4. FilesManaged'
    BY <2>1, <2>2 DEF Volumes, FilesManaged
  <2>5. mount'[m] = "removing"
    BY <2>1 DEF Volumes
  <2>6. DirectoryWithFiles'
    BY <2>1, <2>5 DEF DirectoryWithFiles
  <2>7. Unmounting(m)
    BY <1>5 DEF RemoveEntry, Searches
  <2> QED
    BY <1>u, <2>1, <2>3, <2>4, <2>6, <2>7
<1>6. CASE Removed(m)
  <2>1. /\ mount[m] = "removing" /\ mount' = [mount EXCEPT ![m] = "out"]
        /\ manager' = [manager EXCEPT ![m] = FALSE]
        /\ Unmounted(m) /\ UNCHANGED <<subdir, disorder, failed>>
    BY <1>6 DEF Removed, Unmounted
  <2>2. our_proc_dir' = (our_proc_dir /\ subdir # <<>>)
    BY <1>6 DEF Removed, KeepDirectory
  <2>3. FilesManaged'
    BY <2>1, ProcfsAssumption DEF Volumes, FilesManaged
  <2>4. Flags'
    BY <2>1, <2>2 DEF Flags
  <2>5. DirectoryWithFiles'
    BY <2>1, <2>2 DEF DirectoryWithFiles
  <2> QED
    BY <2>1, <2>3, <2>4, <2>5, UnmountedHeld
<1>7. CASE SearchEmpty(m)
  <2>1. /\ Unmounted(m) /\ Unmounting(m) /\ subdir = <<>>
        /\ UNCHANGED <<subdir, manager>>
    BY <1>7 DEF SearchEmpty
  <2>2. our_proc_dir' = FALSE
    BY <1>7 DEF SearchEmpty, KeepDirectory
  <2>3. mount' = [mount EXCEPT ![m] = "out"] /\ mount[m] = "in"
    BY <2>1 DEF Unmounted, Unmounting
  <2>4. FilesManaged'
    BY <2>1, <2>3 DEF Volumes, FilesManaged
  <2>5. Flags'
    BY <2>1, <2>2 DEF Unmounting, Flags
  <2>6. DirectoryWithFiles'
    BY <2>1, <2>2 DEF DirectoryWithFiles
  <2> QED
    BY <2>1, <2>4, <2>5, <2>6, UnmountedHeld
<1> QED
  BY <1>1, <1>2, <1>3, <1>4, <1>5, <1>6, <1>7 DEF Volume

(* The users of the files.                                                 *)
LEMMA UserHeld ==
  ASSUME Held, NEW u \in Users, Leave(u) \/ \E m \in Mounts : Enter(u, m)
  PROVE  Held'
<1>1. /\ user' \in [Users -> Mounts \cup {NoMount}]
      /\ UNCHANGED <<mount, order, our_proc_dir, subdir, manager, disorder, failed>>
  BY DEF Leave, Enter, Held, Volumes
<1> QED
  BY <1>1 DEF Held, Volumes, FilesManaged, Flags, DirectoryWithFiles

(* The module comes and goes.                                              *)
LEMMA ModuleHeld ==
  ASSUME Held, Load \/ LoadNoMemory \/ LoadFails \/ Unload \/ UNCHANGED allVars
  PROVE  Held'
<1>1. /\ <<>> \in Seq(Mounts) /\ IsInjective(<<>>) /\ ToSet(<<>>) = {}
  BY DEF IsInjective, ToSet
<1>2. CASE Fresh
  <2>1. /\ ~our_proc_dir' /\ our_proc_dir' \in BOOLEAN /\ subdir' = <<>>
        /\ UNCHANGED <<mount, order, manager, user, disorder, failed>>
    BY <1>2 DEF Fresh
  <2>2. FilesManaged'
    BY <1>1, <2>1 DEF Held, FilesManaged
  <2> QED
    BY <2>1, <2>2 DEF Held, Volumes, Flags, DirectoryWithFiles
<1>3. CASE UNCHANGED vars
  BY <1>3 DEF vars, Held, Volumes, FilesManaged, Flags, DirectoryWithFiles
<1> QED
  BY <1>2, <1>3 DEF Load, LoadNoMemory, LoadFails, Unload, allVars

LEMMA HeldNext == Held /\ [ModuleNext]_allVars => Held'
  BY VolumeHeld, UserHeld, ModuleHeld DEF ModuleNext, Next

LEMMA HeldInvariant == ModuleSpec => []Held
<1>1. ModuleInit => Held
  BY HeldInit DEF ModuleInit
<1> QED
  BY <1>1, HeldNext, PTL DEF ModuleSpec

(* Whatever fails, and in whatever order volumes come and go, each file in *)
(* the directory is that of a manager in memory, and the directory is      *)
(* there as long as there are files in it and no longer.                   *)
THEOREM DirectoryHolds == ModuleSpec => []DirectoryRight
<1>1. Held => DirectoryRight
  <2> SUFFICES ASSUME Held PROVE DirectoryRight
    OBVIOUS
  <2>1. ToSet(subdir) \subseteq {m \in Mounts : manager[m]}
    <3>1. ToSet(subdir) \subseteq Mounts
      BY DEF Held, FilesManaged, ToSet
    <3> QED
      BY <3>1 DEF Held, FilesManaged
  <2> QED
    BY <2>1 DEF Held, Volumes, FilesManaged, Flags, TypeOK, DirectoryRight
<1> QED
  BY <1>1, HeldInvariant, PTL

-----------------------------------------------------------------------------
(* While the volume unmounted was always the last one mounted.             *)

(* The files are those of volumes that are mounted, the newest first.      *)
Stacked ==
  /\ \A m \in ToSet(subdir) : mount[m] = "in"
  /\ \A a, b \in Mounts : Before(subdir, a, b) => Before(order, b, a)

(* One who is inside a file keeps its volume from going.                   *)
Inside ==
  \A u \in Users : user[u] # NoMount =>
    user[u] \in ToSet(subdir) \/ mount[user[u]] = "removing"

Going == \A m \in Mounts : mount[m] = "removing" => manager[m]

(* If nothing failed either, each volume that has nodes has its file.      *)
Complete ==
  ~failed =>
    \A m \in Mounts :
      /\ mount[m] # "stuck"
      /\ mount[m] = "in" => m \in ToSet(subdir) \/ m \in NoNodes
      /\ mount[m] = "out" => ~manager[m]

Orderly == ~disorder => Stacked /\ Inside /\ Going /\ Complete

-----------------------------------------------------------------------------
(* The volume that is unmounted has the first file, or none.               *)
LEMMA Unmountable ==
  ASSUME Held, Orderly, NEW m \in Mounts, Unmounting(m), ~disorder'
  PROVE  /\ ~disorder /\ Last(order) = m /\ mount[m] = "in"
         /\ m \in ToSet(subdir) => subdir # <<>> /\ Head(subdir) = m
<1>1. ~disorder /\ Last(order) = m /\ mount[m] = "in"
  BY DEF Unmounting
<1>2. ASSUME m \in ToSet(subdir)
      PROVE  subdir # <<>> /\ Head(subdir) = m
  <2>1. subdir # <<>>
    BY <1>2 DEF ToSet
  <2>2. ASSUME Head(subdir) # m
        PROVE  FALSE
    <3>1. Head(subdir) \in Mounts /\ Before(subdir, Head(subdir), m)
      BY <1>2, <2>1, <2>2, OffFront DEF Held, FilesManaged
    <3>2. Before(order, m, Head(subdir))
      BY <1>1, <3>1 DEF Orderly, Stacked
    <3> QED
      BY <1>1, <3>2, LastOne DEF Held, Volumes
  <2> QED
    BY <2>1, <2>2
<1> QED
  BY <1>1, <1>2

LEMMA VolumeOrderly ==
  ASSUME Held, Orderly, NEW m \in Mounts, Volume(m)
  PROVE  Orderly'
<1> SUFFICES ASSUME ~disorder' PROVE Stacked' /\ Inside' /\ Going' /\ Complete'
  BY DEF Orderly
<1>t. /\ mount \in [Mounts -> {"out", "in", "removing", "stuck"}]
      /\ order \in Seq(Mounts) /\ IsInjective(order)
      /\ ToSet(order) = {n \in Mounts : mount[n] # "out"}
      /\ user \in [Users -> Mounts \cup {NoMount}]
      /\ manager \in [Mounts -> BOOLEAN]
      /\ subdir \in Seq(Mounts) /\ IsInjective(subdir)
      /\ ToSet(subdir) \subseteq Mounts
      /\ \A n \in ToSet(subdir) : manager[n]
      /\ \A n \in NoNodes : ~manager[n]
  BY DEF Held, Volumes, FilesManaged, ToSet
<1>m. ASSUME MountVolume(m)
      PROVE  /\ Stacked /\ Inside /\ Going /\ Complete
             /\ mount[m] = "out" /\ ~manager[m] /\ m \notin ToSet(subdir)
             /\ mount' = [mount EXCEPT ![m] = "in"] /\ user' = user
             /\ \A a, b \in Mounts : Before(order, a, b) => Before(order', a, b)
             /\ \A a \in ToSet(subdir) : Before(order', a, m)
  <2>1. Stacked /\ Inside /\ Going /\ Complete
    BY <1>m DEF MountVolume, Orderly
  <2>2. /\ mount[m] = "out" /\ ~manager[m] /\ mount' = [mount EXCEPT ![m] = "in"]
        /\ order' = Append(order, m) /\ user' = user
    BY <1>m DEF MountVolume
  <2>3. m \notin ToSet(order) /\ m \notin ToSet(subdir)
    BY <1>t, <2>2
  <2>4. ToSet(subdir) \subseteq ToSet(order)
    BY <1>t, <2>1 DEF Stacked
  <2> QED
    BY <1>t, <2>1, <2>2, <2>3, <2>4, AtEnd
<1>1. CASE Register(m)
  <2>1. /\ MountVolume(m) /\ subdir' = <<m>> \o subdir
        /\ manager' = [manager EXCEPT ![m] = TRUE] /\ failed' = failed
    BY <1>1 DEF Register
  <2>2. /\ ToSet(subdir') = ToSet(subdir) \cup {m}
        /\ \A a, b : Before(subdir', a, b) =>
             Before(subdir, a, b) \/ (a = m /\ b \in ToSet(subdir))
    BY <1>t, <1>m, <2>1, AtFront
  <2>3. Stacked'
    BY <1>t, <1>m, <2>1, <2>2 DEF Stacked
  <2>4. Inside'
    BY <1>t, <1>m, <2>1, <2>2 DEF Inside
  <2>5. Going'
    BY <1>t, <1>m, <2>1 DEF Going
  <2>6. Complete'
    BY <1>t, <1>m, <2>1, <2>2 DEF Complete
  <2> QED
    BY <2>3, <2>4, <2>5, <2>6
<1>2. CASE VmallocFails(m) \/ MkdirFails(m) \/ CreateEntryFails(m)
  <2>1. /\ MountVolume(m) /\ subdir' = subdir
        /\ \A n \in Mounts : manager[n] => manager'[n]
    BY <1>t, <1>2 DEF VmallocFails, MkdirFails, CreateEntryFails
  <2>2. failed' \/ (m \in NoNodes /\ ~failed /\ manager' = manager)
    <3>1. CASE VmallocFails(m)
      <4>1. failed' = (failed \/ m \notin NoNodes) /\ manager' = manager
        BY <3>1 DEF VmallocFails
      <4> QED
        BY <4>1
    <3>2. CASE MkdirFails(m) \/ CreateEntryFails(m)
      BY <3>2 DEF MkdirFails, CreateEntryFails
    <3> QED
      BY <1>2, <3>1, <3>2
  <2>3. Stacked'
    BY <1>t, <1>m, <2>1 DEF Stacked
  <2>4. Inside'
    BY <1>t, <1>m, <2>1 DEF Inside
  <2>5. Going'
    BY <1>t, <1>m, <2>1 DEF Going
  <2>6. Complete'
    BY <1>t, <1>m, <2>1, <2>2 DEF Complete
  <2> QED
    BY <2>3, <2>4, <2>5, <2>6
<1>u. ASSUME Unmounted(m)
      PROVE  /\ mount' = [mount EXCEPT ![m] = "out"] /\ user' = user
             /\ \A a, b \in Mounts \ {m} : Before(order, a, b) => Before(order', a, b)
  <2>1. PICK k \in DOMAIN order : order[k] = m /\ order' = RemoveAt(order, k)
    BY <1>u DEF Unmounted
  <2> QED
    BY <1>u, <1>t, <2>1, Removing DEF Unmounted
<1>o. ASSUME Unmounting(m)
      PROVE  /\ Stacked /\ Inside /\ Going /\ Complete /\ mount[m] = "in"
             /\ m \in ToSet(subdir) => subdir # <<>> /\ Head(subdir) = m
             /\ failed' = failed
  BY <1>o, Unmountable DEF Orderly, Unmounting
<1>3. CASE ShutdownNoNodes(m) \/ SearchEnds(m) \/ SearchEmpty(m)
  <2>1. /\ Unmounted(m) /\ Unmounting(m) /\ UNCHANGED <<subdir, manager>>
    BY <1>3 DEF ShutdownNoNodes, SearchEnds, SearchEmpty, Searches
  <2>2. m \notin ToSet(subdir)
    <3>1. CASE SearchEmpty(m)
      BY <3>1 DEF SearchEmpty, ToSet
    <3>2. CASE ShutdownNoNodes(m) \/ SearchEnds(m)
      BY <1>t, <1>o, <3>2 DEF ShutdownNoNodes, SearchEnds, Searches, Unmounting
    <3> QED
      BY <1>3, <3>1, <3>2
  <2>3. m \in NoNodes \/ (m \notin NoNodes /\ ~(m \in ToSet(subdir)))
    BY <2>2
  <2>4. \A a, b \in Mounts : Before(subdir, a, b) => a # m /\ b # m
    BY <2>2 DEF Before, ToSet
  <2>5. Stacked'
    BY <1>t, <1>o, <1>u, <2>1, <2>2, <2>4 DEF Stacked
  <2>6. Inside'
    BY <1>t, <1>o, <1>u, <2>1, <2>2 DEF Inside
  <2>7. Going'
    BY <1>t, <1>o, <1>u, <2>1 DEF Going
  <2>8. Complete'
    BY <1>t, <1>o, <1>u, <2>1, <2>2 DEF Complete
  <2> QED
    BY <2>5, <2>6, <2>7, <2>8
<1>4. CASE ShutdownNoDirectory(m) \/ SearchNeverEnds(m)
  <2>1. /\ Stuck(m) /\ Unmounting(m) /\ m \notin NoNodes
        /\ m \notin ToSet(subdir)
    <3>1. CASE ShutdownNoDirectory(m)
      <4>1. subdir = <<>>
        BY <3>1 DEF ShutdownNoDirectory, Held, DirectoryWithFiles
      <4> QED
        BY <3>1, <4>1 DEF ShutdownNoDirectory, ToSet
    <3>2. CASE SearchNeverEnds(m)
      BY <1>o, <3>2 DEF SearchNeverEnds, Searches
    <3> QED
      BY <1>4, <3>1, <3>2
  <2>2. /\ mount' = [mount EXCEPT ![m] = "stuck"]
        /\ UNCHANGED <<order, subdir, manager, user>>
    BY <2>1 DEF Stuck
  <2>3. failed'
    BY <1>o, <2>1 DEF Complete
  <2> QED
    BY <1>t, <1>o, <2>1, <2>2, <2>3 DEF Stacked, Inside, Going, Complete
<1>5. CASE RemoveEntry(m)
  <2>1. /\ Unmounting(m) /\ mount' = [mount EXCEPT ![m] = "removing"]
        /\ subdir # <<>> /\ Head(subdir) = m /\ subdir' = Tail(subdir)
        /\ UNCHANGED <<order, manager, user>>
    BY <1>5 DEF RemoveEntry, Searches
  <2>2. /\ m \in ToSet(subdir) /\ ToSet(subdir') = ToSet(subdir) \ {m}
        /\ \A a, b : Before(subdir', a, b) => Before(subdir, a, b)
    BY <1>t, <2>1, OffFront
  <2>3. Stacked'
    BY <1>t, <1>o, <2>1, <2>2 DEF Stacked
  <2>4. Inside'
    BY <1>t, <1>o, <2>1, <2>2 DEF Inside
  <2>5. Going'
    BY <1>t, <1>o, <2>1, <2>2 DEF Going
  <2>6. Complete'
    BY <1>t, <1>o, <2>1, <2>2 DEF Complete
  <2> QED
    BY <2>3, <2>4, <2>5, <2>6
<1>6. CASE Removed(m)
  <2>1. /\ mount[m] = "removing" /\ \A u \in Users : user[u] # m
        /\ manager' = [manager EXCEPT ![m] = FALSE]
        /\ Unmounted(m) /\ UNCHANGED <<subdir, failed>>
    BY <1>6 DEF Removed
  <2>2. m \notin ToSet(subdir)
    BY <2>1 DEF Held, FilesManaged
  <2>3. Stacked /\ Inside /\ Going /\ Complete
    BY <1>6 DEF Removed, Orderly
  <2>4. \A a, b \in Mounts : Before(subdir, a, b) => a # m /\ b # m
    BY <2>2 DEF Before, ToSet
  <2>5. Stacked'
    BY <1>t, <1>u, <2>1, <2>2, <2>3, <2>4 DEF Stacked
  <2>6. Inside'
    BY <1>t, <1>u, <2>1, <2>3 DEF Inside
  <2>7. Going'
    BY <1>t, <1>u, <2>1, <2>3 DEF Going
  <2>8. Complete'
    BY <1>t, <1>u, <2>1, <2>3 DEF Complete
  <2> QED
    BY <2>5, <2>6, <2>7, <2>8
<1> QED
  BY <1>1, <1>2, <1>3, <1>4, <1>5, <1>6 DEF Volume

LEMMA UserOrderly ==
  ASSUME Held, Orderly, NEW u \in Users, Leave(u) \/ \E m \in Mounts : Enter(u, m)
  PROVE  Orderly'
<1>1. UNCHANGED <<mount, order, our_proc_dir, subdir, manager, disorder, failed>>
  BY DEF Leave, Enter
<1>2. ASSUME ~disorder
      PROVE  Inside'
  <2>1. Inside
    BY <1>2 DEF Orderly
  <2>2. \A v \in Users : user'[v] \in {NoMount, user[v]} \cup ToSet(subdir)
    <3>1. \A m : Contains(subdir, m) => m \in ToSet(subdir)
      BY DEF Contains, ToSet, Held, FilesManaged
    <3> QED
      BY <3>1 DEF Leave, Enter, Held, Volumes
  <2> QED
    BY <1>1, <2>1, <2>2 DEF Inside
<1> QED
  BY <1>1, <1>2 DEF Orderly, Stacked, Going, Complete

-----------------------------------------------------------------------------
(* The module and its stream.                                              *)

(* No volume is mounted without the module, and the counter tells whether  *)
(* there is a workspace.                                                   *)
Stream ==
  /\ ~module => ~workspace /\ initialized = 0 /\ \A m \in Mounts : mount[m] = "out"
  /\ module =>
       \/ ~nomemory /\ workspace /\ initialized = 1
       \/ nomemory /\ ~workspace /\ initialized = 0
  /\ "workspace" \notin left

(* Of an orderly module that is gone, nothing is left.                     *)
Gone ==
  ~disorder =>
    /\ "files" \notin left
    /\ ~module => ~our_proc_dir

LEMMA StreamNext == Held /\ Stream /\ [ModuleNext]_allVars => Stream'
<1> SUFFICES ASSUME Held, Stream, [ModuleNext]_allVars PROVE Stream'
  OBVIOUS
<1>1. CASE Load
  <2>1. ~module /\ initialized = 0 /\ module' /\ ~nomemory' /\ left' = {}
    BY <1>1 DEF Load, Fresh, Stream
  <2>2. initialized' = 1 /\ workspace'
    <3>1. initialized' = initialized + 1 /\ workspace' = (initialized = 0)
      BY <1>1 DEF Load, UncompressInit
    <3>2. initialized' = 1
      BY <2>1, <3>1
    <3>3. workspace'
      BY <2>1, <3>1, Zenon
    <3> QED
      BY <3>2, <3>3
  <2> QED
    BY <2>1, <2>2 DEF Stream
<1>2. CASE LoadNoMemory
  BY <1>2 DEF LoadNoMemory, Fresh, Stream
<1>3. CASE LoadFails
  BY <1>3 DEF LoadFails, Fresh, Stream
<1>4. CASE Unload
  <2>1. workspace => initialized - 1 = 0
    BY <1>4 DEF Unload, Stream
  <2>2. "workspace" \notin left'
    BY <1>4, <2>1 DEF Unload, UncompressExit
  <2>3. mount' = mount
    BY <1>4 DEF Unload, vars
  <2> QED
    BY <1>4, <2>2, <2>3 DEF Unload, Stream
<1>5. CASE Next /\ module /\ UNCHANGED moduleVars
  BY <1>5 DEF moduleVars, Stream
<1>6. CASE UNCHANGED allVars
  BY <1>6 DEF allVars, vars, moduleVars, Stream
<1> QED
  BY <1>1, <1>2, <1>3, <1>4, <1>5, <1>6 DEF ModuleNext

(* When all volumes are unmounted, there is no file and no directory.      *)
LEMMA NothingMounted ==
  ASSUME Held, Orderly, ~disorder, \A m \in Mounts : mount[m] = "out"
  PROVE  subdir = <<>> /\ ~our_proc_dir /\ \A u \in Users : user[u] = NoMount
<1>1. ToSet(subdir) = {}
  <2>1. ToSet(subdir) \subseteq Mounts
    BY DEF Held, FilesManaged, ToSet
  <2> QED
    BY <2>1 DEF Orderly, Stacked
<1>2. subdir = <<>>
  BY <1>1 DEF ToSet, Held, FilesManaged
<1>3. ~our_proc_dir
  BY <1>2 DEF Held, DirectoryWithFiles
<1>4. ASSUME NEW u \in Users
      PROVE  user[u] = NoMount
  BY <1>1 DEF Held, Volumes, Orderly, Inside
<1> QED
  BY <1>2, <1>3, <1>4

LEMMA OrderlyNext == Held /\ Orderly /\ Stream /\ [ModuleNext]_allVars => Orderly'
<1> SUFFICES ASSUME Held, Orderly, Stream, [ModuleNext]_allVars PROVE Orderly'
  OBVIOUS
<1>1. CASE Fresh
  <2>1. /\ subdir' = <<>> /\ \A m \in Mounts : mount[m] = "out"
        /\ UNCHANGED <<mount, order, manager, user, disorder, failed>>
    BY <1>1 DEF Fresh, Stream
  <2>2. ToSet(subdir') = {} /\ \A a, b : ~Before(subdir', a, b)
    BY <2>1 DEF ToSet, Before
  <2>3. ~disorder => \A u \in Users : user[u] = NoMount
    BY <2>1, NothingMounted
  <2> QED
    BY <2>1, <2>2, <2>3 DEF Orderly, Stacked, Inside, Going, Complete
<1>2. CASE Next
  BY <1>2, VolumeOrderly, UserOrderly DEF Next
<1>3. CASE UNCHANGED vars
  BY <1>3 DEF vars, Orderly, Stacked, Inside, Going, Complete
<1> QED
  BY <1>1, <1>2, <1>3
  DEF ModuleNext, Load, LoadNoMemory, LoadFails, Unload, allVars

LEMMA GoneNext == Held /\ Orderly /\ Gone /\ [ModuleNext]_allVars => Gone'
<1> SUFFICES ASSUME Held, Orderly, Gone, [ModuleNext]_allVars PROVE Gone'
  OBVIOUS
<1>1. CASE Load \/ LoadNoMemory \/ LoadFails
  <2>1. ~our_proc_dir' /\ disorder' = disorder
    BY <1>1 DEF Load, LoadNoMemory, LoadFails, Fresh
  <2>2. "files" \notin left'
    <3>1. CASE Load \/ LoadNoMemory
      BY <3>1 DEF Load, LoadNoMemory
    <3>2. CASE LoadFails
      BY <3>2 DEF LoadFails
    <3> QED
      BY <1>1, <3>1, <3>2
  <2> QED
    BY <2>1, <2>2 DEF Gone
<1>2. CASE Unload
  <2>1. /\ \A m \in Mounts : mount[m] = "out"
        /\ UNCHANGED <<our_proc_dir, disorder>>
    BY <1>2 DEF Unload, vars
  <2>2. ~disorder => subdir = <<>> /\ ~our_proc_dir
    BY <2>1, NothingMounted
  <2>3. ~disorder => "files" \notin left'
    BY <1>2, <2>2 DEF Unload
  <2> QED
    BY <2>1, <2>2, <2>3 DEF Gone
<1>3. CASE Next /\ module /\ UNCHANGED moduleVars
  <2>1. ~disorder' => ~disorder
    BY <1>3 DEF Next, Volume, Register, VmallocFails, MkdirFails, CreateEntryFails,
         MountVolume, ShutdownNoNodes, ShutdownNoDirectory, RemoveEntry, Removed,
         SearchEnds, SearchEmpty, SearchNeverEnds, Searches, Unmounting, Enter, Leave
  <2> QED
    BY <1>3, <2>1 DEF moduleVars, Gone
<1>4. CASE UNCHANGED allVars
  BY <1>4 DEF allVars, vars, moduleVars, Gone
<1> QED
  BY <1>1, <1>2, <1>3, <1>4 DEF ModuleNext

LEMMA OrderlyInvariant == ModuleSpec => [](Held /\ Orderly /\ Stream /\ Gone)
<1>1. ModuleInit => Orderly /\ Stream /\ Gone
  <2> SUFFICES ASSUME ModuleInit PROVE Orderly /\ Stream /\ Gone
    OBVIOUS
  <2>1. ToSet(<<>>) = {} /\ \A a, b : ~Before(<<>>, a, b)
    BY DEF ToSet, Before
  <2>2. Orderly
    BY <2>1 DEF ModuleInit, Init, Orderly, Stacked, Inside, Going, Complete
  <2>3. Stream /\ Gone
    BY DEF ModuleInit, Init, Stream, Gone
  <2> QED
    BY <2>2, <2>3
<1> QED
  BY <1>1, HeldInvariant, OrderlyNext, StreamNext, GoneNext, PTL DEF ModuleSpec

(* While the volume unmounted is always the last one mounted, one who      *)
(* opens a file gets to a superblock that is there, one who is inside      *)
(* keeps manager and superblock, whatever could not be had at a mount, and *)
(* however often the module is loaded.                                     *)
THEOREM FilesHold == ModuleSpec => []FilesSafe
<1>1. Held /\ Orderly => FilesSafe
  <2> SUFFICES ASSUME Held, Orderly, ~disorder
               PROVE  FilesLive /\ \A u \in Users : user[u] # NoMount =>
                        manager[user[u]] /\ mount[user[u]] \in {"in", "removing"}
    BY DEF FilesSafe, OrderlyFilesLive, UsersSafe
  <2>1. FilesLive
    BY DEF Orderly, Stacked, FilesLive
  <2>2. ASSUME NEW u \in Users, user[u] # NoMount
        PROVE  manager[user[u]] /\ mount[user[u]] \in {"in", "removing"}
    <3>1. user[u] \in Mounts
      BY <2>2 DEF Held, Volumes
    <3>2. CASE user[u] \in ToSet(subdir)
      BY <3>2 DEF Held, FilesManaged, Orderly, Stacked
    <3>3. CASE mount[user[u]] = "removing"
      BY <3>1, <3>3 DEF Orderly, Going
    <3> QED
      BY <2>2, <3>2, <3>3 DEF Orderly, Inside
  <2> QED
    BY <2>1, <2>2
<1> QED
  BY <1>1, OrderlyInvariant, PTL

(* If nothing failed either, each unmount ends, and releases the manager.  *)
THEOREM ManagersReleased == ModuleSpec => []Released
<1>1. Orderly => Released
  BY DEF Orderly, Complete, Released
<1> QED
  BY <1>1, OrderlyInvariant, PTL

(* The zlib stream is there for the volumes that are mounted and not for   *)
(* longer than the module; an orderly module leaves nothing in /proc.      *)
THEOREM ModuleHolds == ModuleSpec => []ModuleSound
<1>1. Held /\ Orderly /\ Stream /\ Gone => ModuleSound
  <2> SUFFICES ASSUME Held, Orderly, Stream, Gone PROVE ModuleSound
    OBVIOUS
  <2>1. StreamReady
    BY DEF Stream, StreamReady
  <2>2. ~disorder /\ ~module => ~our_proc_dir /\ \A u \in Users : user[u] = NoMount
    BY NothingMounted DEF Stream
  <2>3. NothingAfterUnload
    BY <2>2 DEF Stream, Gone, NothingAfterUnload
  <2> QED
    BY <2>1, <2>3 DEF ModuleSound
<1> QED
  BY <1>1, OrderlyInvariant, PTL
=============================================================================
