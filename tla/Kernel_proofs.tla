--------------------------- MODULE Kernel_proofs ---------------------------
(***************************************************************************)
(* The kernel's store disk and its session cache, for any programs, any    *)
(* compositions, any number of boots, builds and faults; its call gate,    *)
(* for any number of children, calls and runs of the owner; its executor,  *)
(* for any number of registry slots and programs.                          *)
(***************************************************************************)
EXTENDS KTasks, KGate, KDisk, WellFoundedInduction, TLAPS

\* A nonempty set of positions has a first one.
LEMMA FirstPosition ==
    ASSUME NEW S \in SUBSET Nat, S # {}
    PROVE  Min(S) \in S /\ \A y \in S : Min(S) <= y
<1>1. IsWellFoundedOn(OpToRel(<, Nat), Nat)
  BY NatLessThanWellFounded
<1>2. PICK x \in S : \A y \in S : ~(<<y, x>> \in OpToRel(<, Nat))
  BY <1>1, WFMin
<1>3. \A y \in S : ~(y < x)
  BY <1>2 DEF OpToRel
<1>4. \A y \in S : x <= y
  BY <1>3
<1> QED
  BY <1>4 DEF Min

\* Vec::remove: the other elements stay, in order.
LEMMA RemoveAtKeeps ==
    ASSUME NEW S, NEW q \in Seq(S), NEW i \in DOMAIN q
    PROVE  /\ RemoveAt(q, i) \in Seq(S)
           /\ Len(RemoveAt(q, i)) = Len(q) - 1
           /\ \A j \in 1 .. (Len(q) - 1) :
                RemoveAt(q, i)[j] = IF j < i THEN q[j] ELSE q[j + 1]
<1>1. i \in 1 .. Len(q) /\ Len(q) \in Nat /\ \A j \in 1 .. Len(q) : q[j] \in S
  OBVIOUS
<1> DEFINE l == SubSeq(q, 1, i - 1)
           r == SubSeq(q, i + 1, Len(q))
<1>2. /\ l \in Seq(S) /\ Len(l) = i - 1
      /\ \A j \in 1 .. (i - 1) : l[j] = q[j]
  BY <1>1
<1>3. /\ r \in Seq(S) /\ Len(r) = Len(q) - i
      /\ \A j \in 1 .. (Len(q) - i) : r[j] = q[j + i]
  BY <1>1
<1>4. RemoveAt(q, i) = l \o r
  BY DEF RemoveAt
<1> HIDE DEF l, r
<1>5. /\ l \o r \in Seq(S)
      /\ Len(l \o r) = Len(q) - 1
  BY <1>1, <1>2, <1>3
<1>6. ASSUME NEW j \in 1 .. (Len(q) - 1)
      PROVE  (l \o r)[j] = IF j < i THEN q[j] ELSE q[j + 1]
  <2>1. CASE j < i
    BY <1>1, <1>2, <1>3, <2>1
  <2>2. CASE ~(j < i)
    <3>1. (l \o r)[j] = r[j - (i - 1)]
      BY <1>1, <1>2, <1>3, <2>2
    <3>2. j - (i - 1) \in 1 .. (Len(q) - i) /\ (j - (i - 1)) + i = j + 1
      BY <1>1, <2>2
    <3> QED
      BY <1>3, <2>2, <3>1, <3>2
  <2> QED
    BY <2>1, <2>2
<1> QED
  BY <1>4, <1>5, <1>6

(***************************************************************************)
(* KDisk. That nothing foreign is served (ServesWhatWasStored) rests on    *)
(* the tags: an entry holds what was stored under the name in its tag,     *)
(* wherever it has been copied to since, and whatever the host gives back   *)
(* after it lost power. AckedSurvivesReset needs the working state as well, *)
(* which a later commit of another entry publishes.                        *)
(***************************************************************************)

Payloads == Seq(Chunks) \cup {Artifact(b, c) : b \in Builds, c \in Compositions}
Entries == {Absent, Hollow} \cup [is : {"entry"}, tag : Paths, payload : Payloads]
Handles == [kind : {"baked", "read", "pending"}, name : BinNames, bytes : Seq(Chunks)]
Images == {[comp |-> c, art |-> Artifact(kernel, c)] : c \in Compositions}

DiskTyped ==
    /\ power \in {"off", "up", "nodisk"} /\ kernel \in Builds
    /\ power # "up" => work = disk
    /\ power = "off" => files = <<>> /\ images = <<>> /\ compiling = {}
    /\ compiling \subseteq Compositions
    /\ disk \in [Paths -> Entries] /\ work \in [Paths -> Entries] /\ stable \in [Paths -> Entries]

\* An entry, wherever it is, was stored under its tag.
HoldsTried(d) == \A p \in Paths : d[p].is = "entry" => d[p].payload \in tried[d[p].tag]
TagsTell == HoldsTried(disk) /\ HoldsTried(work) /\ HoldsTried(stable)

\* A program's entry is stored with what was written, an artifact's with what
\* the compiler in its key made of that composition.
TriedIsOwn ==
    /\ tried \in [Paths -> SUBSET Payloads]
    /\ \A n \in BinNames : tried[Bin(n)] \subseteq Seq(Chunks)
    /\ \A b \in Builds, c \in Compositions : tried[Cache(b, c)] \subseteq {Artifact(b, c)}

AckedEverywhere ==
    /\ acked = [p \in Paths |-> acked[p]]
    /\ \A p \in Paths : acked[p] # Absent => disk[p] = acked[p] /\ work[p] = acked[p]

FilesAreSound ==
    /\ files \in Seq(Handles)
    /\ \A h \in DOMAIN files :
         /\ files[h].kind = "read" => files[h].bytes \in tried[Bin(files[h].name)]
         /\ files[h].kind # "baked" => files[h].name \notin BakedNames

ImagesAreOurs == images \in Seq(Images)

DiskInv == DiskTyped /\ TagsTell /\ TriedIsOwn /\ AckedEverywhere /\ FilesAreSound /\ ImagesAreOurs

\* No two names share a path, and the compiler is part of an artifact's.
LEMMA PathsTellApart ==
    /\ \A n \in BinNames : Bin(n) \in Paths
    /\ \A b \in Builds, c \in Compositions : Cache(b, c) \in Paths
    /\ \A n \in BinNames, b \in Builds, c \in Compositions : Bin(n) # Cache(b, c)
    /\ \A b1, b2 \in Builds, c1, c2 \in Compositions :
         Cache(b1, c1) = Cache(b2, c2) => b1 = b2 /\ c1 = c2
<1>1. /\ \A n \in BinNames : Bin(n) \in Paths
      /\ \A b \in Builds, c \in Compositions : Cache(b, c) \in Paths
  BY DEF Paths
<1>2. ASSUME NEW n, NEW b, NEW c PROVE Bin(n) # Cache(b, c)
  <2>1. Bin(n).dir # Cache(b, c).dir
    BY DEF Bin, Cache
  <2> QED
    BY <2>1
<1>3. ASSUME NEW b1, NEW b2, NEW c1, NEW c2, Cache(b1, c1) = Cache(b2, c2) PROVE b1 = b2 /\ c1 = c2
  <2>1. Cache(b1, c1).build = b1 /\ Cache(b1, c1).name = c1 /\ Cache(b2, c2).build = b2 /\ Cache(b2, c2).name = c2
    BY DEF Cache
  <2> QED
    BY <1>3, <2>1
<1> QED
  BY <1>1, <1>2, <1>3

\* The kinds of entry exclude each other.
LEMMA EntryKinds ==
    /\ Absent \in Entries /\ Hollow \in Entries /\ Absent.is # "entry" /\ Hollow.is # "entry"
    /\ \A p \in Paths, x \in Payloads :
         /\ Tagged(p, x) \in Entries /\ Tagged(p, x).is = "entry" /\ Tagged(p, x) # Absent
         /\ Tagged(p, x).tag = p /\ Tagged(p, x).payload = x
BY DEF Entries, Absent, Hollow, Tagged

LEMMA InitDiskInv == DiskInit => DiskInv
<1> SUFFICES ASSUME DiskInit PROVE DiskInv
  OBVIOUS
<1>1. kernel \in Builds
  BY KDiskAssumption DEF DiskInit
<1>2. DiskTyped
  BY <1>1, EntryKinds DEF DiskInit, DiskTyped
<1>3. TagsTell
  BY EntryKinds DEF DiskInit, TagsTell, HoldsTried
<1>4. TriedIsOwn
  BY PathsTellApart DEF DiskInit, TriedIsOwn
<1>5. AckedEverywhere /\ FilesAreSound /\ ImagesAreOurs
  BY DEF DiskInit, AckedEverywhere, FilesAreSound, ImagesAreOurs
<1> QED
  BY <1>2, <1>3, <1>4, <1>5 DEF DiskInv

\* write_entry, whatever becomes of it.
LEMMA StoreKeeps ==
    ASSUME DiskInv, NEW p \in Paths, NEW x \in Payloads, Store(p, x), power = "up", power' = "up",
           (\A n \in BinNames : p = Bin(n) => x \in Seq(Chunks)),
           (\A b \in Builds, c \in Compositions : p = Cache(b, c) => x = Artifact(b, c))
    PROVE  /\ disk' \in [Paths -> Entries] /\ work' \in [Paths -> Entries] /\ stable' = stable
           /\ TagsTell' /\ TriedIsOwn' /\ AckedEverywhere'
           /\ \A q \in Paths : tried[q] \subseteq tried'[q]
<1>1. /\ tried' \in [Paths -> SUBSET Payloads] /\ x \in tried'[p]
      /\ \A q \in Paths : tried[q] \subseteq tried'[q] /\ (q # p => tried'[q] = tried[q])
      /\ tried'[p] = tried[p] \cup {x}
  BY DEF Store, DiskInv, TriedIsOwn
<1>2. TriedIsOwn'
  BY <1>1, PathsTellApart DEF DiskInv, TriedIsOwn
<1>3. /\ work' \in [Paths -> Entries] /\ \A q \in Paths \ {p} : work'[q] = work[q]
      /\ disk' \in {disk, work'}
      /\ work'[p] \in {work[p], Absent, Hollow, Tagged(p, x)} /\ stable' = stable
  BY EntryKinds DEF Store, Stored, StoreFails, DiskInv, DiskTyped
<1>4. HoldsTried(work)'
  <2> SUFFICES ASSUME NEW q \in Paths, work'[q].is = "entry" PROVE work'[q].payload \in tried'[work'[q].tag]
    BY DEF HoldsTried
  <2>1. CASE work'[q] = work[q]
    <3>1. work[q] \in Entries /\ work[q].tag \in Paths /\ work[q].payload \in tried[work[q].tag]
      BY <2>1, EntryKinds DEF DiskInv, DiskTyped, TagsTell, HoldsTried, Entries
    <3> QED
      BY <1>1, <2>1, <3>1
  <2>2. CASE work'[q] # work[q]
    BY <1>1, <1>3, <2>2, EntryKinds
  <2> QED
    BY <2>1, <2>2
<1>5. HoldsTried(disk)' /\ HoldsTried(stable)'
  <2>1. ASSUME NEW d \in {disk, stable}, NEW q \in Paths, d[q].is = "entry"
        PROVE  d[q].payload \in tried'[d[q].tag]
    <3>1. d[q].tag \in Paths /\ d[q].payload \in tried[d[q].tag]
      BY <2>1, EntryKinds DEF DiskInv, DiskTyped, TagsTell, HoldsTried, Entries
    <3> QED
      BY <1>1, <3>1
  <2>2. HoldsTried(stable)'
    BY <1>3, <2>1 DEF HoldsTried
  <2>3. CASE disk' = work'
    BY <1>4, <2>2, <2>3 DEF HoldsTried
  <2>4. CASE disk' = disk
    BY <2>1, <2>2, <2>4 DEF HoldsTried
  <2> QED
    BY <1>3, <2>3, <2>4
<1>6. AckedEverywhere'
  <2>1. CASE Stored(p, x) /\ acked' = [acked EXCEPT ![p] = Tagged(p, x)]
    BY <1>3, <2>1 DEF DiskInv, DiskTyped, AckedEverywhere, Stored
  <2>2. CASE acked' = [acked EXCEPT ![p] = Absent]
    BY <1>3, <2>2 DEF DiskInv, DiskTyped, AckedEverywhere
  <2> QED
    BY <2>1, <2>2 DEF Store
<1> QED
  BY <1>1, <1>2, <1>3, <1>4, <1>5, <1>6 DEF DiskInv, DiskTyped, TagsTell

\* What is open stays sound while more is tried.
LEMMA FilesStaySound ==
    ASSUME DiskInv, files' = files, \A q \in Paths : tried[q] \subseteq tried'[q]
    PROVE  FilesAreSound'
<1>1. ASSUME NEW h \in DOMAIN files PROVE files[h].name \in BinNames
  <2>1. files[h] \in Handles
    BY DEF DiskInv, FilesAreSound
  <2> QED
    BY <2>1 DEF Handles
<1> QED
  BY <1>1, PathsTellApart DEF DiskInv, FilesAreSound

\* Boots and what others do to the disk in between.
LEMMA BootsKeep ==
    ASSUME DiskInv, PowerOn \/ PowerGoes \/ HostWritesBack \/ HostLosesPower
                    \/ \E p, q \in Paths : DiskIsEdited(p, q)
    PROVE  DiskInv'
<1>1. CASE PowerOn
  BY <1>1 DEF PowerOn, session, DiskInv, DiskTyped, TagsTell, HoldsTried, TriedIsOwn, AckedEverywhere,
              FilesAreSound, ImagesAreOurs
<1>2. CASE PowerGoes
  BY <1>2 DEF PowerGoes, DiskInv, DiskTyped, TagsTell, HoldsTried, TriedIsOwn, AckedEverywhere,
              FilesAreSound, ImagesAreOurs
<1>3. ASSUME NEW p \in Paths, NEW q \in Paths, DiskIsEdited(p, q) PROVE DiskInv'
  <2>1. work = disk /\ work' = disk' /\ stable' = disk' /\ disk \in [Paths -> Entries] /\ tried' = tried
    BY <1>3 DEF DiskIsEdited, DiskInv, DiskTyped
  <2>2. /\ disk' \in [Paths -> Entries] /\ disk'[p] \in {Hollow, disk[q]}
        /\ \A r \in Paths \ {p} : disk'[r] = disk[r]
    BY <1>3, <2>1, EntryKinds DEF DiskIsEdited
  <2>3. TagsTell'
    BY <2>1, <2>2, EntryKinds DEF TagsTell, HoldsTried, DiskInv
  <2>4. AckedEverywhere'
    BY <1>3, <2>1, <2>2 DEF DiskIsEdited, DiskInv, AckedEverywhere
  <2>5. DiskTyped' /\ TriedIsOwn' /\ FilesAreSound' /\ ImagesAreOurs'
    BY <1>3, <2>1, <2>2 DEF DiskIsEdited, session, DiskInv, DiskTyped, TriedIsOwn, FilesAreSound,
                            ImagesAreOurs, Images
  <2> QED
    BY <2>3, <2>4, <2>5 DEF DiskInv
<1>4. CASE HostWritesBack
  BY <1>4 DEF HostWritesBack, session, DiskInv, DiskTyped, TagsTell, HoldsTried, TriedIsOwn,
              AckedEverywhere, FilesAreSound, ImagesAreOurs, Images
<1>5. CASE HostLosesPower
  <2>1. /\ disk \in [Paths -> Entries] /\ stable \in [Paths -> Entries]
        /\ work' = disk' /\ stable' = disk' /\ tried' = tried /\ kernel' = kernel
        /\ power' = "off" /\ files' = <<>> /\ images' = <<>> /\ compiling' = {}
        /\ acked' = [p \in Paths |-> IF disk'[p] = acked[p] THEN acked[p] ELSE Absent]
    BY <1>5 DEF HostLosesPower, DiskInv, DiskTyped
  <2>2. disk' \in [Paths -> Entries] /\ \A p \in Paths : disk'[p] \in {stable[p], disk[p], Hollow}
    <3>1. CASE disk' = stable
      BY <2>1, <3>1
    <3>2. CASE \E lost \in SUBSET {p \in Paths : disk[p] # Absent} :
                 disk' = [p \in Paths |-> IF p \in lost THEN Hollow ELSE disk[p]]
      BY <2>1, <3>2, EntryKinds
    <3> QED
      BY <1>5, <3>1, <3>2 DEF HostLosesPower
  <2>3. TagsTell'
    BY <2>1, <2>2, EntryKinds DEF TagsTell, HoldsTried, DiskInv
  <2>4. AckedEverywhere'
    BY <2>1 DEF AckedEverywhere
  <2>5. DiskTyped' /\ TriedIsOwn' /\ FilesAreSound' /\ ImagesAreOurs'
    BY <2>1, <2>2 DEF DiskInv, DiskTyped, TriedIsOwn, FilesAreSound, ImagesAreOurs
  <2> QED
    BY <2>3, <2>4, <2>5 DEF DiskInv
<1> QED
  BY <1>1, <1>2, <1>3, <1>4, <1>5

\* A program removed, with or without its commit.
LEMMA RemoveKeeps ==
    ASSUME DiskInv, NEW n \in BinNames, RemoveProgram(n)
    PROVE  DiskInv'
<1> DEFINE p == Bin(n)
<1>1. /\ p \in Paths /\ work' = [work EXCEPT ![p] = Absent] /\ disk' \in {disk, work'}
      /\ acked' = [acked EXCEPT ![p] = Absent] /\ tried' = tried /\ power = "up" /\ power' = "up"
      /\ stable' = stable /\ disk \in [Paths -> Entries] /\ work \in [Paths -> Entries]
  BY PathsTellApart DEF RemoveProgram, DiskInv, DiskTyped
<1> HIDE DEF p
<1>2. work' \in [Paths -> Entries] /\ work'[p] = Absent /\ \A q \in Paths \ {p} : work'[q] = work[q]
  BY <1>1, EntryKinds
<1>3. TagsTell'
  BY <1>1, <1>2, EntryKinds DEF TagsTell, HoldsTried, DiskInv
<1>4. AckedEverywhere'
  BY <1>1, <1>2 DEF DiskInv, AckedEverywhere
<1>5. DiskTyped' /\ TriedIsOwn' /\ FilesAreSound' /\ ImagesAreOurs'
  BY <1>1, <1>2 DEF RemoveProgram, session, DiskInv, DiskTyped, TriedIsOwn, FilesAreSound, ImagesAreOurs, Images
<1> QED
  BY <1>3, <1>4, <1>5 DEF DiskInv

\* Opening and closing: what is handed out has been verified for its name.
LEMMA OpenKeeps ==
    ASSUME DiskInv, \/ \E n \in BinNames : OpenForReading(n) \/ OpenForWriting(n)
                    \/ \E h \in DOMAIN files : Close(h)
    PROVE  DiskInv'
<1>1. /\ power' = power /\ kernel' = kernel /\ disk' = disk /\ work' = work /\ stable' = stable /\ images' = images
      /\ compiling' = compiling /\ tried' = tried /\ acked' = acked
  BY DEF OpenForReading, OpenForWriting, Close
<1>2. TagsTell' /\ TriedIsOwn' /\ AckedEverywhere' /\ ImagesAreOurs'
  BY <1>1 DEF DiskInv, TagsTell, HoldsTried, TriedIsOwn, AckedEverywhere, ImagesAreOurs, Images
<1>3. ASSUME NEW f \in Handles, files' = Append(files, f), power # "off",
             f.kind = "read" => f.bytes \in tried[Bin(f.name)],
             f.kind # "baked" => f.name \notin BakedNames
      PROVE  DiskInv'
  <2>1. FilesAreSound'
    BY <1>1, <1>3 DEF FilesAreSound, DiskInv
  <2>2. DiskTyped'
    BY <1>1, <1>3 DEF DiskInv, DiskTyped
  <2> QED
    BY <1>2, <2>1, <2>2 DEF DiskInv
<1>4. ASSUME NEW n \in BinNames, OpenForReading(n) PROVE DiskInv'
  <2>1. CASE Resolve(n) = "baked"
    <3>1. Resolve(n) # "disk" /\ n \in BakedNames
      BY <2>1 DEF Resolve
    <3> PICK f : f = [kind |-> "baked", name |-> n, bytes |-> <<>>]
      OBVIOUS
    <3>2. f \in Handles /\ f.kind = "baked"
      BY DEF Handles
    <3> QED
      BY <1>3, <1>4, <3>1, <3>2 DEF OpenForReading
  <2>2. CASE Resolve(n) = "disk" /\ Readable(Bin(n))
    <3> PICK f : f = [kind |-> "read", name |-> n, bytes |-> work[Bin(n)].payload]
      OBVIOUS
    <3>1. n \notin BakedNames /\ Resolve(n) # "baked"
      BY <2>2 DEF Resolve
    <3>2. work[Bin(n)].is = "entry" /\ work[Bin(n)].tag = Bin(n) /\ Bin(n) \in Paths
      BY <2>2, PathsTellApart DEF Readable, Decodes
    <3>3. work[Bin(n)].payload \in tried[Bin(n)]
      BY <3>2 DEF DiskInv, TagsTell, HoldsTried
    <3>4. work[Bin(n)].payload \in Seq(Chunks)
      BY <3>3 DEF DiskInv, TriedIsOwn
    <3>5. f \in Handles /\ f.kind = "read" /\ f.bytes \in tried[Bin(f.name)] /\ f.name = n
      BY <3>3, <3>4 DEF Handles
    <3>6. files' = Append(files, f) /\ power # "off"
      BY <1>4, <3>1 DEF OpenForReading
    <3> QED
      BY <1>3, <3>1, <3>5, <3>6
  <2> QED
    BY <1>4, <2>1, <2>2 DEF OpenForReading
<1>5. ASSUME NEW n \in BinNames, OpenForWriting(n) PROVE DiskInv'
  <2> PICK f : f = [kind |-> "pending", name |-> n, bytes |-> <<>>]
    OBVIOUS
  <2>1. f \in Handles /\ f.kind = "pending" /\ f.name \notin BakedNames
    BY <1>5 DEF Handles, OpenForWriting
  <2> QED
    BY <1>3, <1>5, <2>1 DEF OpenForWriting
<1>6. ASSUME NEW h \in DOMAIN files, Close(h) PROVE DiskInv'
  <2>1. files \in Seq(Handles) /\ files' = RemoveAt(files, h) /\ power # "off"
    BY <1>6 DEF Close, DiskInv, FilesAreSound, DiskTyped
  <2>2. /\ files' \in Seq(Handles) /\ Len(files') = Len(files) - 1
        /\ \A j \in 1 .. (Len(files) - 1) : files'[j] = IF j < h THEN files[j] ELSE files[j + 1]
    BY <2>1, RemoveAtKeeps
  <2>3. \A j \in DOMAIN files' : \E i \in DOMAIN files : files'[j] = files[i]
    BY <2>1, <2>2
  <2>4. FilesAreSound'
    BY <1>1, <2>2, <2>3 DEF FilesAreSound, DiskInv
  <2>5. DiskTyped'
    BY <1>1, <2>1 DEF DiskInv, DiskTyped
  <2> QED
    BY <1>2, <2>4, <2>5 DEF DiskInv
<1> QED
  BY <1>4, <1>5, <1>6

\* write_pending: the handle's bytes go on accumulating, and what is stored is
\* what its name has been tried with.
LEMMA WriteKeeps ==
    ASSUME DiskInv, NEW h \in DOMAIN files, NEW offset \in 1 .. MaxChunks, NEW c \in Chunks,
           WritePending(h, offset, c)
    PROVE  DiskInv'
<1> DEFINE n == files[h].name
           old == files[h].bytes
           x == Overlay(old, offset, c)
<1>1. files \in Seq(Handles) /\ files[h] \in Handles /\ files[h].kind = "pending"
  BY DEF WritePending, DiskInv, FilesAreSound
<1>2. n \in BinNames /\ old \in Seq(Chunks) /\ n \notin BakedNames
  BY <1>1 DEF Handles, DiskInv, FilesAreSound
<1>3. x \in Seq(Chunks)
  <2>1. offset \in Nat /\ offset <= Len(old) + 1 /\ Len(old) \in Nat /\ \A i \in 1 .. Len(old) : old[i] \in Chunks
    BY <1>2, KDiskAssumption DEF WritePending
  <2> DEFINE m == IF offset > Len(old) THEN offset ELSE Len(old)
  <2>2. m \in Nat
    BY <2>1
  <2>3. x \in [1 .. m -> Chunks]
    BY <2>1 DEF Overlay
  <2> QED
    BY <2>2, <2>3
<1>4. files' = [files EXCEPT ![h] = [files[h] EXCEPT !.bytes = x]] /\ files'[h].bytes = x
  BY <1>1 DEF WritePending, Handles
<1> HIDE DEF x
<1>5. /\ Bin(n) \in Paths /\ x \in Payloads /\ Store(Bin(n), x) /\ power = "up" /\ power' = "up"
      /\ kernel' = kernel /\ images' = images /\ compiling' = compiling
  BY <1>2, <1>3, <1>4, PathsTellApart DEF WritePending, Payloads
<1>6. \A b \in Builds, d \in Compositions : Bin(n) # Cache(b, d)
  BY <1>2, PathsTellApart
<1> HIDE DEF n
<1>7. /\ disk' \in [Paths -> Entries] /\ work' \in [Paths -> Entries] /\ stable' = stable
      /\ TagsTell' /\ TriedIsOwn' /\ AckedEverywhere' /\ \A q \in Paths : tried[q] \subseteq tried'[q]
  BY <1>3, <1>5, <1>6, StoreKeeps
<1>8. DiskTyped' /\ ImagesAreOurs'
  BY <1>5, <1>7 DEF DiskInv, DiskTyped, ImagesAreOurs, Images
<1>9. FilesAreSound'
  <2>1. [files[h] EXCEPT !.bytes = x] \in Handles
    BY <1>1, <1>3 DEF Handles
  <2>2. files' \in Seq(Handles) /\ DOMAIN files' = DOMAIN files
    BY <1>1, <1>4, <2>1
  <2>3. ASSUME NEW i \in DOMAIN files
        PROVE  /\ files'[i].kind = "read" => files'[i].bytes \in tried'[Bin(files'[i].name)]
               /\ files'[i].kind # "baked" => files'[i].name \notin BakedNames
    <3>1. CASE i = h
      BY <1>1, <1>2, <1>4, <3>1 DEF Handles, n
    <3>2. CASE i # h
      <4>1. files'[i] = files[i] /\ files[i] \in Handles
        BY <1>1, <1>4, <3>2
      <4>2. Bin(files[i].name) \in Paths
        BY <4>1, PathsTellApart DEF Handles
      <4> QED
        BY <1>7, <4>1, <4>2 DEF DiskInv, FilesAreSound
    <3> QED
      BY <3>1, <3>2
  <2> QED
    BY <2>2, <2>3 DEF FilesAreSound
<1> QED
  BY <1>7, <1>8, <1>9 DEF DiskInv

\* The session's cache only ever holds this kernel's images.
LEMMA WithoutKeeps ==
    ASSUME DiskInv, NEW c
    PROVE  Without(c) \in Seq(Images)
<1>1. images \in Seq(Images)
  BY DEF DiskInv, ImagesAreOurs
<1>2. CASE InSession(c) = {}
  BY <1>1, <1>2 DEF Without
<1>3. CASE InSession(c) # {}
  <2> DEFINE i == CHOOSE i \in InSession(c) : TRUE
  <2>1. i \in DOMAIN images
    BY <1>3 DEF InSession
  <2>2. Without(c) = RemoveAt(images, i)
    BY <1>3 DEF Without
  <2> HIDE DEF i
  <2> QED
    BY <1>1, <2>1, <2>2, RemoveAtKeeps
<1> QED
  BY <1>2, <1>3

LEMMA RememberKeeps ==
    ASSUME DiskInv, NEW c \in Compositions, Remember(c, Artifact(kernel, c)), kernel' = kernel
    PROVE  ImagesAreOurs'
<1>1. [comp |-> c, art |-> Artifact(kernel, c)] \in Images
  BY DEF Images
<1> DEFINE kept == Append(Without(c), [comp |-> c, art |-> Artifact(kernel, c)])
<1>2. kept \in Seq(Images)
  BY <1>1, WithoutKeeps
<1>3. images' = SubSeq(kept, IF Len(kept) > CacheEntries THEN 2 ELSE 1, Len(kept))
  BY DEF Remember
<1> HIDE DEF kept
<1>4. Images' = Images
  BY DEF Images
<1>5. images' \in Seq(Images)
  BY <1>2, <1>3
<1> QED
  BY <1>4, <1>5 DEF ImagesAreOurs

\* Hits, misses, and the end of a compile.
LEMMA CompilesKeep ==
    ASSUME DiskInv, NEW c \in Compositions,
           SessionHit(c) \/ DiskHit(c) \/ CompileStarts(c) \/ CompileEnds(c)
    PROVE  DiskInv'
<1>1. power' = power /\ kernel' = kernel /\ files' = files /\ compiling' \subseteq Compositions
  BY DEF SessionHit, DiskHit, CompileStarts, CompileEnds, DiskInv, DiskTyped
<1>2. power # "off" /\ kernel \in Builds
  BY DEF SessionHit, DiskHit, CompileStarts, CompileEnds, DiskInv, DiskTyped
<1>3. ASSUME UNCHANGED <<disk, work, stable, tried, acked>>, ImagesAreOurs' PROVE DiskInv'
  <2>1. TagsTell' /\ TriedIsOwn' /\ AckedEverywhere'
    BY <1>3 DEF DiskInv, TagsTell, HoldsTried, TriedIsOwn, AckedEverywhere
  <2>2. DiskTyped' /\ FilesAreSound'
    BY <1>1, <1>2, <1>3 DEF DiskInv, DiskTyped, FilesAreSound
  <2> QED
    BY <1>3, <2>1, <2>2 DEF DiskInv
<1>4. CASE SessionHit(c)
  <2> DEFINE i == CHOOSE i \in InSession(c) : TRUE
  <2>1. i \in DOMAIN images
    BY <1>4 DEF SessionHit, InSession
  <2>2. images' = Append(Without(c), images[i])
    BY <1>4 DEF SessionHit
  <2> HIDE DEF i
  <2>3. images[i] \in Images /\ Images' = Images
    BY <1>1, <2>1 DEF DiskInv, ImagesAreOurs, Images
  <2>4. images' \in Seq(Images)
    BY <2>2, <2>3, WithoutKeeps
  <2> QED
    BY <1>3, <1>4, <2>3, <2>4 DEF SessionHit, ImagesAreOurs
<1>5. CASE DiskHit(c)
  <2> DEFINE p == Cache(kernel, c)
  <2>1. p \in Paths /\ work[p].is = "entry" /\ work[p].tag = p
    BY <1>2, <1>5, PathsTellApart DEF DiskHit, Readable, Decodes
  <2>2. work[p].payload \in tried[p]
    BY <2>1 DEF DiskInv, TagsTell, HoldsTried
  <2>3. work[p].payload = Artifact(kernel, c)
    BY <1>2, <2>2 DEF DiskInv, TriedIsOwn
  <2> QED
    BY <1>1, <1>3, <1>5, <2>3, RememberKeeps DEF DiskHit
<1>6. CASE CompileStarts(c)
  BY <1>1, <1>3, <1>6 DEF CompileStarts, DiskInv, ImagesAreOurs, Images
<1>7. CASE CompileEnds(c)
  <2>1. ImagesAreOurs'
    BY <1>1, <1>7, RememberKeeps DEF CompileEnds
  <2>2. CASE power = "up"
    <3> DEFINE p == Cache(kernel, c)
               x == Artifact(kernel, c)
    <3>1. p \in Paths /\ x \in Payloads /\ Store(p, x)
      BY <1>2, <1>7, <2>2, PathsTellApart DEF CompileEnds, Payloads
    <3>2. /\ \A n \in BinNames : p # Bin(n)
          /\ \A b \in Builds, d \in Compositions : p = Cache(b, d) => x = Artifact(b, d)
      BY <1>2, PathsTellApart
    <3> HIDE DEF p, x
    <3>3. /\ disk' \in [Paths -> Entries] /\ work' \in [Paths -> Entries] /\ stable' = stable
          /\ TagsTell' /\ TriedIsOwn' /\ AckedEverywhere' /\ \A q \in Paths : tried[q] \subseteq tried'[q]
      BY <1>1, <2>2, <3>1, <3>2, StoreKeeps
    <3>4. FilesAreSound'
      BY <1>1, <3>3, FilesStaySound
    <3>5. DiskTyped'
      BY <1>1, <2>2, <3>3 DEF DiskInv, DiskTyped
    <3> QED
      BY <2>1, <3>3, <3>4, <3>5 DEF DiskInv
  <2>3. CASE power # "up"
    BY <1>3, <1>7, <2>1, <2>3 DEF CompileEnds
  <2> QED
    BY <2>2, <2>3
<1> QED
  BY <1>4, <1>5, <1>6, <1>7

THEOREM DiskInvariant == DiskSpec => []DiskInv
<1>1. DiskInv /\ [DiskNext]_diskVars => DiskInv'
  <2> SUFFICES ASSUME DiskInv, [DiskNext]_diskVars PROVE DiskInv'
    OBVIOUS
  <2>1. CASE UNCHANGED diskVars
    BY <2>1 DEF diskVars, DiskInv, DiskTyped, TagsTell, HoldsTried, TriedIsOwn, AckedEverywhere,
                FilesAreSound, ImagesAreOurs, Images
  <2> QED
    BY <2>1, BootsKeep, RemoveKeeps, OpenKeeps, WriteKeeps, CompilesKeep DEF DiskNext
<1> QED
  BY <1>1, InitDiskInv, PTL DEF DiskSpec

\* ServesWhatWasStored for any names, compositions, builds and faults: what the
\* shell opens and what a compile finds was stored for exactly that.
THEOREM ServedAsStored == DiskSpec => []ServesWhatWasStored
<1>1. DiskInv => ServesWhatWasStored
  <2> SUFFICES ASSUME DiskInv PROVE ServesWhatWasStored
    OBVIOUS
  <2>1. ASSUME NEW i \in DOMAIN images PROVE images[i].art = Artifact(kernel, images[i].comp)
    <3>1. images[i] \in Images
      BY DEF DiskInv, ImagesAreOurs
    <3> QED
      BY <3>1 DEF Images
  <2> QED
    BY <2>1 DEF DiskInv, FilesAreSound, ServesWhatWasStored
<1> QED
  BY <1>1, DiskInvariant, PTL

\* AckedSurvivesReset: an acknowledged store survives every reset and crash of
\* the machine and every other store, half failed or not; only a host that loses
\* power before it has written it back may take it.
THEOREM AckedOutlivesTheMachine == DiskSpec => []AckedSurvivesReset
<1>1. DiskInv => AckedSurvivesReset
  BY DEF DiskInv, AckedEverywhere, AckedSurvivesReset
<1> QED
  BY <1>1, DiskInvariant, PTL

----------------------------------------------------------------------------
(***************************************************************************)
(* KGate. NoCallLeftBehind and GrantsAreTheirOwn hold together: that a     *)
(* rep a child holds is its own needs the reps its answers carry, the      *)
(* calls that may yet be answered, and why nothing but the handler is ever *)
(* put in entry 0 of its table on its behalf.                              *)
(***************************************************************************)

OwnerHandles == {NoHandle} \cup {Handler(k) : k \in Kids} \cup {Socket(k) : k \in Kids}
Grants == {NoGrant} \cup [task : Kids, table : Seq(OwnerHandles) \ {<<>>}]
CallStates == {"enqueued", "getting", "calling", "done", "answered", "severed", "taken"}
GateCalls == [kid : Kids, grant : Nat, op : {"root", "use"}, rep : Nat, state : CallStates, on : OwnerHandles]

KidStates == {"unborn", "alive", "out", "ending", "dead"}

GateTyped ==
    /\ svcRun \in {"none", "running", "waiting", "finished"} /\ open \in BOOLEAN
    /\ open <=> svcRun = "running"
    /\ intakeWaker \in BOOLEAN /\ ownerRung \in BOOLEAN
    /\ call \in Seq(GateCalls) /\ grants \in Seq(Grants)
    /\ kid \in [Kids -> KidStates] /\ grantOf \in [Kids -> Nat]
    /\ holds \in [Kids -> SUBSET Nat]
    /\ bornIn = [k \in Kids |-> bornIn[k]]

\* What is queued and what the intake holds; somebody will look.
IntakeIsSound ==
    /\ live = queue \cup inFlight /\ live \subseteq Calls
    /\ \A c \in queue : call[c].state = "enqueued"
    /\ \A c \in inFlight : call[c].state \in {"getting", "calling"}
    /\ open => ownerRung \/ intakeWaker
    /\ queue # {} => ownerRung
    /\ ~open => queue = {} /\ inFlight = {}

\* A child that nobody has taken from, and while none has outlived its run every
\* one that runs: its grant is there, and names it.
TaskOf(g) == grants[g].task
Own(k) == (Lives(k) /\ k \notin disturbed) \/ (RunsOn(k) /\ outlived = {})
Granted(k) == open /\ bornIn[k] = runs /\ HasGrant(grantOf[k]) /\ TaskOf(grantOf[k]) = k
KidsAreGranted ==
    /\ \A k \in Kids : /\ kid[k] = "unborn" => holds[k] = {}
                       /\ Own(k) => Granted(k)
    /\ outlived = {} => disturbed = {}

HasHandler(k) == Entry(grantOf[k], 0) # NoHandle
OwnSocket(k, rep) == rep # 0 /\ Entry(grantOf[k], rep) = Socket(k)

\* The calls of a child: where they are while it runs, what they may enter while
\* its grant is its own.
CallIsSound(c) ==
    LET k == call[c].kid IN
    /\ kid[k] # "unborn" /\ call[c].grant = grantOf[k]
    /\ RunsOn(k) =>
         /\ call[c].state = "enqueued" => c \in queue
         /\ call[c].state \in {"getting", "calling"} => c \in inFlight
    /\ Own(k) =>
         /\ call[c].op = "use" \/ call[c].state \in {"calling", "done"} => HasHandler(k)
         /\ call[c].state = "done" => OwnSocket(k, call[c].rep) /\ call[c].rep \notin holds[k]
CallsAreSound == \A c \in Calls : CallIsSound(c)

\* No two answers on their way carry the same rep.
AnswersDiffer ==
    \A c, d \in Calls : /\ c # d /\ call[c].kid = call[d].kid /\ Own(call[c].kid)
                        /\ call[c].state = "done" /\ call[d].state = "done"
                        => call[c].rep # call[d].rep

HoldsTheirOwn ==
    \A k \in Kids : Own(k) => \A rep \in holds[k] : OwnSocket(k, rep) /\ HasHandler(k)

GateInv ==
    /\ GateTyped /\ IntakeIsSound /\ KidsAreGranted /\ CallsAreSound /\ AnswersDiffer /\ HoldsTheirOwn

----------------------------------------------------------------------------
(* The tables.                                                             *)

\* The handles are told apart.
LEMMA HandleKinds ==
    /\ NoHandle \in OwnerHandles
    /\ \A k \in Kids : /\ Handler(k) \in OwnerHandles /\ Socket(k) \in OwnerHandles
                       /\ Handler(k) # NoHandle /\ Socket(k) # NoHandle
BY DEF OwnerHandles, NoHandle, Handler, Socket

\* A grant that is there has a table with an entry for the handler.
LEMMA GrantShape ==
    ASSUME grants \in Seq(Grants), NEW g, HasGrant(g)
    PROVE  /\ g \in DOMAIN grants /\ g \in Nat /\ grants[g] \in [task : Kids, table : Seq(OwnerHandles) \ {<<>>}]
           /\ grants[g].table \in Seq(OwnerHandles) /\ 1 \in DOMAIN grants[g].table
           /\ TaskOf(g) \in Kids
BY DEF HasGrant, Grants, TaskOf

\* Nothing but these tables differs, in this one entry.
OnlyEntry(g, rep, h) ==
    /\ grants' \in Seq(Grants)
    /\ \A x : HasGrant(x)' <=> HasGrant(x)
    /\ \A x : HasGrant(x) => TaskOf(x)' = TaskOf(x)
    /\ \A x, r \in Nat : Entry(x, r)' = IF x = g /\ r = rep THEN h ELSE Entry(x, r)

\* A new table for grant g.
LEMMA NewTable ==
    ASSUME grants \in Seq(Grants), NEW g, HasGrant(g), NEW t \in Seq(OwnerHandles), NEW i \in DOMAIN t,
           DOMAIN grants[g].table \subseteq DOMAIN t, \A j \in DOMAIN t : j # i /\ j \notin DOMAIN grants[g].table => t[j] = NoHandle,
           \A j \in DOMAIN grants[g].table : j # i => t[j] = grants[g].table[j],
           grants' = [grants EXCEPT ![g].table = t]
    PROVE  OnlyEntry(g, i - 1, t[i])
<1> DEFINE new == [grants[g] EXCEPT !.table = t]
<1>1. /\ g \in DOMAIN grants /\ g \in Nat /\ grants[g] \in [task : Kids, table : Seq(OwnerHandles) \ {<<>>}]
      /\ 1 \in DOMAIN grants[g].table /\ t # <<>>
  BY GrantShape
<1>2. /\ new \in [task : Kids, table : Seq(OwnerHandles) \ {<<>>}] /\ new.table = t
      /\ new.task = grants[g].task /\ new # NoGrant
  BY <1>1 DEF NoGrant
<1>3. grants' = [grants EXCEPT ![g] = new] /\ new \in Grants
  BY <1>1, <1>2 DEF Grants
<1> HIDE DEF new
<1>4. /\ grants' \in Seq(Grants) /\ DOMAIN grants' = DOMAIN grants /\ grants'[g] = new
      /\ \A x \in DOMAIN grants \ {g} : grants'[x] = grants[x]
  <2>1. grants = [x \in 1 .. Len(grants) |-> grants[x]] /\ Len(grants) \in Nat /\ g \in 1 .. Len(grants)
        /\ \A x \in 1 .. Len(grants) : grants[x] \in Grants
    BY <1>1
  <2>2. grants' = [x \in 1 .. Len(grants) |-> IF x = g THEN new ELSE grants[x]]
    BY <1>3, <2>1
  <2>3. grants' \in [1 .. Len(grants) -> Grants]
    BY <1>3, <2>1, <2>2
  <2>4. grants' \in Seq(Grants)
    BY <2>1, <2>3
  <2> QED
    BY <2>1, <2>2, <2>4
<1>5. \A x : HasGrant(x)' <=> HasGrant(x)
  BY <1>1, <1>2, <1>4 DEF HasGrant
<1>6. \A x : HasGrant(x) => TaskOf(x)' = TaskOf(x)
  BY <1>1, <1>2, <1>4 DEF TaskOf, HasGrant
<1>7. ASSUME NEW x \in Nat, NEW r \in Nat PROVE Entry(x, r)' = IF x = g /\ r = i - 1 THEN t[i] ELSE Entry(x, r)
  <2>1. CASE x # g
    BY <1>4, <1>5, <2>1 DEF Entry, HasGrant
  <2>2. CASE x = g
    <3>1. HasGrant(g) /\ HasGrant(g)' /\ grants'[g].table = t /\ i \in Nat
      BY <1>2, <1>4, <1>5
    <3> QED
      BY <2>2, <3>1 DEF Entry
  <2> QED
    BY <2>1, <2>2
<1> QED
  BY <1>4, <1>5, <1>6, <1>7 DEF OnlyEntry

\* table_enter: an entry that was empty, or a new one.
LEMMA EnterFacts ==
    ASSUME grants \in Seq(Grants), NEW g, HasGrant(g), NEW h \in OwnerHandles, TableEnter(g, h)
    PROVE  /\ EnterAt(g) \in Nat \ {0} /\ Entry(g, EnterAt(g) - 1) = NoHandle
           /\ OnlyEntry(g, EnterAt(g) - 1, h)
<1> DEFINE table == grants[g].table
           empty == {j \in DOMAIN table : table[j] = NoHandle}
           i == EnterAt(g)
           m == IF i > Len(table) THEN i ELSE Len(table)
           t == [j \in 1 .. m |-> IF j = i THEN h ELSE table[j]]
<1>1. table \in Seq(OwnerHandles) /\ Len(table) \in Nat
  BY GrantShape
<1>2. i = IF empty = {} THEN Len(table) + 1 ELSE Min(empty)
  BY DEF EnterAt
<1>3. empty \in SUBSET Nat /\ (empty # {} => Min(empty) \in empty)
  <2>1. empty \in SUBSET Nat
    BY <1>1
  <2> HIDE DEF empty
  <2> QED
    BY <2>1, FirstPosition
<1>4. grants' = [grants EXCEPT ![g].table = t]
  BY DEF TableEnter
<1> HIDE DEF i
<1>5. i = Len(table) + 1 \/ (i \in DOMAIN table /\ table[i] = NoHandle)
  BY <1>2, <1>3
<1>6. i \in Nat \ {0} /\ m \in Nat /\ i \in 1 .. m /\ Len(table) <= m /\ (\A j \in 1 .. m : j # i => j \in 1 .. Len(table))
  BY <1>1, <1>5
<1>7. t \in Seq(OwnerHandles) /\ DOMAIN t = 1 .. m
  <2>1. \A j \in 1 .. Len(table) : table[j] \in OwnerHandles
    BY <1>1
  <2>2. t \in [1 .. m -> OwnerHandles]
    BY <1>6, <2>1
  <2> HIDE DEF t, m
  <2> QED
    BY <1>6, <2>2
<1>8. Entry(g, i - 1) = NoHandle
  BY <1>1, <1>5 DEF Entry
<1>9. /\ i \in DOMAIN t /\ DOMAIN table \subseteq DOMAIN t /\ t[i] = h
      /\ \A j \in DOMAIN t : j # i => j \in DOMAIN table /\ t[j] = table[j]
  <2>1. DOMAIN table = 1 .. Len(table) /\ DOMAIN t = 1 .. m /\ 1 .. Len(table) \subseteq 1 .. m
    BY <1>1, <1>6, <1>7
  <2>2. t[i] = h /\ \A j \in 1 .. m : j # i => t[j] = table[j]
    BY <1>6
  <2> HIDE DEF t, m, table
  <2> QED
    BY <1>6, <2>1, <2>2
<1> HIDE DEF t
<1>10. OnlyEntry(g, i - 1, t[i])
  BY <1>4, <1>7, <1>9, NewTable
<1> QED
  BY <1>6, <1>8, <1>9, <1>10 DEF i

\* An entry that is there is replaced.
LEMMA ReplaceFacts ==
    ASSUME grants \in Seq(Grants), NEW g, HasGrant(g), NEW h \in OwnerHandles,
           NEW i \in DOMAIN grants[g].table, grants' = [grants EXCEPT ![g].table[i] = h]
    PROVE  OnlyEntry(g, i - 1, h)
<1> DEFINE table == grants[g].table
           t == [table EXCEPT ![i] = h]
<1>1. table \in Seq(OwnerHandles)
  BY GrantShape
<1>2. t \in Seq(OwnerHandles) /\ DOMAIN t = DOMAIN table /\ t[i] = h /\ \A j \in DOMAIN table : j # i => t[j] = table[j]
  BY <1>1
<1>3. grants' = [grants EXCEPT ![g].table = t]
  OBVIOUS
<1> HIDE DEF t
<1> QED
  BY <1>2, <1>3, NewTable

\* mint_console_grant: a free place, an empty table.
LEMMA MintFacts ==
    ASSUME grants \in Seq(Grants), NEW k \in Kids, NEW m, m = MintAt,
           grants' = IF m > Len(grants) THEN Append(grants, [task |-> k, table |-> <<NoHandle>>])
                     ELSE [grants EXCEPT ![m] = [task |-> k, table |-> <<NoHandle>>]]
    PROVE  /\ grants' \in Seq(Grants) /\ m \in Nat /\ ~HasGrant(m)
           /\ HasGrant(m)' /\ TaskOf(m)' = k
           /\ \A x : HasGrant(x) => HasGrant(x)' /\ TaskOf(x)' = TaskOf(x) /\ \A r \in Nat : Entry(x, r)' = Entry(x, r)
<1> DEFINE free == {g \in DOMAIN grants : grants[g] = NoGrant}
           fresh == [task |-> k, table |-> <<NoHandle>>]
<1>1. free \in SUBSET Nat /\ (free # {} => Min(free) \in free)
  <2>1. free \in SUBSET Nat
    OBVIOUS
  <2> HIDE DEF free
  <2> QED
    BY <2>1, FirstPosition
<1>2. m = Len(grants) + 1 \/ (m \in DOMAIN grants /\ grants[m] = NoGrant)
  BY <1>1 DEF MintAt
<1>3. m \in Nat /\ ~HasGrant(m) /\ Len(grants) \in Nat
  BY <1>2 DEF HasGrant
<1>4. fresh \in Grants /\ fresh # NoGrant /\ fresh.task = k
  <2>1. <<NoHandle>> \in Seq(OwnerHandles) /\ <<NoHandle>> # <<>>
    BY HandleKinds
  <2>2. fresh.table # NoGrant.table
    BY <2>1 DEF NoGrant
  <2> QED
    BY <2>1, <2>2 DEF Grants
<1> HIDE DEF fresh
<1>5. /\ grants' \in Seq(Grants) /\ m \in DOMAIN grants' /\ grants'[m] = fresh
      /\ DOMAIN grants \subseteq DOMAIN grants' /\ \A x \in DOMAIN grants \ {m} : grants'[x] = grants[x]
  <2>1. CASE m = Len(grants) + 1
    <3>1. grants' = Append(grants, fresh)
      BY <1>3, <2>1 DEF fresh
    <3> QED
      BY <1>3, <1>4, <2>1, <3>1
  <2>2. CASE m \in DOMAIN grants
    <3>1. grants' = [grants EXCEPT ![m] = fresh] /\ m \in 1 .. Len(grants)
      BY <1>3, <2>2 DEF fresh
    <3> QED
      BY <1>3, <1>4, <3>1
  <2> QED
    BY <1>2, <2>1, <2>2
<1>6. HasGrant(m)' /\ TaskOf(m)' = k
  BY <1>4, <1>5 DEF HasGrant, TaskOf
<1>7. \A x : HasGrant(x) => x # m /\ x \in DOMAIN grants /\ grants'[x] = grants[x] /\ HasGrant(x)'
  BY <1>3, <1>5 DEF HasGrant
<1>8. \A x : HasGrant(x) => TaskOf(x)' = TaskOf(x) /\ \A r \in Nat : Entry(x, r)' = Entry(x, r)
  BY <1>7 DEF TaskOf, Entry
<1> QED
  BY <1>3, <1>5, <1>6, <1>7, <1>8

\* The GrantHandle of a child is dropped.
LEMMA ForgetFacts ==
    ASSUME grants \in Seq(Grants), NEW g, grants' = IF g \in DOMAIN grants THEN [grants EXCEPT ![g] = NoGrant] ELSE grants
    PROVE  /\ grants' \in Seq(Grants)
           /\ \A x : HasGrant(x) /\ x # g =>
                HasGrant(x)' /\ TaskOf(x)' = TaskOf(x) /\ \A r \in Nat : Entry(x, r)' = Entry(x, r)
<1>1. grants' \in Seq(Grants) /\ DOMAIN grants' = DOMAIN grants /\ \A x \in DOMAIN grants : x # g => grants'[x] = grants[x]
  BY DEF Grants
<1> QED
  BY <1>1 DEF HasGrant, TaskOf, Entry

\* What a rep names is a handle.
LEMMA EntryTyped ==
    ASSUME grants \in Seq(Grants), NEW g, NEW r \in Nat
    PROVE  Entry(g, r) \in OwnerHandles
<1>1. CASE HasGrant(g) /\ r + 1 \in DOMAIN grants[g].table
  <2>1. grants[g].table \in Seq(OwnerHandles)
    BY <1>1, GrantShape
  <2> QED
    BY <1>1, <2>1 DEF Entry
<1>2. CASE ~(HasGrant(g) /\ r + 1 \in DOMAIN grants[g].table)
  BY <1>2, HandleKinds DEF Entry
<1> QED
  BY <1>1, <1>2

\* While the tables do not change, nothing that is read from them does.
LEMMA SameTables ==
    ASSUME grants' = grants
    PROVE  \A x : HasGrant(x)' = HasGrant(x) /\ TaskOf(x)' = TaskOf(x) /\ \A r : Entry(x, r)' = Entry(x, r)
BY DEF HasGrant, TaskOf, Entry

----------------------------------------------------------------------------
(* The owner's run.                                                        *)

LEMMA InitGateInv == GateInit => GateInv
<1> SUFFICES ASSUME GateInit PROVE GateInv
  OBVIOUS
<1>1. Calls = {}
  BY DEF GateInit, Calls
<1>2. GateTyped
  <2>1. call \in Seq(GateCalls) /\ grants \in Seq(Grants)
    BY DEF GateInit
  <2>2. bornIn = [k \in Kids |-> bornIn[k]]
    BY DEF GateInit
  <2>3. open \in BOOLEAN /\ (open <=> svcRun = "running") /\ intakeWaker \in BOOLEAN /\ ownerRung \in BOOLEAN
    BY DEF GateInit
  <2> QED
    BY <2>1, <2>2, <2>3 DEF GateInit, GateTyped, KidStates
<1> QED
  BY <1>1, <1>2 DEF GateInit, GateInv, IntakeIsSound, KidsAreGranted, Granted, CallsAreSound, AnswersDiffer,
                    HoldsTheirOwn, Own, Lives, RunsOn

LEMMA CallTyped ==
    ASSUME GateInv, NEW c \in Calls
    PROVE  call[c] \in GateCalls /\ call[c].kid \in Kids /\ CallIsSound(c)
<1>1. call[c] \in GateCalls
  BY DEF GateInv, GateTyped, Calls
<1> QED
  BY <1>1 DEF GateInv, CallsAreSound, GateCalls

\* A share that is nobody's any more: the children that run on wait for nothing.
LEMMA Deserted ==
    ASSUME GateInv, \A k \in Kids : ~Own(k)' /\ (kid'[k] = "unborn" => kid[k] = "unborn"),
           outlived' = {} => disturbed' = {},
           kid' \in [Kids -> KidStates],
           call' \in Seq(GateCalls), Len(call') = Len(call),
           \A c \in Calls : call'[c].kid = call[c].kid /\ call'[c].grant = call[c].grant,
           \A k \in Kids : RunsOn(k)' => \A c \in Calls : call[c].kid = k => call'[c].state \notin Unanswered,
           UNCHANGED <<grantOf, holds, bornIn>>,
           svcRun' \in {"none", "running", "waiting", "finished"}, open' \in BOOLEAN,
           open' <=> svcRun' = "running",
           intakeWaker' \in BOOLEAN, ownerRung' \in BOOLEAN, open' => ownerRung',
           queue' = {}, live' = {}, inFlight' = {}, grants' = <<>>
    PROVE  GateInv'
<1>1. Calls' = Calls /\ \A c \in Calls : call[c] \in GateCalls /\ call[c].kid \in Kids
  BY CallTyped DEF Calls
<1>2. GateTyped'
  BY DEF GateInv, GateTyped
<1>3. IntakeIsSound' /\ HoldsTheirOwn'
  BY DEF IntakeIsSound, HoldsTheirOwn
<1>4. KidsAreGranted'
  BY DEF KidsAreGranted, Granted, GateInv
<1>5. CallsAreSound'
  <2> SUFFICES ASSUME NEW c \in Calls PROVE CallIsSound(c)'
    BY <1>1 DEF CallsAreSound
  <2> PICK k : k = call[c].kid
    OBVIOUS
  <2>1. CallIsSound(c) /\ k \in Kids /\ call'[c].kid = k
    BY <1>1 DEF GateInv, CallsAreSound
  <2>2. ~Own(k)' /\ (RunsOn(k)' => call'[c].state \notin Unanswered)
    BY <2>1
  <2> QED
    BY <1>1, <2>1, <2>2 DEF CallIsSound, Own, Lives, RunsOn, Unanswered
<1>6. AnswersDiffer'
  <2> SUFFICES ASSUME NEW c \in Calls, Own(call[c].kid)' PROVE FALSE
    BY <1>1 DEF AnswersDiffer
  <2> PICK k : k = call[c].kid
    OBVIOUS
  <2>1. k \in Kids /\ ~Own(k)' /\ call'[c].kid = k
    BY <1>1
  <2> QED
    BY <2>1 DEF Own, Lives
<1> QED
  BY <1>2, <1>3, <1>4, <1>5, <1>6 DEF GateInv

\* on_owner_run_ended leaves no child with a grant behind: who runs on has been
\* marked, or had been robbed of its grant before.
LEMMA EndShareKills ==
    ASSUME GateInv, EndShare, disturbed' = disturbed
    PROVE  /\ \A k \in Kids : ~Own(k)' /\ (kid'[k] = "unborn" => kid[k] = "unborn")
           /\ outlived' = {} => disturbed' = {}
           /\ kid' \in [Kids -> KidStates]
           /\ call' \in Seq(GateCalls) /\ Len(call') = Len(call)
           /\ \A c \in Calls : call'[c].kid = call[c].kid /\ call'[c].grant = call[c].grant
           /\ \A k \in Kids : RunsOn(k)' => \A c \in Calls : call[c].kid = k => call'[c].state \notin Unanswered
<1>1. /\ call \in Seq(GateCalls) /\ Len(call) \in Nat /\ kid \in [Kids -> KidStates]
      /\ outlived = {} => disturbed = {}
  BY DEF GateInv, GateTyped, KidsAreGranted, Granted
<1>2. CASE open
  <2>1. SeverCalls /\ KillGated
    BY <1>2 DEF EndShare
  <2>2. \A k \in Kids : Own(k) => k \in Cascades
    BY DEF GateInv, KidsAreGranted, Granted, HasGrant, TaskOf, Cascades
  <2>3. kid' \in [Kids -> KidStates]
    BY <1>1, <2>1 DEF KillGated, KidStates
  <2>4. ASSUME NEW k \in Kids
        PROVE  ~Own(k)' /\ (kid'[k] = "unborn" => kid[k] = "unborn") /\ (RunsOn(k)' => RunsOn(k))
    <3>1. kid'[k] = IF k \notin Cascades THEN kid[k] ELSE IF kid[k] \in {"out", "ending"} THEN "ending" ELSE "dead"
      BY <2>1 DEF KillGated
    <3>2. outlived' = outlived \cup {j \in Kids : RunsOn(j)'}
      BY <2>1 DEF KillGated
    <3>3. RunsOn(k)' => k \in outlived'
      BY <3>2
    <3> QED
      BY <2>2, <3>1, <3>3 DEF Own, Lives, RunsOn
  <2>5. outlived \subseteq outlived'
    BY <2>1 DEF KillGated
  <2>6. ASSUME NEW c \in Calls
        PROVE  /\ call'[c] \in GateCalls /\ call'[c].kid = call[c].kid /\ call'[c].grant = call[c].grant
               /\ RunsOn(call[c].kid) => call'[c].state \notin Unanswered
    <3>1. call[c] \in GateCalls /\ CallIsSound(c)
      BY CallTyped
    <3>2. call'[c] = IF c \in Severs /\ call[c].state # "done" THEN [call[c] EXCEPT !.state = "severed"] ELSE call[c]
      BY <2>1 DEF SeverCalls
    <3>3. RunsOn(call[c].kid) /\ call[c].state \in Unanswered => c \in Severs
      BY <3>1 DEF CallIsSound, Unanswered, Severs, GateInv, IntakeIsSound
    <3> QED
      BY <3>1, <3>2, <3>3 DEF GateCalls, CallStates, Unanswered
  <2>7. call' \in Seq(GateCalls) /\ Len(call') = Len(call)
    <3>1. call' = [c \in 1 .. Len(call) |-> call'[c]]
      BY <2>1 DEF SeverCalls, Calls
    <3>2. call' \in [1 .. Len(call) -> GateCalls]
      BY <2>6, <3>1 DEF Calls
    <3> QED
      BY <1>1, <3>2
  <2> QED
    BY <1>1, <2>3, <2>4, <2>5, <2>6, <2>7
<1>3. CASE ~open
  <2>1. kid' = kid /\ outlived' = outlived /\ call' = call
    BY <1>3 DEF EndShare
  <2>2. \A k \in Kids : ~Own(k)
    BY <1>3 DEF GateInv, KidsAreGranted, Granted
  <2>3. \A k \in Kids : (Own(k)' <=> Own(k)) /\ (RunsOn(k)' <=> RunsOn(k))
    BY <2>1 DEF Own, Lives, RunsOn
  <2>4. ASSUME NEW c \in Calls, RunsOn(call[c].kid) PROVE call[c].state \notin Unanswered
    BY <1>3, <2>4, CallTyped DEF CallIsSound, GateInv, IntakeIsSound, Unanswered
  <2> QED
    BY <1>1, <2>1, <2>2, <2>3, <2>4
<1> QED
  BY <1>2, <1>3

\* A service that only changes its record, with no run before or after.
LEMMA RecordKeeps ==
    ASSUME GateInv, ~open, svcRun' \in {"none", "waiting", "finished"}, UNCHANGED <<share, call, children, outliving, runs>>
    PROVE  GateInv'
<1>1. \A x : HasGrant(x)' = HasGrant(x) /\ TaskOf(x)' = TaskOf(x) /\ \A r : Entry(x, r)' = Entry(x, r)
  BY SameTables DEF share
<1>2. GateTyped' /\ Calls' = Calls
  BY DEF GateInv, GateTyped, Calls, share, children, outliving, Own, Lives, RunsOn
<1>5. IntakeIsSound' /\ AnswersDiffer'
  BY <1>2 DEF GateInv, IntakeIsSound, AnswersDiffer, share, children, outliving, Own, Lives, RunsOn
<1>3. KidsAreGranted' /\ HoldsTheirOwn'
  BY DEF GateInv, KidsAreGranted, Granted, HoldsTheirOwn, share, children, outliving, Own, Lives, RunsOn
<1>4. CallsAreSound'
  BY <1>2 DEF GateInv, CallsAreSound, CallIsSound, KidsAreGranted, Granted, share, children, outliving, Own, Lives, RunsOn, Calls, HasHandler, OwnSocket, Entry, HasGrant
<1> QED
  BY <1>2, <1>3, <1>4, <1>5 DEF GateInv

LEMMA OwnerKeeps ==
    ASSUME GateInv, ConsoleCall \/ OwnerTraps \/ RestartIsDue
    PROVE  GateInv'
<1>1. ASSUME ~open, svcRun' = "running", WireOwner, UNCHANGED <<call, children, outliving>> PROVE GateInv'
  <2>1. UNCHANGED <<kid, grantOf, holds, bornIn, outlived, disturbed>>
    BY <1>1 DEF children, outliving
  <2>2. EndShare
    BY <1>1, <2>1 DEF EndShare
  <2> QED
    BY <1>1, <2>1, <2>2, EndShareKills, Deserted DEF WireOwner
<1>2. CASE Detach
  BY <1>1, <1>2 DEF Detach, GateInv, GateTyped
<1>3. CASE OwnerTraps
  <2>1. UNCHANGED <<grantOf, holds, bornIn, disturbed>> /\ EndShare
    BY <1>3 DEF OwnerTraps
  <2>2. CASE svcRun' \in {"finished", "waiting"} /\ CloseShare
    BY <2>1, <2>2, EndShareKills, Deserted DEF CloseShare
  <2>3. CASE svcRun' = "running" /\ WireOwner
    BY <2>1, <2>3, EndShareKills, Deserted DEF WireOwner
  <2> QED
    BY <1>3, <2>2, <2>3 DEF OwnerTraps
<1>4. CASE RestartIsDue
  <2>1. ~open
    BY <1>4 DEF RestartIsDue, GateInv, GateTyped
  <2> QED
    BY <1>1, <1>4, <2>1, RecordKeeps DEF RestartIsDue
<1>5. CASE Stop
  <2>1. CASE open
    BY <1>5, <2>1, EndShareKills, Deserted DEF Stop, CloseShare
  <2>2. CASE ~open
    BY <1>5, <2>2, RecordKeeps DEF Stop, EndShare, children, outliving
  <2> QED
    BY <2>1, <2>2
<1>6. CASE ClearRecord
  BY <1>6, RecordKeeps DEF ClearRecord, GateInv, GateTyped
<1> QED
  BY <1>2, <1>3, <1>4, <1>5, <1>6 DEF ConsoleCall

----------------------------------------------------------------------------
(* The intake.                                                             *)

\* A live child stays granted, keeps its handler and its sockets.
TablesKeep ==
    \A k \in Kids : Own(k) =>
        /\ HasGrant(grantOf[k])' /\ TaskOf(grantOf[k])' = k
        /\ HasHandler(k) => HasHandler(k)'
        /\ \A rep \in Nat : OwnSocket(k, rep) => OwnSocket(k, rep)'

\* Tables that did not change, and a handle put where there was none, or for
\* the handler.
LEMMA TablesKept ==
    ASSUME GateInv, grantOf' = grantOf,
           \/ grants' = grants
           \/ \E g, rep \in Nat, h \in OwnerHandles \ {NoHandle} :
                (rep = 0 \/ Entry(g, rep) = NoHandle) /\ OnlyEntry(g, rep, h)
    PROVE  TablesKeep
<1> SUFFICES ASSUME NEW k \in Kids, Own(k)
             PROVE  /\ HasGrant(grantOf[k])' /\ TaskOf(grantOf[k])' = k
                    /\ HasHandler(k) => HasHandler(k)'
                    /\ \A rep \in Nat : OwnSocket(k, rep) => OwnSocket(k, rep)'
  BY DEF TablesKeep
<1> DEFINE x == grantOf[k]
<1>1. HasGrant(x) /\ TaskOf(x) = k /\ x \in Nat /\ x' = x
  BY DEF GateInv, KidsAreGranted, Granted, GateTyped
<1>2. Socket(k) # NoHandle
  BY HandleKinds
<1>3. CASE grants' = grants
  BY <1>1, <1>3, SameTables DEF HasHandler, OwnSocket
<1>4. ASSUME NEW g \in Nat, NEW rep \in Nat, NEW h \in OwnerHandles \ {NoHandle}, OnlyEntry(g, rep, h),
             rep = 0 \/ Entry(g, rep) = NoHandle
      PROVE  /\ HasGrant(x)' /\ TaskOf(x)' = k
             /\ HasHandler(k) => HasHandler(k)'
             /\ \A r \in Nat : OwnSocket(k, r) => OwnSocket(k, r)'
  <2>1. HasGrant(x)' /\ TaskOf(x)' = k
    BY <1>1, <1>4 DEF OnlyEntry, HasGrant, TaskOf
  <2>2. \A r \in Nat : Entry(x, r)' = IF x = g /\ r = rep THEN h ELSE Entry(x, r)
    BY <1>1, <1>4 DEF OnlyEntry, Entry, HasGrant
  <2> QED
    BY <1>1, <1>2, <1>4, <2>1, <2>2 DEF HasHandler, OwnSocket
<1> QED
  BY <1>3, <1>4

\* A call the intake holds goes on to r, or leaves.
LEMMA PolledKeeps ==
    ASSUME GateInv, NEW c \in inFlight, NEW r \in GateCalls, NEW k \in Kids, k = call[c].kid,
           r.kid = k, r.grant = call[c].grant, r.op = call[c].op, call' = [call EXCEPT ![c] = r],
           UNCHANGED <<svcRun, runs, open, queue, intakeWaker, ownerRung, children, outliving>>,
           grants' \in Seq(Grants), TablesKeep,
           \/ r.state = "calling" /\ inFlight' = inFlight /\ live' = live
           \/ r.state \in {"done", "answered", "severed"} /\ inFlight' = inFlight \ {c} /\ live' = live \ {c},
           Own(k) =>
             /\ r.state \in {"calling", "done"} => HasHandler(k)'
             /\ r.state = "done" => OwnSocket(k, r.rep)' /\ r.rep \notin holds[k]
             /\ r.state = "done" => \A d \in Calls : call[d].kid = k /\ call[d].state = "done" => call[d].rep # r.rep
    PROVE  GateInv'
<1>1. c \in Calls /\ call[c].state \in {"getting", "calling"} /\ c \notin queue
  BY DEF GateInv, IntakeIsSound
<1>2. call \in Seq(GateCalls) /\ c \in 1 .. Len(call)
  BY <1>1 DEF GateInv, GateTyped, Calls
<1>3. call' \in Seq(GateCalls) /\ Len(call') = Len(call) /\ call'[c] = r /\ \A d \in 1 .. Len(call) : d # c => call'[d] = call[d]
  BY <1>2
<1>4. Calls' = Calls /\ \A d \in Calls : d # c => call'[d] = call[d]
  BY <1>3 DEF Calls
<1>5. GateTyped'
  BY <1>3 DEF GateInv, GateTyped, children, outliving, Own, Lives, RunsOn
<1>6. IntakeIsSound'
  <2>1. IntakeIsSound
    BY DEF GateInv
  <2> QED
    BY <1>1, <1>3, <1>4, <2>1 DEF IntakeIsSound
<1>7. KidsAreGranted'
  BY DEF GateInv, KidsAreGranted, Granted, TablesKeep, children, outliving, Own, Lives, RunsOn
<1>8. HoldsTheirOwn'
  <2> SUFFICES ASSUME NEW j \in Kids, Own(j), NEW rep \in holds[j] PROVE OwnSocket(j, rep)' /\ HasHandler(j)'
    BY DEF HoldsTheirOwn, children, outliving, Own, Lives, RunsOn
  <2>1. rep \in Nat /\ OwnSocket(j, rep) /\ HasHandler(j)
    BY DEF GateInv, GateTyped, HoldsTheirOwn
  <2> QED
    BY <2>1 DEF TablesKeep
<1>9. CallsAreSound'
  <2> SUFFICES ASSUME NEW d \in Calls PROVE CallIsSound(d)'
    BY <1>4 DEF CallsAreSound
  <2>1. call[d] \in GateCalls /\ call[d].kid \in Kids /\ call[d].rep \in Nat /\ CallIsSound(d)
    BY CallTyped DEF GateCalls
  <2>2. CASE d = c
    <3>1. r.op = "use" /\ Own(k) => HasHandler(k)'
      BY <2>1, <2>2 DEF CallIsSound, TablesKeep
    <3> QED
      BY <1>1, <1>3, <2>1, <2>2, <3>1 DEF CallIsSound, children, outliving, Own, Lives, RunsOn
  <2>3. CASE d # c
    <3> DEFINE j == call[d].kid
    <3>1. call'[d] = call[d] /\ (d \in inFlight => d \in inFlight')
      BY <1>4, <2>3
    <3>2. Own(j) => /\ (HasHandler(j) => HasHandler(j)')
                    /\ (OwnSocket(j, call[d].rep) => OwnSocket(j, call[d].rep)')
      BY <2>1, <3>1 DEF TablesKeep, OwnSocket
    <3> QED
      BY <2>1, <3>1, <3>2 DEF CallIsSound, children, outliving, Own, Lives, RunsOn, HasHandler, OwnSocket
  <2> QED
    BY <2>2, <2>3
<1>10. AnswersDiffer'
  <2> SUFFICES ASSUME NEW d \in Calls, NEW e \in Calls, d # e, call'[d].kid = call'[e].kid,
                      Own(call'[d].kid), call'[d].state = "done", call'[e].state = "done"
               PROVE  call'[d].rep # call'[e].rep
    BY <1>4 DEF AnswersDiffer, children, outliving, Own, Lives, RunsOn
  <2>1. CASE d # c /\ e # c
    BY <1>4, <2>1 DEF GateInv, AnswersDiffer
  <2>2. CASE d = c
    BY <1>3, <1>4, <2>2
  <2>3. CASE e = c
    BY <1>3, <1>4, <2>3
  <2> QED
    BY <2>1, <2>2, <2>3
<1> QED
  BY <1>5, <1>6, <1>7, <1>8, <1>9, <1>10 DEF GateInv

\* An answer that holds no handle, a refusal, a failure.
LEMMA FinishKeeps ==
    ASSUME GateInv, NEW c \in inFlight, NEW state \in {"answered", "severed"}, Finish(c, state), grants' = grants,
           UNCHANGED <<svcRun, runs, open, queue, intakeWaker, ownerRung, children, outliving>>
    PROVE  GateInv'
<1>1. c \in Calls /\ call \in Seq(GateCalls)
  BY DEF GateInv, IntakeIsSound, GateTyped
<1>2. call[c] \in GateCalls /\ call[c].kid \in Kids
  BY <1>1, CallTyped
<1>3. PICK r : r = [call[c] EXCEPT !.state = state]
  OBVIOUS
<1>4. /\ r \in GateCalls /\ r.kid = call[c].kid /\ r.grant = call[c].grant /\ r.op = call[c].op
      /\ r.state = state /\ call' = [call EXCEPT ![c] = r]
  BY <1>2, <1>3 DEF GateCalls, CallStates, Finish
<1>5. TablesKeep /\ grants' \in Seq(Grants)
  BY TablesKept DEF children, outliving, Own, Lives, RunsOn, GateInv, GateTyped
<1> QED
  BY <1>2, <1>4, <1>5, PolledKeeps DEF Finish

LEMMA AnswersKeep ==
    ASSUME GateInv, NEW c \in Calls,
           FactoryGives(c) \/ FactoryRefuses(c) \/ CallMakesHandle(c) \/ CallAnswers(c)
    PROVE  GateInv'
<1> PICK k, g : k = call[c].kid /\ g = call[c].grant
  OBVIOUS
<1>1. c \in inFlight /\ UNCHANGED <<svcRun, runs, open, queue, intakeWaker, ownerRung, children, outliving>>
  BY DEF FactoryGives, FactoryRefuses, CallMakesHandle, CallAnswers, Polled
<1>2. /\ call[c] \in GateCalls /\ k \in Kids /\ g \in Nat /\ CallIsSound(c) /\ g = grantOf[k]
      /\ grants \in Seq(Grants) /\ grantOf' = grantOf
  BY <1>1, CallTyped DEF GateCalls, CallIsSound, GateInv, GateTyped, children, outliving, Own, Lives, RunsOn
<1>3. Handler(k) \in OwnerHandles \ {NoHandle} /\ Socket(k) \in OwnerHandles \ {NoHandle}
  BY <1>2, HandleKinds
<1>4. CASE FactoryGives(c)
  <2>1. PICK r : r = [call[c] EXCEPT !.state = "calling", !.on = Handler(k)]
    OBVIOUS
  <2>2. /\ r \in GateCalls /\ r.kid = k /\ r.grant = g /\ r.op = call[c].op /\ r.state = "calling"
        /\ call' = [call EXCEPT ![c] = r]
    BY <1>2, <1>3, <1>4, <2>1 DEF GateCalls, CallStates, FactoryGives
  <2>3. CASE HasGrant(g)
    <3>1. OnlyEntry(g, 0, Handler(k))
      <4>1. grants' = [grants EXCEPT ![g].table[1] = Handler(k)]
        BY <1>4, <2>3 DEF FactoryGives
      <4>2. OnlyEntry(g, 1 - 1, Handler(k))
        BY <1>2, <1>3, <2>3, <4>1, GrantShape, ReplaceFacts
      <4> QED
        BY <4>2
    <3>2. TablesKeep /\ grants' \in Seq(Grants)
      <4>1. \E h \in OwnerHandles \ {NoHandle} : OnlyEntry(g, 0, h)
        BY <1>3, <3>1
      <4>2. TablesKeep
        BY <1>2, <4>1, TablesKept
      <4> QED
        BY <3>1, <4>2 DEF OnlyEntry
    <3>3. Entry(g, 0)' = Handler(k)
      BY <1>2, <3>1 DEF OnlyEntry
    <3>4. HasHandler(k)'
      BY <1>2, <1>3, <3>3 DEF HasHandler
    <3> QED
      BY <1>1, <1>2, <1>4, <2>2, <3>2, <3>4, PolledKeeps DEF FactoryGives
  <2>4. CASE ~HasGrant(g)
    <3>1. ~Own(k) /\ grants' = grants
      BY <1>2, <1>4, <2>4 DEF GateInv, KidsAreGranted, Granted, FactoryGives
    <3>2. TablesKeep
      BY <1>2, <3>1, TablesKept
    <3>3. grants' \in Seq(Grants) /\ inFlight' = inFlight /\ live' = live
      BY <1>2, <1>4, <3>1 DEF FactoryGives
    <3> QED
      BY <1>1, <1>2, <2>2, <3>1, <3>2, <3>3, PolledKeeps
  <2> QED
    BY <2>3, <2>4
<1>5. CASE FactoryRefuses(c) \/ CallAnswers(c)
  BY <1>1, <1>5, FinishKeeps DEF FactoryRefuses, CallAnswers
<1>6. CASE CallMakesHandle(c)
  <2>1. CASE ~(HasGrant(g) /\ (call[c].op = "root" => call[c].on.what = "handler"))
    BY <1>1, <1>6, <2>1, FinishKeeps DEF CallMakesHandle
  <2>2. CASE HasGrant(g) /\ (call[c].op = "root" => call[c].on.what = "handler")
    <3>1. /\ call[c].state = "calling" /\ TableEnter(g, Socket(k))
          /\ call' = [call EXCEPT ![c].state = "done", ![c].rep = EnterAt(g) - 1]
          /\ inFlight' = inFlight \ {c} /\ live' = live \ {c}
      BY <1>6, <2>2 DEF CallMakesHandle
    <3>2. PICK rep, x : rep = EnterAt(g) - 1 /\ x = g
      OBVIOUS
    <3>3. rep \in Nat /\ x \in Nat /\ Entry(x, rep) = NoHandle /\ OnlyEntry(x, rep, Socket(k))
      BY <1>2, <1>3, <2>2, <3>1, <3>2, EnterFacts
    <3>4. PICK r : r = [call[c] EXCEPT !.state = "done", !.rep = rep]
      OBVIOUS
    <3>5. /\ r \in GateCalls /\ r.kid = k /\ r.grant = g /\ r.op = call[c].op /\ r.state = "done" /\ r.rep = rep
          /\ call' = [call EXCEPT ![c] = r]
      BY <1>2, <3>1, <3>2, <3>3, <3>4 DEF GateCalls, CallStates
    <3>6. TablesKeep /\ grants' \in Seq(Grants)
      BY <1>2, <1>3, <3>3, TablesKept DEF OnlyEntry
    <3>7. ASSUME Own(k)
          PROVE  /\ HasHandler(k)' /\ OwnSocket(k, rep)' /\ rep \notin holds[k]
                 /\ \A d \in Calls : call[d].kid = k /\ call[d].state = "done" => call[d].rep # rep
      <4>1. HasHandler(k) /\ HasHandler(k)'
        BY <1>2, <3>1, <3>6, <3>7 DEF CallIsSound, TablesKeep
      <4>2. rep # 0
        BY <1>2, <3>2, <3>3, <4>1 DEF HasHandler
      <4>3. ~OwnSocket(k, rep)
        BY <1>2, <1>3, <3>2, <3>3 DEF OwnSocket
      <4>4. Entry(x, rep)' = Socket(k)
        BY <3>3 DEF OnlyEntry
      <4>5. OwnSocket(k, rep)'
        <5>1. OwnSocket(k, rep)' <=> rep # 0 /\ Entry(x, rep)' = Socket(k)
          BY <1>1, <1>2, <3>2 DEF OwnSocket, Entry, HasGrant, children, outliving, Own, Lives, RunsOn
        <5> QED
          BY <4>2, <4>4, <5>1
      <4>6. rep \notin holds[k]
        BY <1>2, <3>7, <4>3 DEF GateInv, HoldsTheirOwn
      <4>7. ASSUME NEW d \in Calls, call[d].kid = k, call[d].state = "done" PROVE call[d].rep # rep
        BY <3>7, <4>3, <4>7, CallTyped DEF CallIsSound
      <4> QED
        BY <4>1, <4>5, <4>6, <4>7
    <3>8. Own(k) =>
            /\ r.state \in {"calling", "done"} => HasHandler(k)'
            /\ r.state = "done" => OwnSocket(k, r.rep)' /\ r.rep \notin holds[k]
            /\ r.state = "done" => \A d \in Calls : call[d].kid = k /\ call[d].state = "done" => call[d].rep # r.rep
      BY <3>5, <3>7
    <3>9. r.state \in {"done", "answered", "severed"} /\ inFlight' = inFlight \ {c} /\ live' = live \ {c}
      BY <3>1, <3>5
    <3> QED
      BY <1>1, <1>2, <3>5, <3>6, <3>8, <3>9, PolledKeeps
  <2> QED
    BY <2>1, <2>2
<1> QED
  BY <1>4, <1>5, <1>6

\* A drained call is under way on a handle that is there, or refused.
LEMMA StartedFacts ==
    ASSUME GateInv, NEW c \in queue
    PROVE  /\ Started(c) \in GateCalls /\ Started(c).kid = call[c].kid /\ Started(c).grant = call[c].grant
           /\ Started(c).op = call[c].op /\ Started(c).state \in {"getting", "calling", "severed"}
           /\ Own(call[c].kid) /\ Started(c).state = "calling" => HasHandler(call[c].kid)
<1>1. c \in Calls /\ grants \in Seq(Grants)
  BY DEF GateInv, IntakeIsSound, GateTyped
<1>2. /\ call[c] \in GateCalls /\ call[c].rep \in Nat /\ call[c].op \in {"root", "use"}
      /\ CallIsSound(c) /\ call[c].grant = grantOf[call[c].kid]
  BY <1>1, CallTyped DEF GateCalls, CallIsSound
<1> DEFINE handler == Entry(call[c].grant, 0)
           socket == Entry(call[c].grant, call[c].rep)
<1>3. handler \in OwnerHandles /\ socket \in OwnerHandles
  BY <1>1, <1>2, EntryTyped
<1>4. Started(c) = IF call[c].op = "root"
                   THEN IF handler = NoHandle THEN [call[c] EXCEPT !.state = "getting"]
                        ELSE [call[c] EXCEPT !.state = "calling", !.on = handler]
                   ELSE IF socket = NoHandle THEN [call[c] EXCEPT !.state = "severed"]
                        ELSE [call[c] EXCEPT !.state = "calling", !.on = socket]
  BY DEF Started
<1>5. handler # NoHandle => HasHandler(call[c].kid)
  BY <1>2 DEF HasHandler
<1> HIDE DEF handler, socket
<1>6. /\ Started(c) \in GateCalls /\ Started(c).kid = call[c].kid /\ Started(c).grant = call[c].grant
      /\ Started(c).op = call[c].op /\ Started(c).state \in {"getting", "calling", "severed"}
      /\ Started(c).state = "calling" => call[c].op = "use" \/ handler # NoHandle
  BY <1>2, <1>3, <1>4 DEF GateCalls, CallStates
<1> QED
  BY <1>2, <1>5, <1>6 DEF CallIsSound

LEMMA DrainKeeps ==
    ASSUME GateInv, IntakeDrains
    PROVE  GateInv'
<1> DEFINE refused == {c \in queue : Started(c).state = "severed"}
<1>1. /\ call' = [c \in 1 .. Len(call) |-> IF c \in queue THEN Started(c) ELSE call[c]]
      /\ inFlight' = inFlight \cup (queue \ refused) /\ live' = live \ refused
      /\ queue' = {} /\ intakeWaker' = TRUE /\ ownerRung' = FALSE
      /\ UNCHANGED <<svcRun, runs, open, grants, children, outliving>>
  BY DEF IntakeDrains, Calls
<1>2. /\ call \in Seq(GateCalls) /\ Len(call) \in Nat /\ queue \subseteq Calls /\ queue \cap inFlight = {}
      /\ live = queue \cup inFlight /\ inFlight \subseteq Calls
  <2>1. call \in Seq(GateCalls) /\ Len(call) \in Nat
    BY DEF GateInv, GateTyped
  <2>2. queue \cap inFlight = {}
    BY DEF GateInv, IntakeIsSound
  <2>3. live = queue \cup inFlight /\ live \subseteq Calls
    BY DEF GateInv, IntakeIsSound
  <2> QED
    BY <2>1, <2>2, <2>3
<1>3. /\ \A c \in queue : call'[c] = Started(c)
      /\ \A c \in Calls \ queue : call'[c] = call[c]
  BY <1>1, <1>2 DEF Calls
<1>4. \A c \in Calls : call'[c] \in GateCalls
  BY <1>3, StartedFacts, CallTyped
<1>5. call' \in Seq(GateCalls) /\ Len(call') = Len(call)
  <2>1. call' \in [1 .. Len(call) -> GateCalls]
    BY <1>1, <1>4 DEF Calls
  <2> QED
    BY <1>2, <2>1
<1>6. Calls' = Calls
  BY <1>5 DEF Calls
<1>7. GateTyped'
  BY <1>1, <1>5 DEF GateInv, GateTyped, children, outliving, Own, Lives, RunsOn
<1>8. \A x : HasGrant(x)' = HasGrant(x) /\ TaskOf(x)' = TaskOf(x) /\ \A r : Entry(x, r)' = Entry(x, r)
  BY <1>1, SameTables
<1>9. \A k : HasHandler(k)' = HasHandler(k) /\ \A r : OwnSocket(k, r)' = OwnSocket(k, r)
  BY <1>1 DEF HasHandler, OwnSocket, children, outliving, Own, Lives, RunsOn, Entry, HasGrant
<1>10. IntakeIsSound'
  <2>1. live' = inFlight' /\ live' \subseteq Calls
    BY <1>1, <1>2
  <2>2. ASSUME NEW c \in inFlight' PROVE call'[c].state \in {"getting", "calling"}
    <3>1. CASE c \in inFlight
      BY <1>2, <1>3, <3>1 DEF GateInv, IntakeIsSound
    <3>2. CASE c \in queue \ refused
      BY <1>3, <3>2, StartedFacts
    <3> QED
      BY <1>1, <3>1, <3>2
  <2>3. open
    BY DEF IntakeDrains, GateInv, GateTyped
  <2> QED
    BY <1>1, <1>6, <2>1, <2>2, <2>3 DEF IntakeIsSound
<1>11. KidsAreGranted' /\ HoldsTheirOwn'
  <2>1. KidsAreGranted /\ HoldsTheirOwn
    BY DEF GateInv
  <2>2. KidsAreGranted'
    BY <1>1, <2>1 DEF KidsAreGranted, Granted, children, outliving, Own, Lives, RunsOn, HasGrant, TaskOf
  <2>3. HoldsTheirOwn'
    BY <1>1, <1>9, <2>1 DEF HoldsTheirOwn, children, outliving, Own, Lives, RunsOn
  <2> QED
    BY <2>2, <2>3
<1>12. CallsAreSound'
  <2> SUFFICES ASSUME NEW c \in Calls PROVE CallIsSound(c)'
    BY <1>6 DEF CallsAreSound
  <2>1. CallIsSound(c) /\ call[c] \in GateCalls /\ call[c].kid \in Kids
    BY CallTyped
  <2> PICK k : k = call[c].kid
    OBVIOUS
  <2>2. CASE c \in queue
    <3>1. /\ call'[c].kid = k /\ call'[c].grant = call[c].grant /\ call'[c].op = call[c].op
          /\ call'[c].state \in {"getting", "calling", "severed"}
          /\ call'[c].state # "severed" => c \in inFlight'
          /\ Own(k) /\ call'[c].state = "calling" => HasHandler(k)
      BY <1>1, <1>3, <2>2, StartedFacts
    <3> QED
      BY <1>1, <1>9, <2>1, <3>1 DEF CallIsSound, children, outliving, Own, Lives, RunsOn
  <2>3. CASE c \notin queue
    <3>1. call'[c] = call[c] /\ (c \in inFlight => c \in inFlight')
      BY <1>1, <1>3, <2>3
    <3> QED
      BY <1>1, <1>9, <2>1, <2>3, <3>1 DEF CallIsSound, children, outliving, Own, Lives, RunsOn
  <2> QED
    BY <2>2, <2>3
<1>13. AnswersDiffer'
  <2> SUFFICES ASSUME NEW d \in Calls, NEW e \in Calls, d # e, call'[d].kid = call'[e].kid,
                      Own(call'[d].kid), call'[d].state = "done", call'[e].state = "done"
               PROVE  call'[d].rep # call'[e].rep
    BY <1>1, <1>6 DEF AnswersDiffer, children, outliving, Own, Lives, RunsOn
  <2>1. d \notin queue /\ e \notin queue
    BY <1>3, StartedFacts
  <2> QED
    BY <1>3, <2>1 DEF GateInv, AnswersDiffer
<1> QED
  BY <1>7, <1>10, <1>11, <1>12, <1>13 DEF GateInv

----------------------------------------------------------------------------
(* The children.                                                           *)

\* Two live children have different grants.
LEMMA GrantsDiffer ==
    ASSUME GateInv, NEW j \in Kids, NEW k \in Kids, Own(j), Own(k), j # k
    PROVE  grantOf[j] # grantOf[k]
BY DEF GateInv, KidsAreGranted, Granted

LEMMA SpawnKeeps ==
    ASSUME GateInv, NEW k \in Kids, SpawnKid(k)
    PROVE  GateInv'
<1>1. /\ kid[k] = "unborn" /\ open /\ kid' = [kid EXCEPT ![k] = "alive"] /\ bornIn' = [bornIn EXCEPT ![k] = runs]
      /\ UNCHANGED <<svcRun, runs, open, queue, live, intakeWaker, ownerRung, inFlight, call, holds, outlived, disturbed>>
      /\ Calls' = Calls
  BY DEF SpawnKid, Calls, outliving
<1> PICK m : m = MintAt
  OBVIOUS
<1>2. /\ grantOf' = [grantOf EXCEPT ![k] = m]
      /\ grants' \in Seq(Grants) /\ m \in Nat /\ HasGrant(m)' /\ TaskOf(m)' = k
      /\ \A x : HasGrant(x) => HasGrant(x)' /\ TaskOf(x)' = TaskOf(x) /\ \A r \in Nat : Entry(x, r)' = Entry(x, r)
  <2>1. grants \in Seq(Grants)
    BY DEF GateInv, GateTyped
  <2>2. grants' = IF m > Len(grants) THEN Append(grants, [task |-> k, table |-> <<NoHandle>>])
                  ELSE [grants EXCEPT ![m] = [task |-> k, table |-> <<NoHandle>>]]
    BY DEF SpawnKid
  <2>3. grantOf' = [grantOf EXCEPT ![k] = m]
    BY DEF SpawnKid
  <2> QED
    BY <2>1, <2>2, <2>3, MintFacts
<1>3. /\ kid \in [Kids -> KidStates] /\ grantOf \in [Kids -> Nat]
      /\ bornIn = [j \in Kids |-> bornIn[j]]
  BY DEF GateInv, GateTyped
<1>4. GateTyped' /\ IntakeIsSound'
  <2>1. GateTyped'
    BY <1>1, <1>2, <1>3 DEF GateInv, GateTyped, KidStates
  <2>2. IntakeIsSound'
    BY <1>1 DEF GateInv, IntakeIsSound
  <2> QED
    BY <2>1, <2>2
<1>5. ASSUME NEW j \in Kids, j # k
      PROVE  /\ kid'[j] = kid[j] /\ grantOf'[j] = grantOf[j] /\ bornIn'[j] = bornIn[j]
             /\ (Own(j)' <=> Own(j)) /\ (RunsOn(j)' <=> RunsOn(j))
             /\ Own(j) => /\ HasGrant(grantOf[j])' /\ TaskOf(grantOf[j])' = j
                                    /\ HasHandler(j)' = HasHandler(j)
                                    /\ \A r \in Nat : OwnSocket(j, r)' = OwnSocket(j, r)
  <2> PICK x : x = grantOf[j]
    OBVIOUS
  <2>1. kid'[j] = kid[j] /\ grantOf'[j] = x /\ bornIn'[j] = bornIn[j]
    BY <1>1, <1>2, <1>3, <1>5
  <2>2. ASSUME Own(j)
        PROVE  /\ HasGrant(x)' /\ TaskOf(x)' = j /\ \A r \in Nat : Entry(x, r)' = Entry(x, r)
    BY <1>2, <2>2 DEF GateInv, KidsAreGranted, Granted
  <2>3. (Own(j)' <=> Own(j)) /\ (RunsOn(j)' <=> RunsOn(j))
    BY <1>1, <2>1 DEF Own, Lives, RunsOn
  <2> QED
    BY <2>1, <2>2, <2>3 DEF HasHandler, OwnSocket
<1>6. kid'[k] = "alive" /\ grantOf'[k] = m /\ bornIn'[k] = runs /\ holds[k] = {}
  BY <1>1, <1>2, <1>3 DEF GateInv, KidsAreGranted, Granted
<1>7. KidsAreGranted'
  <2> SUFFICES ASSUME NEW j \in Kids
               PROVE  /\ kid'[j] = "unborn" => holds[j] = {}
                      /\ Own(j)' => /\ open /\ bornIn'[j] = runs /\ HasGrant(grantOf[j])'
                                   /\ TaskOf(grantOf[j])' = j
    BY <1>1 DEF GateInv, KidsAreGranted, Granted
  <2>1. CASE j = k
    BY <1>1, <1>2, <1>6, <2>1
  <2>2. CASE j # k
    BY <1>5, <2>2 DEF GateInv, KidsAreGranted, Granted
  <2> QED
    BY <2>1, <2>2
<1>8. HoldsTheirOwn'
  <2> SUFFICES ASSUME NEW j \in Kids, Own(j)', NEW rep \in holds[j] PROVE OwnSocket(j, rep)' /\ HasHandler(j)'
    BY <1>1 DEF HoldsTheirOwn
  <2>1. j # k /\ rep \in Nat
    BY <1>6 DEF GateInv, GateTyped
  <2> QED
    BY <1>5, <2>1 DEF GateInv, HoldsTheirOwn
<1>9. \A c \in Calls : call[c].kid \in Kids /\ call[c].kid # k
  BY <1>1, CallTyped DEF CallIsSound
<1>10. CallsAreSound'
  <2> SUFFICES ASSUME NEW c \in Calls PROVE CallIsSound(c)'
    BY <1>1 DEF CallsAreSound
  <2>1. CallIsSound(c) /\ call[c] \in GateCalls /\ call[c].rep \in Nat
    BY CallTyped DEF GateCalls
  <2> PICK j : j = call[c].kid
    OBVIOUS
  <2>2. /\ j \in Kids /\ kid'[j] = kid[j] /\ grantOf'[j] = grantOf[j]
        /\ (Own(j)' <=> Own(j)) /\ (RunsOn(j)' <=> RunsOn(j))
        /\ Own(j) => /\ HasHandler(j)' = HasHandler(j)
                     /\ \A r \in Nat : OwnSocket(j, r)' = OwnSocket(j, r)
    BY <1>5, <1>9
  <2> QED
    BY <1>1, <2>1, <2>2 DEF CallIsSound
<1>11. AnswersDiffer'
  <2> SUFFICES ASSUME NEW j \in Kids, NEW c \in Calls, NEW d \in Calls, c # d, call[c].kid = j, call[d].kid = j,
                      Own(j)', call[c].state = "done", call[d].state = "done"
               PROVE  call[c].rep # call[d].rep
    BY <1>1, <1>9 DEF AnswersDiffer, Own, Lives, RunsOn
  <2> QED
    BY <1>5, <1>9 DEF GateInv, AnswersDiffer
<1> QED
  BY <1>4, <1>7, <1>8, <1>10, <1>11 DEF GateInv

\* gate_call: the new call is queued, and the intake has been rung.
LEMMA SubmitKeeps ==
    ASSUME GateInv, NEW k \in Kids, NEW op \in {"root", "use"}, NEW rep \in Nat,
           op = "use" => rep \in holds[k], Submit(k, op, rep)
    PROVE  GateInv'
<1> PICK n, r : n = Len(call) + 1 /\ r = [kid |-> k, grant |-> grantOf[k], op |-> op, rep |-> rep,
                                          state |-> "enqueued", on |-> NoHandle]
  OBVIOUS
<1>1. /\ RunsOn(k) /\ open /\ call' = Append(call, r)
      /\ queue' = queue \cup {n} /\ live' = live \cup {n} /\ ownerRung' = (ownerRung \/ intakeWaker) /\ intakeWaker' = FALSE
      /\ UNCHANGED <<svcRun, runs, open, grants, inFlight, children, outliving>>
  BY DEF Submit, Rings
<1>2. /\ call \in Seq(GateCalls) /\ Len(call) \in Nat /\ grantOf \in [Kids -> Nat]
      /\ intakeWaker \in BOOLEAN /\ ownerRung \in BOOLEAN
  BY DEF GateInv, GateTyped
<1>3. /\ r \in GateCalls /\ r.kid = k /\ r.grant = grantOf[k] /\ r.op = op /\ r.rep = rep /\ r.state = "enqueued"
  BY <1>2, HandleKinds DEF GateCalls, CallStates
<1>4. /\ call' \in Seq(GateCalls) /\ Len(call') = n /\ call'[n] = r /\ n \in Nat
      /\ \A c \in 1 .. Len(call) : c # n /\ call'[c] = call[c]
  BY <1>1, <1>2, <1>3
<1>5. Calls' = Calls \cup {n} /\ n \notin Calls /\ \A c \in Calls : call'[c] = call[c]
  BY <1>2, <1>4 DEF Calls
<1>6. ownerRung' \in BOOLEAN /\ ownerRung' /\ intakeWaker' \in BOOLEAN
  BY <1>1, <1>2 DEF GateInv, IntakeIsSound
<1>7. GateTyped'
  BY <1>1, <1>4, <1>6 DEF GateInv, GateTyped, children, outliving, Own, Lives, RunsOn
<1>8. IntakeIsSound'
  <2>1. IntakeIsSound /\ queue \subseteq Calls /\ inFlight \subseteq Calls
    BY DEF GateInv, IntakeIsSound
  <2> QED
    BY <1>1, <1>3, <1>4, <1>5, <1>6, <2>1 DEF IntakeIsSound
<1>9. \A j : HasHandler(j)' = HasHandler(j) /\ \A x : OwnSocket(j, x)' = OwnSocket(j, x)
  BY <1>1 DEF HasHandler, OwnSocket, children, outliving, Own, Lives, RunsOn, Entry, HasGrant
<1>10. KidsAreGranted'
  BY <1>1 DEF GateInv, KidsAreGranted, Granted, children, outliving, Own, Lives, RunsOn, HasGrant, TaskOf
<1>11. HoldsTheirOwn'
  BY <1>1, <1>9 DEF GateInv, HoldsTheirOwn, children, outliving, Own, Lives, RunsOn
<1>12. CallsAreSound'
  <2> SUFFICES ASSUME NEW c \in Calls \cup {n} PROVE CallIsSound(c)'
    BY <1>5 DEF CallsAreSound
  <2>1. CASE c = n
    <3>1. Own(k) /\ op = "use" => HasHandler(k)
      BY DEF GateInv, HoldsTheirOwn
    <3> QED
      BY <1>1, <1>3, <1>4, <1>9, <2>1, <3>1 DEF CallIsSound, children, outliving, Own, Lives, RunsOn
  <2>2. CASE c \in Calls
    <3>1. CallIsSound(c) /\ call'[c] = call[c]
      BY <1>5, <2>2, CallTyped
    <3> QED
      BY <1>1, <1>9, <3>1 DEF CallIsSound, children, outliving, Own, Lives, RunsOn
  <2> QED
    BY <2>1, <2>2
<1>13. AnswersDiffer'
  <2> SUFFICES ASSUME NEW d \in Calls', NEW e \in Calls', d # e, call'[d].kid = call'[e].kid,
                      Own(call'[d].kid), call'[d].state = "done", call'[e].state = "done"
               PROVE  call'[d].rep # call'[e].rep
    BY <1>1 DEF AnswersDiffer, children, outliving, Own, Lives, RunsOn
  <2>1. d \in Calls /\ e \in Calls
    BY <1>3, <1>4, <1>5
  <2> QED
    BY <1>5, <2>1 DEF GateInv, AnswersDiffer
<1> QED
  BY <1>7, <1>8, <1>10, <1>11, <1>12, <1>13 DEF GateInv

\* The child takes an answer: a handle it carries becomes the child's.
LEMMA TakeKeeps ==
    ASSUME GateInv, NEW c \in Calls, TakeAnswer(c)
    PROVE  GateInv'
<1> PICK k, r, gain : /\ k = call[c].kid /\ r = [call[c] EXCEPT !.state = "taken"]
                      /\ gain = IF call[c].state = "done" THEN {call[c].rep} ELSE {}
  OBVIOUS
<1>1. call[c] \in GateCalls /\ k \in Kids /\ CallIsSound(c) /\ call[c].rep \in Nat
  BY CallTyped DEF GateCalls
<1>2. /\ RunsOn(k) /\ call[c].state \in {"done", "answered", "severed"}
      /\ call' = [call EXCEPT ![c] = r]
      /\ UNCHANGED <<svcRun, runs, share, kid, grantOf, bornIn, outlived, disturbed>>
  BY <1>1 DEF TakeAnswer, outliving
<1>3. r \in GateCalls /\ r.kid = k /\ r.grant = call[c].grant /\ r.op = call[c].op /\ r.state = "taken"
  BY <1>1 DEF GateCalls, CallStates
<1>4. call \in Seq(GateCalls) /\ c \in 1 .. Len(call) /\ holds \in [Kids -> SUBSET Nat]
  BY DEF GateInv, GateTyped, Calls
<1>5. /\ holds' \in [Kids -> SUBSET Nat] /\ holds'[k] = holds[k] \cup gain
      /\ \A j \in Kids : j # k => holds'[j] = holds[j]
  BY <1>1, <1>4 DEF TakeAnswer
<1>6. /\ call' \in Seq(GateCalls) /\ Len(call') = Len(call) /\ call'[c] = r
      /\ \A d \in 1 .. Len(call) : d # c => call'[d] = call[d]
  BY <1>2, <1>3, <1>4
<1>7. Calls' = Calls /\ \A d \in Calls : d # c => call'[d] = call[d]
  BY <1>6 DEF Calls
<1>8. GateTyped'
  BY <1>2, <1>5, <1>6 DEF GateInv, GateTyped, share
<1>9. IntakeIsSound'
  <2>1. IntakeIsSound /\ c \notin queue /\ c \notin inFlight
    BY <1>2 DEF GateInv, IntakeIsSound
  <2> QED
    BY <1>2, <1>7, <2>1 DEF IntakeIsSound, share
<1>10. \A j : HasHandler(j)' = HasHandler(j) /\ \A x : OwnSocket(j, x)' = OwnSocket(j, x)
  BY <1>2 DEF HasHandler, OwnSocket, share, Entry, HasGrant
<1>11. KidsAreGranted'
  <2> SUFFICES ASSUME NEW j \in Kids
               PROVE  /\ kid[j] = "unborn" => holds'[j] = {}
                      /\ Own(j) => open /\ bornIn[j] = runs /\ HasGrant(grantOf[j])' /\ TaskOf(grantOf[j])' = j
    BY <1>2 DEF GateInv, KidsAreGranted, Granted, share, Own, Lives, RunsOn
  <2>1. KidsAreGranted
    BY DEF GateInv
  <2> QED
    BY <1>2, <1>5, <2>1 DEF KidsAreGranted, Granted, share, HasGrant, TaskOf, RunsOn, Lives
<1>12. HoldsTheirOwn'
  <2> SUFFICES ASSUME NEW j \in Kids, Own(j), NEW rep \in holds'[j] PROVE OwnSocket(j, rep)' /\ HasHandler(j)'
    BY <1>2 DEF HoldsTheirOwn, Own, Lives, RunsOn
  <2>1. CASE rep \in holds[j]
    BY <1>10, <2>1 DEF GateInv, HoldsTheirOwn
  <2>2. CASE rep \notin holds[j]
    <3>1. j = k /\ call[c].state = "done" /\ rep = call[c].rep
      BY <1>5, <2>2
    <3> QED
      BY <1>1, <1>2, <1>10, <3>1 DEF CallIsSound
  <2> QED
    BY <2>1, <2>2
<1>13. CallsAreSound'
  <2> SUFFICES ASSUME NEW d \in Calls PROVE CallIsSound(d)'
    BY <1>7 DEF CallsAreSound
  <2>1. CallIsSound(d) /\ call[d].kid \in Kids
    BY CallTyped
  <2>2. CASE d = c
    BY <1>1, <1>2, <1>3, <1>6, <1>10, <2>2 DEF CallIsSound, share, Own, Lives, RunsOn
  <2>3. CASE d # c
    <3> PICK j : j = call[d].kid
      OBVIOUS
    <3>1. call'[d] = call[d]
      BY <1>7, <2>3
    <3>2. Own(j) /\ call[d].state = "done" => call[d].rep \notin holds'[j]
      <4>1. CASE j # k
        BY <1>5, <2>1, <4>1 DEF CallIsSound
      <4>2. CASE j = k
        <5>1. Own(j) /\ call[d].state = "done" => call[d].rep \notin holds[j]
          BY <2>1 DEF CallIsSound
        <5>2. Own(j) /\ call[d].state = "done" => call[d].rep \notin gain
          BY <1>2, <2>3, <4>2 DEF GateInv, AnswersDiffer
        <5> QED
          BY <1>5, <4>2, <5>1, <5>2
      <4> QED
        BY <4>1, <4>2
    <3> QED
      BY <1>2, <1>10, <2>1, <3>1, <3>2 DEF CallIsSound, share, Own, Lives, RunsOn
  <2> QED
    BY <2>2, <2>3
<1>14. AnswersDiffer'
  <2> SUFFICES ASSUME NEW d \in Calls, NEW e \in Calls, d # e, call'[d].kid = call'[e].kid,
                      Own(call'[d].kid), call'[d].state = "done", call'[e].state = "done"
               PROVE  call'[d].rep # call'[e].rep
    BY <1>2, <1>7 DEF AnswersDiffer, Own, Lives, RunsOn
  <2>1. d # c /\ e # c
    BY <1>3, <1>6
  <2> QED
    BY <1>7, <2>1 DEF GateInv, AnswersDiffer
<1> QED
  BY <1>8, <1>9, <1>11, <1>12, <1>13, <1>14 DEF GateInv

\* What k takes from its table it takes from the children that go by the same
\* index, and there are none while no child has outlived its run.
LEMMA TakenFrom ==
    ASSUME GateInv, NEW k \in Kids, RunsOn(k), disturbed' = disturbed \cup SameIndex(k), outlived' = outlived,
           \A j \in Kids : j # k => kid'[j] = kid[j]
    PROVE  /\ \A j \in Kids : j # k /\ Own(j)' => Own(j) /\ grantOf[j] # grantOf[k]
           /\ outlived' = {} => disturbed' = {}
<1>1. ASSUME outlived = {}, NEW j \in Kids, j # k, RunsOn(j) PROVE grantOf[j] # grantOf[k]
  BY <1>1, GrantsDiffer DEF Own
<1>2. ASSUME outlived' = {} PROVE disturbed' = {}
  <2>1. SameIndex(k) = {}
    BY <1>1, <1>2 DEF SameIndex, RunsOn
  <2>2. disturbed = {}
    BY <1>2 DEF GateInv, KidsAreGranted
  <2> QED
    BY <2>1, <2>2
<1>3. ASSUME NEW j \in Kids, j # k, Own(j)' PROVE Own(j) /\ grantOf[j] # grantOf[k]
  <2>1. Own(j) /\ (RunsOn(j)' <=> RunsOn(j)) /\ (Lives(j)' <=> Lives(j))
    BY <1>3 DEF Own, RunsOn, Lives
  <2>2. CASE Lives(j) /\ j \notin disturbed'
    BY <1>3, <2>1, <2>2 DEF SameIndex
  <2>3. CASE RunsOn(j) /\ outlived = {}
    BY <1>1, <1>3, <2>1, <2>3
  <2> QED
    BY <1>3, <2>1, <2>2, <2>3 DEF Own
<1> QED
  BY <1>2, <1>3

\* The tables of the other grants, as they were.
LEMMA OthersKeep ==
    ASSUME GateInv, NEW k \in Kids, grantOf' = grantOf,
           \A x : HasGrant(x) /\ x # grantOf[k] =>
               HasGrant(x)' /\ TaskOf(x)' = TaskOf(x) /\ \A r \in Nat : Entry(x, r)' = Entry(x, r)
    PROVE  \A j \in Kids : Own(j) /\ grantOf[j] # grantOf[k] =>
               /\ HasGrant(grantOf[j])' /\ TaskOf(grantOf[j])' = j /\ HasHandler(j)' = HasHandler(j)
               /\ \A r \in Nat : OwnSocket(j, r)' = OwnSocket(j, r)
<1> SUFFICES ASSUME NEW j \in Kids, Own(j), grantOf[j] # grantOf[k]
             PROVE  /\ HasGrant(grantOf[j])' /\ TaskOf(grantOf[j])' = j /\ HasHandler(j)' = HasHandler(j)
                    /\ \A r \in Nat : OwnSocket(j, r)' = OwnSocket(j, r)
  OBVIOUS
<1> PICK x : x = grantOf[j]
  OBVIOUS
<1>1. HasGrant(x) /\ TaskOf(x) = j
  BY DEF GateInv, KidsAreGranted, Granted
<1>2. HasGrant(x)' /\ TaskOf(x)' = j /\ \A r \in Nat : Entry(x, r)' = Entry(x, r)
  BY <1>1
<1>3. grantOf'[j] = x
  OBVIOUS
<1> QED
  BY <1>2, <1>3 DEF HasHandler, OwnSocket

\* drop_child_handle empties the entry of a rep that no answer on its way to the
\* owner of the grant carries.
LEMMA DropKeeps ==
    ASSUME GateInv, NEW k \in Kids, NEW rep \in holds[k], DropKidHandle(k, rep)
    PROVE  GateInv'
<1> PICK g : g = grantOf[k]
  OBVIOUS
<1>1. /\ RunsOn(k) /\ holds' = [holds EXCEPT ![k] = @ \ {rep}]
      /\ UNCHANGED <<svcRun, runs, open, queue, live, intakeWaker, ownerRung, inFlight, call, kid, grantOf, bornIn>>
      /\ outlived' = outlived /\ Calls' = Calls
  BY DEF DropKidHandle, Calls
<1>2. /\ grants \in Seq(Grants) /\ holds \in [Kids -> SUBSET Nat] /\ rep \in Nat /\ kid[k] # "unborn"
  BY <1>1 DEF GateInv, GateTyped, RunsOn, Lives
<1>3. /\ grants' \in Seq(Grants) /\ (outlived' = {} => disturbed' = {})
      /\ \A j \in Kids : Own(j)' =>
           /\ Own(j) /\ HasGrant(grantOf[j])' /\ TaskOf(grantOf[j])' = j /\ HasHandler(j)' = HasHandler(j)
           /\ \A r \in Nat : j # k \/ r # rep => OwnSocket(j, r)' = OwnSocket(j, r)
  <2>1. CASE grants' = grants /\ disturbed' = disturbed
    <3> SUFFICES ASSUME NEW j \in Kids, Own(j)'
                 PROVE  /\ Own(j) /\ HasGrant(grantOf[j])' /\ TaskOf(grantOf[j])' = j
                        /\ HasHandler(j)' = HasHandler(j)
                        /\ \A r \in Nat : OwnSocket(j, r)' = OwnSocket(j, r)
      BY <1>1, <1>2, <2>1 DEF GateInv, KidsAreGranted
    <3>1. Own(j)
      BY <1>1, <2>1 DEF Own, Lives, RunsOn
    <3> QED
      BY <1>1, <2>1, <3>1 DEF GateInv, KidsAreGranted, Granted, HasGrant, TaskOf, HasHandler, OwnSocket, Entry
  <2>2. CASE /\ rep # 0 /\ Entry(g, rep) # NoHandle
             /\ grants' = [grants EXCEPT ![g].table[rep + 1] = NoHandle]
             /\ disturbed' = disturbed \cup SameIndex(k)
    <3> PICK i : i = rep + 1
      OBVIOUS
    <3>1. HasGrant(g) /\ i \in DOMAIN grants[g].table /\ grants' = [grants EXCEPT ![g].table[i] = NoHandle]
      BY <2>2 DEF Entry
    <3>2. OnlyEntry(g, rep, NoHandle)
      <4>1. OnlyEntry(g, i - 1, NoHandle)
        BY <1>2, <3>1, HandleKinds, ReplaceFacts
      <4> QED
        BY <1>2, <4>1
    <3>3. /\ grants' \in Seq(Grants) /\ g \in Nat
          /\ \A x \in Nat, r \in Nat : x # g \/ r # rep => Entry(x, r)' = Entry(x, r)
          /\ \A x : HasGrant(x) => x \in Nat /\ HasGrant(x)' /\ TaskOf(x)' = TaskOf(x)
      BY <1>2, <3>1, <3>2, GrantShape DEF OnlyEntry
    <3>4. /\ \A j \in Kids : j # k /\ Own(j)' => Own(j) /\ grantOf[j] # g
          /\ outlived' = {} => disturbed' = {}
      BY <1>1, <2>2, TakenFrom
    <3>5. \A j \in Kids : Own(j) /\ grantOf[j] # g =>
               /\ HasGrant(grantOf[j])' /\ TaskOf(grantOf[j])' = j /\ HasHandler(j)' = HasHandler(j)
               /\ \A r \in Nat : OwnSocket(j, r)' = OwnSocket(j, r)
      BY <1>1, <3>3, OthersKeep
    <3>6. ASSUME Own(k)'
          PROVE  /\ Own(k) /\ HasGrant(grantOf[k])' /\ TaskOf(grantOf[k])' = k /\ HasHandler(k)' = HasHandler(k)
                 /\ \A r \in Nat : r # rep => OwnSocket(k, r)' = OwnSocket(k, r)
      <4>1. Own(k)
        BY <1>1, <2>2, <3>6 DEF Own, Lives, RunsOn
      <4>2. HasGrant(g) /\ TaskOf(g) = k
        BY <4>1 DEF GateInv, KidsAreGranted, Granted
      <4>3. grantOf'[k] = g
        BY <1>1
      <4>4. Entry(g, 0)' = Entry(g, 0) /\ \A r \in Nat : r # rep => Entry(g, r)' = Entry(g, r)
        BY <2>2, <3>3
      <4>5. HasGrant(g)' /\ TaskOf(g)' = k
        BY <3>3, <4>2
      <4> QED
        BY <4>1, <4>3, <4>4, <4>5 DEF HasHandler, OwnSocket
    <3> QED
      BY <3>3, <3>4, <3>5, <3>6
  <2> QED
    BY <2>1, <2>2 DEF DropKidHandle
<1>4. /\ holds' \in [Kids -> SUBSET Nat] /\ holds'[k] = holds[k] \ {rep}
      /\ \A j \in Kids : j # k => holds'[j] = holds[j]
  BY <1>1, <1>2
<1>5. GateTyped' /\ IntakeIsSound'
  <2>1. GateTyped'
    BY <1>1, <1>3, <1>4 DEF GateInv, GateTyped
  <2>2. IntakeIsSound'
    BY <1>1 DEF GateInv, IntakeIsSound
  <2> QED
    BY <2>1, <2>2
<1>6. KidsAreGranted'
  <2> SUFFICES ASSUME NEW j \in Kids
               PROVE  /\ kid[j] = "unborn" => holds'[j] = {}
                      /\ Own(j)' => open /\ bornIn[j] = runs /\ HasGrant(grantOf[j])' /\ TaskOf(grantOf[j])' = j
    BY <1>1, <1>3 DEF KidsAreGranted, Granted
  <2>1. KidsAreGranted
    BY DEF GateInv
  <2> QED
    BY <1>2, <1>3, <1>4, <2>1 DEF KidsAreGranted, Granted
<1>7. HoldsTheirOwn'
  <2> SUFFICES ASSUME NEW j \in Kids, Own(j)', NEW r \in holds'[j] PROVE OwnSocket(j, r)' /\ HasHandler(j)'
    BY DEF HoldsTheirOwn
  <2>1. r \in holds[j] /\ r \in Nat /\ (j = k => r # rep)
    BY <1>2, <1>4
  <2>2. OwnSocket(j, r) /\ HasHandler(j)
    BY <1>3, <2>1 DEF GateInv, HoldsTheirOwn
  <2> QED
    BY <1>3, <2>1, <2>2
<1>8. CallsAreSound'
  <2> SUFFICES ASSUME NEW d \in Calls PROVE CallIsSound(d)'
    BY <1>1 DEF CallsAreSound
  <2> PICK j, r : j = call[d].kid /\ r = call[d].rep
    OBVIOUS
  <2>1. CallIsSound(d) /\ j \in Kids /\ r \in Nat
    BY CallTyped DEF GateCalls
  <2>2. ASSUME Own(j)'
        PROVE  /\ Own(j) /\ HasHandler(j)' = HasHandler(j)
               /\ call[d].state = "done" => OwnSocket(j, r)' /\ r \notin holds'[j]
    <3>1. Own(j) /\ HasHandler(j)' = HasHandler(j)
      BY <1>3, <2>1, <2>2
    <3>2. ASSUME call[d].state = "done" PROVE OwnSocket(j, r)' /\ r \notin holds'[j]
      <4>1. OwnSocket(j, r) /\ r \notin holds[j]
        BY <2>1, <3>1, <3>2 DEF CallIsSound
      <4>2. j = k => r # rep
        BY <4>1
      <4>3. OwnSocket(j, r)'
        BY <1>3, <2>1, <2>2, <4>1, <4>2
      <4> QED
        BY <1>4, <2>1, <4>1, <4>3
    <3> QED
      BY <3>1, <3>2
  <2>3. RunsOn(j)' <=> RunsOn(j)
    BY <1>1 DEF RunsOn, Lives
  <2> QED
    BY <1>1, <2>1, <2>2, <2>3 DEF CallIsSound
<1>9. AnswersDiffer'
  <2> SUFFICES ASSUME NEW j \in Kids, NEW c \in Calls, NEW d \in Calls, c # d, call[c].kid = j, call[d].kid = j,
                      Own(j)', call[c].state = "done", call[d].state = "done"
               PROVE  call[c].rep # call[d].rep
    BY <1>1, CallTyped DEF AnswersDiffer, Own, Lives, RunsOn
  <2> QED
    BY <1>3 DEF GateInv, AnswersDiffer
<1> QED
  BY <1>5, <1>6, <1>7, <1>8, <1>9 DEF GateInv

\* A child checked out or in, or marked while it is out: nothing else changes.
LEMMA MarksKeep ==
    ASSUME GateInv, NEW k \in Kids, CheckedOut(k) \/ KilledMidPoll(k)
    PROVE  GateInv'
<1>1. /\ UNCHANGED <<svcRun, runs, call, open, queue, live, intakeWaker, ownerRung, grants, inFlight>>
      /\ UNCHANGED <<grantOf, holds, bornIn, outlived, disturbed>>
  BY DEF CheckedOut, KilledMidPoll, share, outliving
<1>2. /\ kid' \in [Kids -> KidStates] /\ \A j \in Kids : kid'[j] = "unborn" <=> kid[j] = "unborn"
      /\ \A j \in Kids : (Own(j)' => Own(j)) /\ (RunsOn(j)' => RunsOn(j))
  <2>1. kid \in [Kids -> KidStates]
    BY DEF GateInv, GateTyped
  <2>2. /\ kid[k] \in {"alive", "out"} /\ kid'[k] \in {"alive", "out", "ending"} /\ kid' \in [Kids -> KidStates]
        /\ \A j \in Kids : j # k => kid'[j] = kid[j]
    BY <2>1 DEF CheckedOut, KilledMidPoll, KidStates
  <2> QED
    BY <1>1, <2>2 DEF Own, Lives, RunsOn
<1>3. Calls' = Calls /\ GateTyped' /\ IntakeIsSound'
  BY <1>1, <1>2 DEF GateInv, GateTyped, IntakeIsSound, Calls
<1>4. KidsAreGranted' /\ HoldsTheirOwn'
  BY <1>1, <1>2 DEF GateInv, KidsAreGranted, Granted, HoldsTheirOwn, HasGrant, TaskOf, HasHandler, OwnSocket, Entry
<1>5. \A j : HasHandler(j)' = HasHandler(j) /\ \A r : OwnSocket(j, r)' = OwnSocket(j, r)
  BY <1>1 DEF HasHandler, OwnSocket, Entry, HasGrant
<1>6. CallsAreSound'
  <2> SUFFICES ASSUME NEW d \in Calls PROVE CallIsSound(d)'
    BY <1>3 DEF CallsAreSound
  <2> PICK j : j = call[d].kid
    OBVIOUS
  <2>1. CallIsSound(d) /\ j \in Kids
    BY CallTyped
  <2> QED
    BY <1>1, <1>2, <1>5, <2>1 DEF CallIsSound
<1>7. AnswersDiffer'
  <2> SUFFICES ASSUME NEW j \in Kids, NEW c \in Calls, NEW d \in Calls, c # d, call[c].kid = j, call[d].kid = j,
                      Own(j)', call[c].state = "done", call[d].state = "done"
               PROVE  call[c].rep # call[d].rep
    BY <1>1, <1>3, CallTyped DEF AnswersDiffer, Own, Lives, RunsOn
  <2> QED
    BY <1>2 DEF GateInv, AnswersDiffer
<1> QED
  BY <1>3, <1>4, <1>6, <1>7 DEF GateInv

\* A child that ends takes back what is queued; what was started runs on for
\* nobody.  It lets go of whatever is at its index.
LEMMA KidEndsKeeps ==
    ASSUME GateInv, NEW k \in Kids, KidEnds(k)
    PROVE  GateInv'
<1> PICK g, W : g = grantOf[k] /\ W = Withdrawn(k)
  OBVIOUS
<1>1. /\ RunsOn(k) /\ kid' = [kid EXCEPT ![k] = "dead"] /\ queue' = queue \ W /\ live' = live \ W
      /\ UNCHANGED <<svcRun, runs, open, intakeWaker, ownerRung, inFlight, call, grantOf, holds, bornIn>>
      /\ outlived' = outlived /\ Calls' = Calls
  BY DEF KidEnds, Calls, RunsOn, Lives
<1>2. grants \in Seq(Grants) /\ kid \in [Kids -> KidStates]
  BY DEF GateInv, GateTyped
<1>3. /\ kid' \in [Kids -> KidStates] /\ kid'[k] = "dead" /\ \A j \in Kids : j # k => kid'[j] = kid[j]
      /\ ~Own(k)' /\ ~RunsOn(k)'
  BY <1>1, <1>2 DEF KidStates, Own, RunsOn, Lives
<1>4. /\ grants' \in Seq(Grants) /\ (outlived' = {} => disturbed' = {})
      /\ \A j \in Kids : Own(j)' =>
           /\ Own(j) /\ j # k /\ HasGrant(grantOf[j])' /\ TaskOf(grantOf[j])' = j
           /\ HasHandler(j)' = HasHandler(j) /\ \A r \in Nat : OwnSocket(j, r)' = OwnSocket(j, r)
  <2>1. CASE grants' = [grants EXCEPT ![g] = NoGrant] /\ g \in DOMAIN grants /\ disturbed' = disturbed \cup SameIndex(k)
    <3>1. /\ grants' \in Seq(Grants)
          /\ \A x : HasGrant(x) /\ x # g =>
               HasGrant(x)' /\ TaskOf(x)' = TaskOf(x) /\ \A r \in Nat : Entry(x, r)' = Entry(x, r)
      BY <1>2, <2>1, ForgetFacts
    <3>2. /\ \A j \in Kids : j # k /\ Own(j)' => Own(j) /\ grantOf[j] # g
          /\ outlived' = {} => disturbed' = {}
      BY <1>1, <1>3, <2>1, TakenFrom
    <3>3. \A j \in Kids : Own(j) /\ grantOf[j] # g =>
               /\ HasGrant(grantOf[j])' /\ TaskOf(grantOf[j])' = j /\ HasHandler(j)' = HasHandler(j)
               /\ \A r \in Nat : OwnSocket(j, r)' = OwnSocket(j, r)
      BY <1>1, <3>1, OthersKeep
    <3> QED
      BY <1>3, <3>1, <3>2, <3>3
  <2>2. CASE grants' = grants /\ disturbed' = disturbed
    <3> SUFFICES ASSUME NEW j \in Kids, Own(j)'
                 PROVE  /\ Own(j) /\ j # k /\ HasGrant(grantOf[j])' /\ TaskOf(grantOf[j])' = j
                        /\ HasHandler(j)' = HasHandler(j) /\ \A r \in Nat : OwnSocket(j, r)' = OwnSocket(j, r)
      BY <1>1, <1>2, <2>2 DEF GateInv, KidsAreGranted
    <3>1. Own(j) /\ j # k
      BY <1>1, <1>3, <2>2 DEF Own, Lives, RunsOn
    <3> QED
      BY <1>1, <2>2, <3>1 DEF GateInv, KidsAreGranted, Granted, HasGrant, TaskOf, HasHandler, OwnSocket, Entry
  <2> QED
    BY <2>1, <2>2 DEF KidEnds
<1>5. \A c \in W : call[c].kid = k /\ call[c].state = "enqueued"
  BY DEF Withdrawn
<1>6. GateTyped' /\ IntakeIsSound'
  <2>1. GateTyped'
    BY <1>1, <1>3, <1>4 DEF GateInv, GateTyped
  <2>2. IntakeIsSound /\ W \cap inFlight = {}
    BY <1>5 DEF GateInv, IntakeIsSound
  <2>3. IntakeIsSound'
    BY <1>1, <2>2 DEF IntakeIsSound
  <2> QED
    BY <2>1, <2>3
<1>7. KidsAreGranted' /\ HoldsTheirOwn'
  <2>1. KidsAreGranted /\ HoldsTheirOwn
    BY DEF GateInv
  <2>2. KidsAreGranted'
    <3> SUFFICES ASSUME NEW j \in Kids
                 PROVE  /\ kid'[j] = "unborn" => holds[j] = {}
                        /\ Own(j)' => open /\ bornIn[j] = runs /\ HasGrant(grantOf[j])' /\ TaskOf(grantOf[j])' = j
      BY <1>1, <1>4 DEF KidsAreGranted, Granted
    <3> QED
      BY <1>3, <1>4, <2>1 DEF KidsAreGranted, Granted
  <2>3. HoldsTheirOwn'
    <3> SUFFICES ASSUME NEW j \in Kids, Own(j)', NEW r \in holds[j] PROVE OwnSocket(j, r)' /\ HasHandler(j)'
      BY <1>1 DEF HoldsTheirOwn
    <3>1. Own(j) /\ r \in Nat
      BY <1>4 DEF GateInv, GateTyped
    <3> QED
      BY <1>4, <2>1, <3>1 DEF HoldsTheirOwn
  <2> QED
    BY <2>2, <2>3
<1>8. CallsAreSound'
  <2> SUFFICES ASSUME NEW d \in Calls PROVE CallIsSound(d)'
    BY <1>1 DEF CallsAreSound
  <2> PICK j, r : j = call[d].kid /\ r = call[d].rep
    OBVIOUS
  <2>1. CallIsSound(d) /\ j \in Kids /\ r \in Nat
    BY CallTyped DEF GateCalls
  <2>2. CASE j = k
    BY <1>1, <1>3, <2>1, <2>2 DEF CallIsSound
  <2>3. CASE j # k
    <3>1. d \notin W /\ kid'[j] = kid[j] /\ (RunsOn(j)' <=> RunsOn(j))
      BY <1>3, <1>5, <2>1, <2>3 DEF RunsOn, Lives
    <3>2. Own(j)' => Own(j) /\ HasHandler(j)' = HasHandler(j) /\ OwnSocket(j, r)' = OwnSocket(j, r)
      BY <1>4, <2>1
    <3> QED
      BY <1>1, <2>1, <3>1, <3>2 DEF CallIsSound
  <2> QED
    BY <2>2, <2>3
<1>9. AnswersDiffer'
  <2> SUFFICES ASSUME NEW j \in Kids, NEW c \in Calls, NEW d \in Calls, c # d, call[c].kid = j, call[d].kid = j,
                      Own(j)', call[c].state = "done", call[d].state = "done"
               PROVE  call[c].rep # call[d].rep
    BY <1>1, CallTyped DEF AnswersDiffer, Own, Lives, RunsOn
  <2> QED
    BY <1>4 DEF GateInv, AnswersDiffer
<1> QED
  BY <1>6, <1>7, <1>8, <1>9 DEF GateInv

----------------------------------------------------------------------------
(* The call gate's theorems.                                               *)

LEMMA GateStuttering == ASSUME GateInv, UNCHANGED gateVars PROVE GateInv'
<1>1. UNCHANGED <<svcRun, runs, call, kid, grantOf, holds, bornIn, outlived, disturbed, open, queue, live, intakeWaker,
                ownerRung, grants, inFlight>>
  BY DEF gateVars, share, children, outliving
<1>2. GateTyped' /\ Calls' = Calls
  BY <1>1 DEF GateInv, GateTyped, Calls
<1>3. IntakeIsSound' /\ AnswersDiffer'
  BY <1>1, <1>2 DEF GateInv, IntakeIsSound, AnswersDiffer, Own, Lives, RunsOn
<1>4. KidsAreGranted' /\ HoldsTheirOwn'
  BY <1>1 DEF GateInv, KidsAreGranted, Granted, HoldsTheirOwn, HasGrant, TaskOf, HasHandler, OwnSocket, Entry,
              Own, Lives, RunsOn
<1>5. CallsAreSound'
  BY <1>1, <1>2 DEF GateInv, CallsAreSound, CallIsSound, HasHandler, OwnSocket, Entry, HasGrant, Own, Lives, RunsOn
<1> QED
  BY <1>2, <1>3, <1>4, <1>5 DEF GateInv

LEMMA GateStep == ASSUME GateInv, [GateNext]_gateVars PROVE GateInv'
<1>1. CASE ConsoleCall \/ OwnerTraps \/ RestartIsDue
  BY <1>1, OwnerKeeps
<1>2. CASE Intake
  BY <1>2, DrainKeeps, AnswersKeep DEF Intake
<1>3. ASSUME NEW k \in Kids, SpawnKid(k) \/ KidCall(k) \/ CheckedOut(k) \/ KilledMidPoll(k) \/ KidEnds(k)
      PROVE  GateInv'
  <2>1. holds[k] \in SUBSET Nat
    BY DEF GateInv, GateTyped
  <2>2. CASE KidCall(k)
    BY <2>1, <2>2, SubmitKeeps, DropKeeps DEF KidCall
  <2> QED
    BY <1>3, <2>2, SpawnKeeps, MarksKeep, KidEndsKeeps
<1>4. ASSUME NEW c \in Calls, TakeAnswer(c) PROVE GateInv'
  BY <1>4, TakeKeeps
<1> QED
  BY <1>1, <1>2, <1>3, <1>4, GateStuttering DEF GateNext

\* The inductive invariant of the call gate, for every number of children, calls
\* and runs of the owner.
THEOREM GateInvariant == GateSpec => []GateInv
<1> QED
  BY InitGateInv, GateStep, PTL DEF GateSpec

\* A call that waits for its answer, of a child that has not ended, is queued at
\* an open share whose owner has been rung, or held by the intake of the running
\* owner: the sever, the drain and the withdrawal of gate.rs leave none out, also
\* none of a killed child whose poll has not returned.
THEOREM NothingLeftBehind == GateSpec => []NoCallLeftBehind
<1>1. GateInv => NoCallLeftBehind
  <2> SUFFICES ASSUME GateInv PROVE NoCallLeftBehind
    OBVIOUS
  <2>1. ASSUME NEW c \in Calls, RunsOn(call[c].kid), call[c].state \in Unanswered
        PROVE  open /\ c \in (IF call[c].state = "enqueued" THEN queue ELSE inFlight)
    <3>1. CallIsSound(c)
      BY CallTyped
    <3>2. c \in (IF call[c].state = "enqueued" THEN queue ELSE inFlight)
      BY <2>1, <3>1 DEF CallIsSound, Unanswered
    <3> QED
      BY <3>2 DEF GateInv, IntakeIsSound, GateTyped
  <2> QED
    BY <2>1 DEF NoCallLeftBehind, GateInv, IntakeIsSound
<1> QED
  BY <1>1, GateInvariant, PTL

\* For any children, calls and runs: a gated child that nobody has taken from
\* lives no longer than the run of the owner its grant was minted in, and a rep
\* it holds names a socket made for it, whatever answers, drops and releases of
\* dead children and of children cut off in the middle of a poll come late; and
\* nobody is taken from before a child has outlived a run of the owner.
THEOREM GrantsStayTheirOwn == GateSpec => []GrantsAreTheirOwn
<1>1. GateInv => GrantsAreTheirOwn
  <2> SUFFICES ASSUME GateInv PROVE GrantsAreTheirOwn
    OBVIOUS
  <2>1. \A k \in Kids \ disturbed : Lives(k) => Own(k)
    BY DEF Own
  <2> QED
    BY <2>1 DEF GateInv, KidsAreGranted, Granted, HoldsTheirOwn, OwnSocket, GrantsAreTheirOwn
<1> QED
  BY <1>1, GateInvariant, PTL

----------------------------------------------------------------------------
(***************************************************************************)
(* KTasks. A store is entered once: the stack is at most a session pass    *)
(* and the pass of one compile, and what it has checked out is told from   *)
(* what the registry says in three ways, none of which is inductive alone. *)
(***************************************************************************)

SlotOrNone == KSlots \cup {NoTask}
Frames ==
    [kind : {"poll"}, who : Guests, slot : SlotOrNone, go : BOOLEAN]
    \cup [kind : {"pass"}, next : Nat, top : BOOLEAN, hot : BOOLEAN]
    \cup [kind : {"pump"}, saved : SlotOrNone]

TasksTyped ==
    /\ slot \in [KSlots -> {"none", "running", "polling", "done"}]
    /\ prog \in [KSlots -> Guests] /\ curParent \in SlotOrNone
    /\ guest \in [Guests -> {"unborn", "busy", "wait", "read", "sleep", "gone"}]
    /\ killed \subseteq Guests /\ stack \in Seq(Frames)

\* A child's poll runs in a pass, the root's at the bottom; a pass is the
\* session's, at the bottom, or a compile's, above the poll that compiles.
FrameFits(n) ==
    LET bottom == n = Len(stack) IN
    /\ stack[n].kind = "poll" =>
         IF stack[n].who = 0 THEN bottom ELSE ~bottom /\ stack[n + 1].kind = "pass"
    /\ stack[n].kind = "pass" => bottom \/ stack[n + 1].kind = "pump"
    /\ stack[n].kind = "pump" => ~bottom /\ stack[n + 1].kind = "poll" /\ n > 1 /\ stack[n - 1].kind = "pass"
Frame == 1 .. Len(stack)
StackFits == \A n \in Frame : FrameFits(n)

\* What a registered program is: its own, born and not killed.
LiveAreTheirOwn ==
    /\ \A i \in KSlots : Live(i) => prog[i] \in Programs /\ guest[prog[i]] # "unborn" /\ prog[i] \notin killed
    /\ \A i, j \in KSlots : i # j /\ Live(i) /\ Live(j) => prog[i] # prog[j]
    /\ guest[0] # "unborn" /\ \A p \in killed : guest[p] # "unborn"

\* What is on the stack: once, born, not waiting in the registry.
PolledOnce ==
    /\ \A n \in Polls : guest[stack[n].who] # "unborn"
    /\ \A m, n \in Polls : m # n => stack[m].who # stack[n].who
    /\ \A n \in Polls : \A i \in KSlots : slot[i] = "running" => prog[i] # stack[n].who
    /\ \A n \in Polls : stack[n].who # 0 => stack[n].slot \in KSlots

\* A slot marked Polling is lent to its program's poll; a poll above none that
\* lends the same slot is that one.
Lends(n, i) == n \in Polls /\ stack[n].slot = i /\ stack[n].who = prog[i]
LentOnce ==
    /\ \A i \in KSlots : slot[i] = "polling" => \E n \in Polls : Lends(n, i)
    /\ \A n \in Polls : stack[n].who # 0 /\ slot[stack[n].slot] = "polling" =>
           \E m \in Polls : m <= n /\ Lends(m, stack[n].slot)

TasksInv == TasksTyped /\ StackFits /\ LiveAreTheirOwn /\ PolledOnce /\ LentOnce

----------------------------------------------------------------------------
(* Frames.                                                                 *)

LEMMA RootIsAGuest == 0 \in Guests /\ Programs \subseteq Guests /\ 0 \notin Programs
BY KTasksAssumption DEF Guests, Programs

\* Frames that differ in nothing but the flags of a pass or a poll.
Like(f, g) == f.kind = g.kind /\ (f.kind = "poll" => f.who = g.who /\ f.slot = g.slot)

LEMMA FrameKinds ==
    ASSUME NEW f \in Frames
    PROVE  /\ f.kind \in {"poll", "pass", "pump"}
           /\ f.kind = "poll" => f.who \in Guests /\ f.slot \in SlotOrNone /\ f.go \in BOOLEAN
                                 /\ [f EXCEPT !.go = FALSE] \in Frames /\ Like([f EXCEPT !.go = FALSE], f)
           /\ f.kind = "pump" => f.saved \in SlotOrNone
<1>1. CASE f \in [kind : {"poll"}, who : Guests, slot : SlotOrNone, go : BOOLEAN]
  <2>1. /\ [f EXCEPT !.go = FALSE] \in [kind : {"poll"}, who : Guests, slot : SlotOrNone, go : BOOLEAN]
        /\ Like([f EXCEPT !.go = FALSE], f)
    BY <1>1 DEF Like
  <2> QED
    BY <1>1, <2>1 DEF Frames
<1>2. CASE f \in [kind : {"pass"}, next : Nat, top : BOOLEAN, hot : BOOLEAN]
  BY <1>2
<1>3. CASE f \in [kind : {"pump"}, saved : SlotOrNone]
  BY <1>3
<1> QED
  BY <1>1, <1>2, <1>3 DEF Frames

\* A pass with another place to go on from, or another temperature.
LEMMA PassFrames ==
    ASSUME NEW f \in Frames, f.kind = "pass", NEW n \in Nat, NEW b \in BOOLEAN
    PROVE  /\ f.next \in Nat /\ f.hot \in BOOLEAN
           /\ [f EXCEPT !.next = n] \in Frames /\ Like([f EXCEPT !.next = n], f)
           /\ [f EXCEPT !.next = n].next = n /\ [f EXCEPT !.next = n].top = f.top
           /\ [f EXCEPT !.hot = b] \in Frames /\ Like([f EXCEPT !.hot = b], f)
           /\ [f EXCEPT !.hot = b].next = f.next /\ [f EXCEPT !.hot = b].top = f.top
<1>1. f \in [kind : {"pass"}, next : Nat, top : BOOLEAN, hot : BOOLEAN]
  BY DEF Frames
<1>2. /\ [f EXCEPT !.next = n] \in [kind : {"pass"}, next : Nat, top : BOOLEAN, hot : BOOLEAN]
      /\ [f EXCEPT !.hot = b] \in [kind : {"pass"}, next : Nat, top : BOOLEAN, hot : BOOLEAN]
      /\ Like([f EXCEPT !.next = n], f) /\ Like([f EXCEPT !.hot = b], f)
      /\ [f EXCEPT !.next = n].next = n /\ [f EXCEPT !.next = n].top = f.top
      /\ [f EXCEPT !.hot = b].next = f.next /\ [f EXCEPT !.hot = b].top = f.top
  BY <1>1 DEF Like
<1> QED
  BY <1>1, <1>2 DEF Frames

\* The frames on the stack, and the one on top.
LEMMA StackFacts ==
    ASSUME TasksInv
    PROVE  /\ stack \in Seq(Frames) /\ Len(stack) \in Nat
           /\ \A n \in 1 .. Len(stack) : stack[n] \in Frames /\ FrameFits(n)
           /\ stack # <<>> => Top = stack[1] /\ 1 \in 1 .. Len(stack)
<1>1. stack \in Seq(Frames)
  BY DEF TasksInv, TasksTyped
<1> QED
  BY <1>1 DEF TasksInv, StackFits, Frame, Top

\* The new top over the rest.
LEMMA Retopped ==
    ASSUME NEW s \in Seq(Frames), s # <<>>, NEW f \in Frames
    PROVE  /\ <<f>> \o Tail(s) \in Seq(Frames) /\ Len(<<f>> \o Tail(s)) = Len(s)
           /\ (<<f>> \o Tail(s))[1] = f
           /\ \A n \in 2 .. Len(s) : (<<f>> \o Tail(s))[n] = s[n]
<1>1. /\ Tail(s) \in Seq(Frames) /\ Len(Tail(s)) = Len(s) - 1 /\ Len(s) \in Nat \ {0}
      /\ \A n \in 1 .. Len(s) - 1 : Tail(s)[n] = s[n + 1]
  OBVIOUS
<1>2. <<f>> \in Seq(Frames) /\ Len(<<f>>) = 1 /\ <<f>>[1] = f
  OBVIOUS
<1>3. /\ <<f>> \o Tail(s) \in Seq(Frames) /\ Len(<<f>> \o Tail(s)) = Len(s)
      /\ \A n \in 1 .. Len(s) : (<<f>> \o Tail(s))[n] = IF n <= 1 THEN <<f>>[n] ELSE Tail(s)[n - 1]
  BY <1>1, <1>2
<1> HIDE DEF Frames
<1> QED
  BY <1>1, <1>2, <1>3

\* Frames pushed on top.
LEMMA Pushed ==
    ASSUME NEW s \in Seq(Frames), NEW t \in Seq(Frames)
    PROVE  /\ t \o s \in Seq(Frames) /\ Len(t \o s) = Len(t) + Len(s)
           /\ \A n \in 1 .. Len(t) : (t \o s)[n] = t[n]
           /\ \A n \in 1 .. Len(s) : (t \o s)[n + Len(t)] = s[n]
OBVIOUS

\* Frames popped off.
LEMMA Popped ==
    ASSUME NEW s \in Seq(Frames), NEW k \in 1 .. Len(s)
    PROVE  /\ SubSeq(s, k + 1, Len(s)) \in Seq(Frames) /\ Len(SubSeq(s, k + 1, Len(s))) = Len(s) - k
           /\ \A n \in 1 .. Len(s) - k : SubSeq(s, k + 1, Len(s))[n] = s[n + k]
<1>1. Len(s) \in Nat /\ k + 1 \in 1 .. Len(s) + 1 /\ \A n \in 1 .. Len(s) : s[n] \in Frames
  OBVIOUS
<1> QED
  BY <1>1

----------------------------------------------------------------------------
(* What leaves the stack as it is.                                         *)

\* The same polls, the same registry; nobody is born or unborn.
LEMMA SamePollsKeep ==
    ASSUME TasksInv, stack' \in Seq(Frames), Len(stack') = Len(stack),
           \A n \in 1 .. Len(stack) : Like(stack'[n], stack[n]),
           slot' = slot, prog' = prog, killed' = killed, curParent' \in SlotOrNone,
           guest' \in [Guests -> {"unborn", "busy", "wait", "read", "sleep", "gone"}],
           \A p \in Guests : guest[p] # "unborn" => guest'[p] # "unborn"
    PROVE  TasksInv'
<1>1. TasksTyped'
  BY DEF TasksInv, TasksTyped
<1>2. Len(stack) \in Nat /\ \A n \in 1 .. Len(stack) : stack[n] \in Frames /\ FrameFits(n)
  BY StackFacts
<1>3. StackFits'
  <2> SUFFICES ASSUME NEW n \in 1 .. Len(stack) PROVE FrameFits(n)'
    BY DEF StackFits, Frame
  <2>1. /\ FrameFits(n) /\ Like(stack'[n], stack[n])
        /\ n # Len(stack) => Like(stack'[n + 1], stack[n + 1])
        /\ n > 1 => Like(stack'[n - 1], stack[n - 1])
    BY <1>2
  <2> QED
    BY <2>1 DEF FrameFits, Like
<1>4. Polls' = Polls /\ \A n \in Polls : stack'[n].who = stack[n].who /\ stack'[n].slot = stack[n].slot /\ stack[n].who \in Guests
  BY <1>2, FrameKinds DEF Polls, Like
<1>5. LiveAreTheirOwn'
  <2>1. LiveAreTheirOwn /\ prog \in [KSlots -> Guests] /\ killed \subseteq Guests
    BY DEF TasksInv, TasksTyped
  <2> QED
    BY <2>1, RootIsAGuest DEF LiveAreTheirOwn, Live
<1>6. PolledOnce'
  BY <1>4 DEF TasksInv, PolledOnce
<1>7. LentOnce'
  BY <1>4 DEF TasksInv, LentOnce, Lends
<1> QED
  BY <1>1, <1>3, <1>5, <1>6, <1>7 DEF TasksInv

\* The stack as it is; slots end or empty; of the killed, none goes on.
LEMMA EndsKeep ==
    ASSUME TasksInv, stack' = stack, curParent' = curParent,
           slot' \in [KSlots -> {"none", "running", "polling", "done"}],
           prog' \in [KSlots -> Guests],
           \A i \in KSlots : Live(i)' => slot'[i] = slot[i] /\ prog'[i] = prog[i] /\ prog[i] \notin killed',
           killed' \subseteq Guests, \A p \in killed' : guest[p] # "unborn",
           guest' \in [Guests -> {"unborn", "busy", "wait", "read", "sleep", "gone"}],
           \A p \in Guests : guest[p] # "unborn" => guest'[p] # "unborn"
    PROVE  TasksInv'
<1>1. TasksTyped'
  BY DEF TasksInv, TasksTyped
<1>2. StackFits' /\ Polls' = Polls
  BY DEF TasksInv, StackFits, Frame, FrameFits, Polls
<1>3. \A n \in Polls : stack[n].who \in Guests
  BY StackFacts, FrameKinds DEF Polls
<1>4. \A i \in KSlots : Live(i)' => Live(i)
  BY DEF Live
<1>5. LiveAreTheirOwn'
  BY <1>4, RootIsAGuest DEF TasksInv, TasksTyped, LiveAreTheirOwn
<1>6. PolledOnce'
  <2>1. \A i \in KSlots : slot'[i] = "running" => slot[i] = "running" /\ prog'[i] = prog[i]
    BY DEF Live
  <2> QED
    BY <1>2, <1>3, <2>1 DEF TasksInv, PolledOnce
<1>7. LentOnce'
  <2>1. \A i \in KSlots : slot'[i] = "polling" => slot[i] = "polling" /\ prog'[i] = prog[i]
    BY DEF Live
  <2>2. LentOnce /\ PolledOnce
    BY DEF TasksInv
  <2>3. ASSUME NEW i \in KSlots, slot'[i] = "polling" PROVE \E n \in Polls : Lends(n, i)'
    BY <1>2, <2>1, <2>2, <2>3 DEF LentOnce, Lends
  <2>4. ASSUME NEW n \in Polls, stack[n].who # 0, slot'[stack[n].slot] = "polling"
        PROVE  \E m \in Polls : m <= n /\ Lends(m, stack[n].slot)'
    <3>1. stack[n].slot \in KSlots
      BY <2>2, <2>4 DEF PolledOnce
    <3> QED
      BY <1>2, <2>1, <2>2, <2>4, <3>1 DEF LentOnce, Lends
  <2> QED
    BY <1>2, <2>3, <2>4 DEF LentOnce, Lends
<1> QED
  BY <1>1, <1>2, <1>5, <1>6, <1>7 DEF TasksInv

----------------------------------------------------------------------------
(* Pops and pushes.                                                        *)

\* The position after one that is not the last.
LEMMA NextPosition ==
    ASSUME NEW l \in Int, NEW n \in 1 .. l, NEW k \in Nat
    PROVE  (n # l => n + 1 \in 1 .. l) /\ (n + 1) + k = (n + k) + 1
OBVIOUS

\* The top k frames go; no slot they were lent stays Polling.
LEMMA PopKeeps ==
    ASSUME TasksInv, NEW k \in Nat, k <= Len(stack), stack' \in Seq(Frames), Len(stack') = Len(stack) - k,
           \A n \in 1 .. Len(stack) - k : Like(stack'[n], stack[n + k]),
           k < Len(stack) => stack[k + 1].kind # "pump",
           slot' \in [KSlots -> {"none", "running", "polling", "done"}], prog' = prog, killed' = killed,
           \A i \in KSlots : slot'[i] = "polling" => slot[i] = "polling" /\ \A m \in 1 .. k : ~Lends(m, i),
           \A i \in KSlots : slot'[i] = "running" =>
               slot[i] = "running" \/ (slot[i] = "polling" /\ \E m \in 1 .. k : Lends(m, i)),
           guest' \in [Guests -> {"unborn", "busy", "wait", "read", "sleep", "gone"}], curParent' \in SlotOrNone,
           \A p \in Guests : guest[p] # "unborn" => guest'[p] # "unborn"
    PROVE  TasksInv'
<1>1. TasksTyped'
  BY DEF TasksInv, TasksTyped
<1>2. Len(stack) \in Nat /\ \A n \in 1 .. Len(stack) : stack[n] \in Frames /\ FrameFits(n)
  BY StackFacts
<1>3. StackFits'
  <2> SUFFICES ASSUME NEW n \in 1 .. Len(stack) - k PROVE FrameFits(n)'
    BY DEF StackFits, Frame
  <2>1. /\ n + k \in 1 .. Len(stack) /\ FrameFits(n + k) /\ Like(stack'[n], stack[n + k])
        /\ (n = Len(stack') <=> n + k = Len(stack))
    BY <1>2
  <2>2. n # Len(stack') => Like(stack'[n + 1], stack[(n + k) + 1])
    <3>1. n # Len(stack') => n + 1 \in 1 .. Len(stack) - k /\ (n + 1) + k = (n + k) + 1
      <4>1. PICK l : l = Len(stack) - k
        OBVIOUS
      <4>2. l \in Int /\ n \in 1 .. l
        BY <1>2, <4>1
      <4>3. (n # l => n + 1 \in 1 .. l) /\ (n + 1) + k = (n + k) + 1
        BY <4>2, NextPosition
      <4> QED
        BY <4>1, <4>3
    <3>2. n # Len(stack') => Like(stack'[n + 1], stack[(n + 1) + k])
      BY <3>1
    <3> QED
      BY <3>1, <3>2
  <2>3. n > 1 => Like(stack'[n - 1], stack[(n + k) - 1])
    <3>1. n > 1 => n - 1 \in 1 .. Len(stack) - k /\ (n - 1) + k = (n + k) - 1
      BY <1>2
    <3>2. n > 1 => Like(stack'[n - 1], stack[(n - 1) + k])
      BY <3>1
    <3> QED
      BY <3>1, <3>2
  <2>4. n = 1 => stack[n + k].kind # "pump"
    BY <1>2
  <2>5. n > 1 \/ n = 1
    BY <1>2
  <2> QED
    BY <2>1, <2>2, <2>3, <2>4, <2>5 DEF FrameFits, Like
<1>4. /\ \A n \in Polls' : n + k \in Polls /\ stack'[n].who = stack[n + k].who /\ stack'[n].slot = stack[n + k].slot
                           /\ stack[n + k].who \in Guests /\ n \in Nat
      /\ \A m \in Polls : m > k => m - k \in Polls' /\ (m - k) + k = m
      /\ \A m \in Polls : m \in Nat \ {0}
  <2>1. ASSUME NEW n \in Polls'
        PROVE  n + k \in Polls /\ stack'[n].who = stack[n + k].who /\ stack'[n].slot = stack[n + k].slot
               /\ stack[n + k].who \in Guests /\ n \in Nat
    <3>1. n \in 1 .. Len(stack) - k /\ stack'[n].kind = "poll" /\ n + k \in 1 .. Len(stack) /\ n \in Nat
      BY <1>2 DEF Polls
    <3>2. Like(stack'[n], stack[n + k])
      BY <3>1
    <3> QED
      BY <1>2, <3>1, <3>2, FrameKinds DEF Polls, Like
  <2>2. ASSUME NEW m \in Polls, m > k PROVE m - k \in Polls' /\ (m - k) + k = m
    <3>1. m - k \in 1 .. Len(stack) - k /\ (m - k) + k = m /\ stack[m].kind = "poll"
      BY <1>2, <2>2 DEF Polls
    <3>2. Like(stack'[m - k], stack[(m - k) + k])
      BY <3>1
    <3>3. stack'[m - k].kind = "poll"
      BY <3>1, <3>2 DEF Like
    <3> QED
      BY <3>1, <3>3 DEF Polls
  <2> QED
    BY <1>2, <2>1, <2>2 DEF Polls
<1>5. LiveAreTheirOwn'
  <2>1. \A i \in KSlots : Live(i)' => Live(i)
    BY DEF Live
  <2>2. LiveAreTheirOwn /\ prog \in [KSlots -> Guests] /\ killed \subseteq Guests
    BY DEF TasksInv, TasksTyped
  <2> QED
    BY <2>1, <2>2, RootIsAGuest DEF LiveAreTheirOwn
<1>6. PolledOnce'
  <2>1. PolledOnce
    BY DEF TasksInv
  <2>2. \A n \in Polls' : guest'[stack'[n].who] # "unborn" /\ (stack'[n].who # 0 => stack'[n].slot \in KSlots)
    BY <1>4, <2>1 DEF PolledOnce
  <2>3. ASSUME NEW m \in Polls', NEW n \in Polls', m # n PROVE stack'[m].who # stack'[n].who
    BY <1>4, <2>1, <2>3 DEF PolledOnce
  <2>4. ASSUME NEW n \in Polls', NEW i \in KSlots, slot'[i] = "running" PROVE prog[i] # stack'[n].who
    <3>1. CASE slot[i] = "running"
      BY <1>4, <2>1, <3>1 DEF PolledOnce
    <3>2. CASE \E m \in 1 .. k : Lends(m, i)
      <4>1. PICK m \in 1 .. k : Lends(m, i)
        BY <3>2
      <4>2. m # n + k /\ m \in Polls /\ prog[i] = stack[m].who
        BY <1>4, <4>1 DEF Lends, Polls
      <4> QED
        BY <1>4, <2>1, <4>2 DEF PolledOnce
    <3> QED
      BY <2>4, <3>1, <3>2
  <2> QED
    BY <2>2, <2>3, <2>4 DEF PolledOnce
<1>7. LentOnce'
  <2>1. LentOnce /\ PolledOnce
    BY DEF TasksInv
  <2>2. ASSUME NEW i \in KSlots, slot'[i] = "polling", NEW m, Lends(m, i)
        PROVE  m \in Polls /\ m > k /\ m - k \in Polls' /\ Lends(m - k, i)'
    <3>1. m \in Polls /\ m > k
      BY <1>4, <2>2 DEF Lends
    <3>2. PICK n : n = m - k
      OBVIOUS
    <3>3. n \in Polls' /\ n + k = m
      BY <1>4, <3>1, <3>2
    <3>4. Lends(n, i)'
      BY <1>4, <2>2, <3>3 DEF Lends
    <3> QED
      BY <3>1, <3>2, <3>3, <3>4
  <2>3. ASSUME NEW i \in KSlots, slot'[i] = "polling" PROVE \E n \in Polls' : Lends(n, i)'
    <3>1. PICK m \in Polls : Lends(m, i)
      BY <2>1, <2>3 DEF LentOnce
    <3> QED
      BY <2>2, <2>3, <3>1
  <2>4. ASSUME NEW n \in Polls', stack'[n].who # 0, slot'[stack'[n].slot] = "polling"
        PROVE  \E m \in Polls' : m <= n /\ Lends(m, stack[n].slot)'
    <3>1. PICK i : i = stack'[n].slot
      OBVIOUS
    <3>2. i \in KSlots /\ slot[i] = "polling" /\ slot'[i] = "polling" /\ n + k \in Polls /\ stack[n + k].who # 0 /\ stack[n + k].slot = i
      BY <1>4, <2>1, <2>4, <3>1 DEF PolledOnce
    <3>3. PICK m \in Polls : m <= n + k /\ Lends(m, i)
      BY <2>1, <3>2 DEF LentOnce
    <3>4. m - k \in Polls' /\ m - k <= n /\ Lends(m - k, i)'
      BY <1>4, <2>2, <3>2, <3>3
    <3> QED
      BY <3>1, <3>4
  <2> QED
    BY <2>3, <2>4 DEF LentOnce
<1> QED
  BY <1>1, <1>3, <1>5, <1>6, <1>7 DEF TasksInv

\* A compile's pass ends: the pass and its pump go, the poll that compiles is on top.
LEMMA EndPumpFacts ==
    ASSUME TasksInv, EndPump
    PROVE  /\ Len(stack) \in Nat /\ 2 < Len(stack) /\ stack[1].kind = "pass" /\ Top = stack[1]
           /\ stack[2].kind = "pump" /\ stack[2] \in Frames /\ stack[3].kind = "poll"
           /\ stack' \in Seq(Frames) /\ Len(stack') = Len(stack) - 2
           /\ \A n \in 1 .. Len(stack) - 2 : stack'[n] = stack[n + 2]
<1>1. /\ stack \in Seq(Frames) /\ Len(stack) \in Nat /\ stack # <<>> /\ Top = stack[1] /\ 1 \in 1 .. Len(stack)
      /\ \A n \in 1 .. Len(stack) : stack[n] \in Frames /\ FrameFits(n)
  BY StackFacts DEF EndPump, In
<1>2. stack[1].kind = "pass" /\ Len(stack) > 1 /\ stack' = SubSeq(stack, 3, Len(stack))
  BY <1>1 DEF EndPump, In
<1>3. stack[2].kind = "pump" /\ 2 \in 1 .. Len(stack)
  BY <1>1, <1>2 DEF FrameFits
<1>4. stack[2 + 1].kind = "poll" /\ 2 # Len(stack)
  <2>1. FrameFits(2)
    BY <1>1, <1>3
  <2> QED
    BY <1>3, <2>1 DEF FrameFits
<1>5. 2 < Len(stack)
  <2>1. PICK l : l = Len(stack)
    OBVIOUS
  <2>2. l \in Nat /\ l > 1 /\ l # 2
    BY <1>1, <1>2, <1>4, <2>1
  <2>3. 2 < l
    BY <2>2
  <2> QED
    BY <2>1, <2>3
<1>6. /\ SubSeq(stack, 2 + 1, Len(stack)) \in Seq(Frames) /\ Len(SubSeq(stack, 2 + 1, Len(stack))) = Len(stack) - 2
      /\ \A n \in 1 .. Len(stack) - 2 : SubSeq(stack, 2 + 1, Len(stack))[n] = stack[n + 2]
  BY <1>1, <1>3, Popped
<1>7. stack' = SubSeq(stack, 2 + 1, Len(stack)) /\ stack[3].kind = "poll"
  BY <1>2, <1>4
<1> QED
  BY <1>1, <1>2, <1>3, <1>5, <1>6, <1>7

LEMMA SessionPopsKeep ==
    ASSUME TasksInv, EndPass \/ EndPump \/ RootPends \/ RootExits
    PROVE  TasksInv'
<1>1. /\ stack \in Seq(Frames) /\ Len(stack) \in Nat /\ stack # <<>> /\ Top = stack[1] /\ 1 \in 1 .. Len(stack)
      /\ \A n \in 1 .. Len(stack) : stack[n] \in Frames /\ FrameFits(n)
  BY StackFacts DEF EndPass, EndPump, RootPends, RootExits, In, Turn, Executes
<1>2. /\ slot' = slot /\ prog' = prog /\ killed' = killed
      /\ slot \in [KSlots -> {"none", "running", "polling", "done"}]
      /\ guest \in [Guests -> {"unborn", "busy", "wait", "read", "sleep", "gone"}] /\ curParent \in SlotOrNone
  BY DEF EndPass, EndPump, RootPends, RootExits, TasksInv, TasksTyped, registry, history
<1>3. CASE Len(stack) = 1 /\ stack' = <<>> /\ curParent' = curParent
  <2>1. \A i \in KSlots : slot[i] # "polling"
    <3> SUFFICES ASSUME NEW i \in KSlots, slot[i] = "polling" PROVE FALSE
      OBVIOUS
    <3>1. PICK n \in Polls : stack[n].slot = i /\ stack[n].who = prog[i]
      BY DEF TasksInv, LentOnce, Lends
    <3>2. n = 1 /\ prog[i] \in Programs /\ stack[1].kind = "poll" /\ stack[1].who = prog[i]
      BY <1>3, <3>1 DEF Polls, TasksInv, LiveAreTheirOwn, Live
    <3>3. FrameFits(1)
      BY <1>1
    <3> QED
      BY <1>3, <3>2, <3>3 DEF FrameFits, Programs
  <2>2. stack' \in Seq(Frames) /\ Len(stack') = Len(stack) - 1 /\ 1 .. Len(stack) - 1 = {}
    BY <1>3
  <2>3. /\ guest' \in [Guests -> {"unborn", "busy", "wait", "read", "sleep", "gone"}]
        /\ \A p \in Guests : guest[p] # "unborn" => guest'[p] # "unborn"
    BY <1>2 DEF EndPass, EndPump, RootPends, RootExits, guests
  <2>4. /\ \A n \in 1 .. Len(stack) - 1 : Like(stack'[n], stack[n + 1])
        /\ ~(1 < Len(stack)) /\ 1 <= Len(stack) /\ 1 \in Nat /\ curParent' \in SlotOrNone
    BY <1>2, <1>3, <2>2
  <2>5. /\ \A i \in KSlots : slot'[i] = "polling" => slot[i] = "polling" /\ \A m \in 1 .. 1 : ~Lends(m, i)
        /\ \A i \in KSlots : slot'[i] = "running" =>
               slot[i] = "running" \/ (slot[i] = "polling" /\ \E m \in 1 .. 1 : Lends(m, i))
        /\ slot' \in [KSlots -> {"none", "running", "polling", "done"}] /\ prog' = prog /\ killed' = killed
    BY <1>2, <2>1
  <2> QED
    BY <2>2, <2>3, <2>4, <2>5, PopKeeps
<1>4. CASE EndPass
  BY <1>3, <1>4 DEF EndPass
<1>5. CASE RootPends \/ RootExits
  <2>1. Len(stack) = 1
    BY <1>1, <1>5 DEF RootPends, RootExits, Executes, Turn, In, FrameFits
  <2> QED
    BY <1>3, <1>5, <2>1 DEF RootPends, RootExits
<1>6. CASE EndPump
  <2>1. /\ 2 < Len(stack) /\ stack[1].kind = "pass" /\ stack[2].kind = "pump" /\ stack[2] \in Frames /\ stack[3].kind = "poll"
        /\ stack' \in Seq(Frames) /\ Len(stack') = Len(stack) - 2
        /\ \A n \in 1 .. Len(stack) - 2 : Like(stack'[n], stack[n + 2])
    BY <1>6, EndPumpFacts DEF Like
  <2>2. curParent' \in SlotOrNone /\ guest' = guest
    BY <1>6, <2>1, FrameKinds DEF EndPump, guests
  <2>3. \A i \in KSlots : \A m \in 1 .. 2 : ~Lends(m, i)
    BY <2>1 DEF Lends, Polls
  <2>4. stack[2 + 1].kind # "pump" /\ 2 <= Len(stack) /\ \A p \in Guests : guest[p] # "unborn" => guest'[p] # "unborn"
    BY <1>1, <2>1, <2>2
  <2> QED
    BY <1>1, <1>2, <2>1, <2>2, <2>3, <2>4, PopKeeps
<1> QED
  BY <1>4, <1>5, <1>6

\* A child's poll ends: the pass that polled it goes on from where it was.
LEMMA PollEndFacts ==
    ASSUME TasksInv, NEW p \in Programs, CheckIn(p) \/ Exit(p)
    PROVE  /\ Len(stack) \in Nat /\ Len(stack) > 1 /\ stack[2].kind = "pass" /\ stack[2] \in Frames
           /\ stack' \in Seq(Frames) /\ Len(stack') = Len(stack) - 1
           /\ Like(stack'[1], stack[2]) /\ stack'[1].next = stack[2].next /\ stack'[1].top = stack[2].top
           /\ \A n \in 2 .. Len(stack) - 1 : stack'[n] = stack[n + 1]
<1>1. /\ stack \in Seq(Frames) /\ Len(stack) \in Nat /\ stack # <<>> /\ Top = stack[1] /\ 1 \in 1 .. Len(stack)
      /\ \A n \in 1 .. Len(stack) : stack[n] \in Frames /\ FrameFits(n)
  BY StackFacts DEF CheckIn, Exit, Executes, Turn, In
<1> PICK i : i = stack[1].slot
  OBVIOUS
<1>2. stack[1].kind = "poll" /\ stack[1].who = p /\ p # 0
  BY <1>1 DEF CheckIn, Exit, Executes, Turn, In, Programs
<1>3. Len(stack) > 1 /\ stack[2].kind = "pass" /\ stack[2] \in Frames /\ 2 \in 1 .. Len(stack)
  BY <1>1, <1>2 DEF FrameFits
<1>4. CASE Exit(p)
  <2>1. stack' = Tail(stack)
    BY <1>4 DEF Exit
  <2> QED
    BY <1>1, <1>3, <2>1 DEF Like
<1>5. CASE CheckIn(p)
  <2>1. PICK b \in BOOLEAN : stack' = <<[stack[2] EXCEPT !.hot = b]>> \o SubSeq(stack, 3, Len(stack))
    <3>1. PICK b : b = (stack[2].hot \/ (StillLent(i) /\ (guest[p] = "busy" \/ p \in rung)))
      OBVIOUS
    <3>2. b \in BOOLEAN
      BY <3>1
    <3>3. stack' = <<[stack[2] EXCEPT !.hot = b]>> \o SubSeq(stack, 3, Len(stack))
      BY <1>1, <1>5, <3>1 DEF CheckIn
    <3> QED
      BY <3>2, <3>3
  <2>2. PICK f : f = [stack[2] EXCEPT !.hot = b]
    OBVIOUS
  <2>3. f \in Frames /\ Like(f, stack[2]) /\ f.next = stack[2].next /\ f.top = stack[2].top
    BY <1>3, <2>2, PassFrames
  <2>4. PICK t : t = SubSeq(stack, 2 + 1, Len(stack))
    OBVIOUS
  <2>5. t \in Seq(Frames) /\ Len(t) = Len(stack) - 2 /\ \A n \in 1 .. Len(stack) - 2 : t[n] = stack[n + 2]
    BY <1>1, <1>3, <2>4, Popped
  <2>6. <<f>> \in Seq(Frames) /\ Len(<<f>>) = 1 /\ <<f>>[1] = f /\ stack' = <<f>> \o t
    BY <2>1, <2>2, <2>3, <2>4
  <2>7. /\ stack' \in Seq(Frames) /\ Len(stack') = 1 + Len(t) /\ stack'[1] = f
        /\ \A n \in 1 .. Len(t) : stack'[n + 1] = t[n]
    BY <2>5, <2>6, Pushed
  <2>8. ASSUME NEW n \in 2 .. Len(stack) - 1 PROVE stack'[n] = stack[n + 1]
    <3>1. n - 1 \in 1 .. Len(t) /\ (n - 1) + 1 = n /\ (n - 1) + 2 = n + 1
      BY <1>1, <2>5
    <3> QED
      BY <2>5, <2>7, <3>1
  <2> QED
    BY <1>1, <1>3, <2>3, <2>5, <2>7, <2>8
<1> QED
  BY <1>4, <1>5

\* A child's poll ends: its slot is its own while it is lent.
LEMMA PollEndsKeep ==
    ASSUME TasksInv, NEW p \in Programs, CheckIn(p) \/ Exit(p)
    PROVE  TasksInv'
<1>1. /\ stack \in Seq(Frames) /\ Len(stack) \in Nat /\ stack # <<>> /\ Top = stack[1] /\ 1 \in 1 .. Len(stack)
      /\ \A n \in 1 .. Len(stack) : stack[n] \in Frames /\ FrameFits(n)
  BY StackFacts DEF CheckIn, Exit, Executes, Turn, In
<1>2. /\ slot \in [KSlots -> {"none", "running", "polling", "done"}] /\ prog \in [KSlots -> Guests]
      /\ guest \in [Guests -> {"unborn", "busy", "wait", "read", "sleep", "gone"}] /\ p \in Guests /\ p # 0
  BY DEF TasksInv, TasksTyped, Programs, Guests
<1> PICK i : i = stack[1].slot
  OBVIOUS
<1>3. stack[1].kind = "poll" /\ stack[1].who = p /\ killed' = killed /\ curParent' \in SlotOrNone /\ 1 \in Polls
  BY <1>1 DEF CheckIn, Exit, Executes, Turn, In, history, SlotOrNone, Polls
<1>4. i \in KSlots /\ (slot[i] = "polling" => prog[i] = p /\ Lends(1, i))
  <2>1. i \in KSlots
    BY <1>2, <1>3 DEF TasksInv, PolledOnce
  <2>2. ASSUME slot[i] = "polling" PROVE \E m \in Polls : m <= 1 /\ Lends(m, i)
    BY <1>2, <1>3, <2>2 DEF TasksInv, LentOnce
  <2>3. \A m \in Polls : m <= 1 => m = 1
    BY DEF Polls
  <2> QED
    BY <1>3, <2>1, <2>2, <2>3 DEF Lends
<1>5. Len(stack) > 1 /\ stack[2].kind = "pass" /\ stack[2] \in Frames /\ 2 \in 1 .. Len(stack)
  BY <1>1, <1>2, <1>3 DEF FrameFits
<1>6. \A j \in KSlots : Lends(1, j) => j = i
  BY DEF Lends
<1>7. /\ prog' = prog /\ slot' \in [KSlots -> {"none", "running", "polling", "done"}]
      /\ slot'[i] # "polling" /\ (slot'[i] = "running" => slot[i] = "running" \/ slot[i] = "polling")
      /\ \A j \in KSlots : j # i => slot'[j] = slot[j]
      /\ guest' \in [Guests -> {"unborn", "busy", "wait", "read", "sleep", "gone"}]
      /\ \A q \in Guests : guest[q] # "unborn" => guest'[q] # "unborn"
  <2>1. CASE CheckIn(p)
    <3>1. /\ slot' = [slot EXCEPT ![i] = IF slot[i] = "polling" THEN "running" ELSE @]
          /\ prog' = [prog EXCEPT ![i] = IF slot[i] = "polling" THEN p ELSE @]
          /\ guest' = [guest EXCEPT ![p] = IF slot[i] = "polling" THEN @ ELSE "gone"]
      BY <1>1, <2>1 DEF CheckIn, StillLent
    <3> QED
      BY <1>2, <1>4, <3>1
  <2>2. CASE Exit(p)
    <3>1. /\ slot' = [slot EXCEPT ![i] = IF slot[i] = "polling" THEN "done" ELSE @]
          /\ prog' = prog /\ guest' = [guest EXCEPT ![p] = "gone"]
      BY <1>1, <2>2 DEF Exit, StillLent
    <3> QED
      BY <1>2, <1>4, <3>1
  <2> QED
    BY <2>1, <2>2
<1>8. /\ stack' \in Seq(Frames) /\ Len(stack') = Len(stack) - 1
      /\ \A n \in 1 .. Len(stack) - 1 : Like(stack'[n], stack[n + 1])
  <2>1. /\ stack' \in Seq(Frames) /\ Len(stack') = Len(stack) - 1 /\ Like(stack'[1], stack[1 + 1])
        /\ \A n \in 2 .. Len(stack) - 1 : stack'[n] = stack[n + 1]
    BY PollEndFacts
  <2>2. \A n \in 1 .. Len(stack) - 1 : n = 1 \/ n \in 2 .. Len(stack) - 1
    BY <1>1
  <2> QED
    BY <2>1, <2>2 DEF Like
<1>9. \A j \in KSlots : slot'[j] = "polling" => slot[j] = "polling" /\ \A m \in 1 .. 1 : ~Lends(m, j)
  BY <1>6, <1>7
<1>10. \A j \in KSlots : slot'[j] = "running" =>
               slot[j] = "running" \/ (slot[j] = "polling" /\ \E m \in 1 .. 1 : Lends(m, j))
  BY <1>4, <1>7
<1>11. 1 <= Len(stack) /\ stack[1 + 1].kind # "pump"
  BY <1>5
<1> QED
  BY <1>3, <1>7, <1>8, <1>9, <1>10, <1>11, PopKeeps

\* The empty stack gets the root's poll, or the session's pass.
LEMMA SessionPushesKeep ==
    ASSUME TasksInv, PollRoot \/ BeginPass
    PROVE  TasksInv'
<1>1. /\ stack = <<>> /\ slot' = slot /\ prog' = prog /\ killed' = killed /\ guest' = guest /\ curParent' = curParent
  BY DEF PollRoot, BeginPass, registry, history, guests
<1>2. PICK f : stack' = <<f>> /\ f = IF PollRoot THEN Poll(0, NoTask) ELSE Pass(TRUE)
  BY DEF PollRoot, BeginPass
<1>3. /\ f \in Frames /\ (f.kind = "poll" => f.who = 0) /\ f.kind \in {"poll", "pass"}
  <2>1. CASE PollRoot
    BY <1>2, <2>1, RootIsAGuest DEF Poll, Frames, SlotOrNone
  <2>2. CASE ~PollRoot
    BY <1>2, <2>2 DEF Pass, Frames
  <2> QED
    BY <2>1, <2>2
<1>4. stack' \in Seq(Frames) /\ Len(stack') = 1 /\ stack'[1] = f
  <2>1. stack' = <<f>> /\ f \in Frames
    BY <1>2, <1>3
  <2> QED
    BY <2>1
<1>5. TasksTyped'
  BY <1>1, <1>4 DEF TasksInv, TasksTyped
<1>6. StackFits'
  BY <1>3, <1>4 DEF StackFits, Frame, FrameFits
<1>7. Polls = {} /\ \A n \in Polls' : n = 1 /\ stack'[n].who = 0
  BY <1>1, <1>3, <1>4 DEF Polls
<1>8. LiveAreTheirOwn'
  BY <1>1 DEF TasksInv, LiveAreTheirOwn, Live
<1>9. guest[0] # "unborn" /\ \A i \in KSlots : slot[i] = "running" => prog[i] # 0
  BY RootIsAGuest DEF TasksInv, LiveAreTheirOwn, Live
<1>10. PolledOnce' /\ LentOnce'
  BY <1>1, <1>7, <1>9 DEF TasksInv, PolledOnce, LentOnce
<1> QED
  BY <1>5, <1>6, <1>8, <1>10 DEF TasksInv

\* A compile runs a pass of its own.
LEMMA CompileFacts ==
    ASSUME TasksInv, NEW p \in Guests, Compile(p)
    PROVE  /\ stack' \in Seq(Frames) /\ Len(stack') = 2 + Len(stack)
           /\ stack'[1] = Pass(curParent = NoTask) /\ stack'[2] = Pump(curParent)
           /\ \A n \in 1 .. Len(stack) : stack'[n + 2] = stack[n]
<1>1. stack \in Seq(Frames)
  BY StackFacts
<1>2. PICK f, g : f = Pass(curParent = NoTask) /\ g = Pump(curParent)
  OBVIOUS
<1>3. f \in Frames /\ g \in Frames
  BY <1>2 DEF Pass, Pump, Frames, TasksInv, TasksTyped
<1>4. PICK t : t = <<f, g>>
  OBVIOUS
<1>5. t \in Seq(Frames) /\ Len(t) = 2 /\ t[1] = f /\ t[2] = g
  BY <1>3, <1>4
<1>6. stack' = t \o stack
  BY <1>2, <1>4 DEF Compile
<1>7. /\ stack' \in Seq(Frames) /\ Len(stack') = 2 + Len(stack) /\ stack'[1] = t[1] /\ stack'[2] = t[2]
      /\ \A n \in 1 .. Len(stack) : stack'[n + 2] = stack[n]
  <2>1. /\ t \o stack \in Seq(Frames) /\ Len(t \o stack) = Len(t) + Len(stack)
        /\ \A n \in 1 .. Len(t) : (t \o stack)[n] = t[n]
        /\ \A n \in 1 .. Len(stack) : (t \o stack)[n + Len(t)] = stack[n]
    BY <1>1, <1>5, Pushed
  <2> QED
    BY <1>5, <1>6, <2>1
<1> QED
  BY <1>2, <1>5, <1>7

LEMMA CompileKeeps ==
    ASSUME TasksInv, NEW p \in Guests, Compile(p)
    PROVE  TasksInv'
<1>1. /\ slot' = slot /\ prog' = prog /\ killed' = killed /\ guest' = guest /\ curParent' = curParent
      /\ stack # <<>> /\ Top.kind = "poll"
  BY DEF Compile, registry, history, guests, Executes, Turn, In
<1>2. /\ stack \in Seq(Frames) /\ Len(stack) \in Nat \ {0} /\ stack[1].kind = "poll"
      /\ \A n \in 1 .. Len(stack) : stack[n] \in Frames /\ FrameFits(n)
  BY <1>1, StackFacts
<1>5. /\ stack' \in Seq(Frames) /\ Len(stack') = 2 + Len(stack) /\ stack'[1].kind = "pass" /\ stack'[2].kind = "pump"
      /\ \A n \in 1 .. Len(stack) : stack'[n + 2] = stack[n]
  BY CompileFacts DEF Pass, Pump
<1>6. \A n \in 1 .. Len(stack') : n = 1 \/ n = 2 \/ (n - 2 \in 1 .. Len(stack) /\ (n - 2) + 2 = n)
  BY <1>2, <1>5
<1>7. TasksTyped'
  BY <1>1, <1>5 DEF TasksInv, TasksTyped
<1>8. StackFits'
  <2>1. FrameFits(1)'
    BY <1>2, <1>5 DEF FrameFits
  <2>2. FrameFits(2)'
    <3>1. stack'[1 + 2].kind = "poll" /\ 2 # Len(stack')
      BY <1>2, <1>5
    <3> QED
      BY <1>5, <3>1 DEF FrameFits
  <2>3. ASSUME NEW n \in 1 .. Len(stack) PROVE FrameFits(n + 2)'
    <3>1. /\ stack'[n + 2] = stack[n] /\ FrameFits(n) /\ (n + 2 = Len(stack') <=> n = Len(stack))
      BY <1>2, <1>5
    <3>2. n # Len(stack) => n + 1 \in 1 .. Len(stack) /\ (n + 2) + 1 = (n + 1) + 2
      BY <1>2
    <3>3. n # Len(stack) => stack'[(n + 2) + 1] = stack[n + 1]
      BY <1>5, <3>2
    <3>4. n > 1 => n - 1 \in 1 .. Len(stack) /\ (n + 2) - 1 = (n - 1) + 2
      BY <1>2
    <3>5. n > 1 => stack'[(n + 2) - 1] = stack[n - 1]
      BY <1>5, <3>4
    <3>6. n + 2 > 1
      OBVIOUS
    <3> QED
      BY <3>1, <3>3, <3>5, <3>6 DEF FrameFits
  <2> QED
    BY <1>6, <2>1, <2>2, <2>3 DEF StackFits, Frame
<1>9. /\ \A n \in Polls : n + 2 \in Polls' /\ stack'[n + 2] = stack[n] /\ n \in Nat
      /\ \A n \in Polls' : n - 2 \in Polls /\ (n - 2) + 2 = n /\ stack'[n] = stack[n - 2] /\ n \in Nat
  <2>1. ASSUME NEW n \in Polls PROVE n + 2 \in Polls' /\ stack'[n + 2] = stack[n] /\ n \in Nat
    BY <1>2, <1>5 DEF Polls
  <2>2. ASSUME NEW n \in Polls' PROVE n - 2 \in Polls /\ (n - 2) + 2 = n /\ stack'[n] = stack[n - 2] /\ n \in Nat
    <3>1. n - 2 \in 1 .. Len(stack) /\ (n - 2) + 2 = n /\ n \in Nat /\ stack'[n].kind = "poll"
      BY <1>5, <1>6 DEF Polls
    <3>2. stack'[(n - 2) + 2] = stack[n - 2]
      BY <1>5, <3>1
    <3> QED
      BY <3>1, <3>2 DEF Polls
  <2> QED
    BY <2>1, <2>2
<1>10. LiveAreTheirOwn'
  BY <1>1 DEF TasksInv, LiveAreTheirOwn, Live
<1>11. PolledOnce'
  <2>1. PolledOnce
    BY DEF TasksInv
  <2>2. ASSUME NEW m \in Polls', NEW n \in Polls', m # n PROVE stack'[m].who # stack'[n].who
    <3>1. m - 2 \in Polls /\ n - 2 \in Polls /\ m - 2 # n - 2
      BY <1>9, <2>2
    <3> QED
      BY <1>9, <2>1, <3>1 DEF PolledOnce
  <2>3. ASSUME NEW n \in Polls'
        PROVE  /\ guest[stack'[n].who] # "unborn" /\ (stack'[n].who # 0 => stack'[n].slot \in KSlots)
               /\ \A i \in KSlots : slot[i] = "running" => prog[i] # stack'[n].who
    BY <1>9, <2>1 DEF PolledOnce
  <2> QED
    BY <1>1, <2>2, <2>3 DEF PolledOnce
<1>12. \A n \in Polls : \A i : Lends(n, i) => Lends(n + 2, i)'
  BY <1>1, <1>9 DEF Lends
<1>13. LentOnce'
  <2>1. LentOnce
    BY DEF TasksInv
  <2>2. ASSUME NEW i \in KSlots, slot[i] = "polling" PROVE \E n \in Polls' : Lends(n, i)'
    BY <1>9, <1>12, <2>1, <2>2 DEF LentOnce
  <2>3. ASSUME NEW n \in Polls', stack'[n].who # 0, slot[stack'[n].slot] = "polling"
        PROVE  \E m \in Polls' : m <= n /\ Lends(m, stack[n].slot)'
    <3>1. PICK i : i = stack'[n].slot
      OBVIOUS
    <3>2. PICK m \in Polls : m <= n - 2 /\ Lends(m, i)
      BY <1>9, <2>1, <2>3, <3>1 DEF LentOnce
    <3>3. m + 2 \in Polls' /\ m + 2 <= n /\ Lends(m + 2, i)'
      BY <1>9, <1>12, <3>2
    <3> QED
      BY <3>1, <3>3
  <2> QED
    BY <1>1, <2>2, <2>3 DEF LentOnce
<1> QED
  BY <1>7, <1>8, <1>10, <1>11, <1>13 DEF TasksInv

\* The first child that runs from the pass's place on is checked out.
LEMMA CheckOutFacts ==
    ASSUME TasksInv, CheckOut
    PROVE  \E i \in KSlots, f, g \in Frames :
             /\ slot[i] = "running" /\ slot' = [slot EXCEPT ![i] = "polling"] /\ curParent' = i
             /\ stack[1].next <= i /\ \A j \in KSlots : slot[j] = "running" /\ j >= stack[1].next => i <= j
             /\ f.kind = "poll" /\ f.who = prog[i] /\ f.slot = i
             /\ guest[prog[i]] = "busy" \/ prog[i] \in rung => f.go
             /\ g.kind = "pass" /\ g.next = i + 1 /\ g.top = stack[1].top
             /\ stack' \in Seq(Frames) /\ Len(stack') = 1 + Len(stack) /\ stack'[1] = f /\ stack'[2] = g
             /\ \A n \in 2 .. Len(stack) : stack'[n + 1] = stack[n]
             /\ rung' = rung \ {prog[i]}
<1>1. /\ stack \in Seq(Frames) /\ Len(stack) \in Nat \ {0} /\ Top = stack[1] /\ stack[1].kind = "pass" /\ stack[1] \in Frames
  BY StackFacts DEF CheckOut, In
<1>2. stack[1].next \in Nat
  BY <1>1, PassFrames
<1>3. PICK i \in KSlots :
        /\ slot[i] = "running" /\ slot' = [slot EXCEPT ![i] = "polling"] /\ curParent' = i /\ rung' = rung \ {prog[i]}
        /\ stack[1].next <= i /\ \A j \in KSlots : slot[j] = "running" /\ j >= stack[1].next => i <= j
        /\ stack' = <<Poll(prog[i], i), [stack[1] EXCEPT !.next = i + 1]>> \o Tail(stack)
  <2>1. PICK S : S = NextRunnable(Top.next)
    OBVIOUS
  <2>2. /\ S \in SUBSET Nat /\ S # {} /\ \A j \in S : j \in KSlots /\ slot[j] = "running" /\ j >= stack[1].next
        /\ \A j \in KSlots : slot[j] = "running" /\ j >= stack[1].next => j \in S
    BY <1>1, <2>1 DEF NextRunnable, KSlots, CheckOut
  <2>3. Min(S) \in S /\ \A j \in S : Min(S) <= j
    BY <2>2, FirstPosition
  <2>4. PICK i : i = Min(S)
    OBVIOUS
  <2>5. i \in KSlots /\ slot[i] = "running" /\ i >= stack[1].next /\ i \in Nat
    BY <2>2, <2>3, <2>4
  <2>6. stack[1].next <= i /\ \A j \in KSlots : slot[j] = "running" /\ j >= stack[1].next => i <= j
    BY <1>2, <2>2, <2>3, <2>4, <2>5
  <2>7. /\ slot' = [slot EXCEPT ![i] = "polling"] /\ curParent' = i /\ rung' = rung \ {prog[i]}
        /\ stack' = <<Poll(prog[i], i), [stack[1] EXCEPT !.next = i + 1]>> \o Tail(stack)
    BY <1>1, <2>1, <2>4 DEF CheckOut
  <2> QED
    BY <2>5, <2>6, <2>7
<1> PICK f, g : f = Poll(prog[i], i) /\ g = [stack[1] EXCEPT !.next = i + 1]
  OBVIOUS
<1>4. /\ f \in Frames /\ f.kind = "poll" /\ f.who = prog[i] /\ f.slot = i
      /\ guest[prog[i]] = "busy" \/ prog[i] \in rung => f.go
  BY DEF Poll, Frames, SlotOrNone, TasksInv, TasksTyped
<1>5. g \in Frames /\ g.kind = "pass" /\ g.next = i + 1 /\ g.top = stack[1].top
  <2>1. i + 1 \in Nat /\ TRUE \in BOOLEAN /\ stack[1] \in Frames /\ stack[1].kind = "pass"
    BY <1>1 DEF KSlots
  <2>2. g \in Frames /\ Like(g, stack[1]) /\ g.next = i + 1 /\ g.top = stack[1].top
    BY <2>1, PassFrames
  <2> QED
    BY <2>1, <2>2 DEF Like
<1>6. /\ stack' \in Seq(Frames) /\ Len(stack') = 1 + Len(stack) /\ stack'[1] = f /\ stack'[2] = g
      /\ \A n \in 2 .. Len(stack) : stack'[n + 1] = stack[n]
  <2>1. PICK t, u : t = <<f, g>> /\ u = Tail(stack)
    OBVIOUS
  <2>2. t \in Seq(Frames) /\ Len(t) = 2 /\ t[1] = f /\ t[2] = g
    BY <1>4, <1>5, <2>1
  <2>3. u \in Seq(Frames) /\ Len(u) = Len(stack) - 1 /\ \A n \in 1 .. Len(stack) - 1 : u[n] = stack[n + 1]
    BY <1>1, <2>1
  <2>4. stack' = t \o u
    BY <1>3, <2>1
  <2>5. /\ t \o u \in Seq(Frames) /\ Len(t \o u) = Len(t) + Len(u)
        /\ \A n \in 1 .. Len(t) : (t \o u)[n] = t[n]
        /\ \A n \in 1 .. Len(u) : (t \o u)[n + Len(t)] = u[n]
    BY <2>2, <2>3, Pushed
  <2>6. ASSUME NEW n \in 2 .. Len(stack) PROVE stack'[n + 1] = stack[n]
    <3>1. n - 1 \in 1 .. Len(u) /\ (n - 1) + 2 = n + 1 /\ (n - 1) + 1 = n
      BY <1>1, <2>3
    <3>2. stack'[(n - 1) + 2] = u[n - 1] /\ u[n - 1] = stack[(n - 1) + 1]
      BY <2>2, <2>3, <2>4, <2>5, <3>1
    <3> QED
      BY <3>1, <3>2
  <2>7. stack'[1] = f /\ stack'[2] = g
    <3>1. stack'[1] = t[1] /\ stack'[2] = t[2]
      BY <2>2, <2>4, <2>5
    <3> QED
      BY <2>2, <3>1
  <2>8. stack' \in Seq(Frames) /\ Len(stack') = 1 + Len(stack)
    BY <1>1, <2>2, <2>3, <2>4, <2>5
  <2> QED
    BY <2>6, <2>7, <2>8
<1> QED
  BY <1>3, <1>4, <1>5, <1>6

\* One frame more, one slot lent.
LEMMA CheckOutKeeps ==
    ASSUME TasksInv, CheckOut
    PROVE  TasksInv'
<1>1. /\ stack \in Seq(Frames) /\ Len(stack) \in Nat \ {0} /\ Top = stack[1] /\ stack[1].kind = "pass" /\ stack[1] \in Frames
      /\ \A n \in 1 .. Len(stack) : stack[n] \in Frames /\ FrameFits(n)
  BY StackFacts DEF CheckOut, In
<1>2. PICK i \in KSlots, f, g \in Frames :
        /\ slot[i] = "running" /\ slot' = [slot EXCEPT ![i] = "polling"] /\ curParent' = i
        /\ f.kind = "poll" /\ f.who = prog[i] /\ f.slot = i /\ g.kind = "pass"
        /\ stack' \in Seq(Frames) /\ Len(stack') = 1 + Len(stack) /\ stack'[1] = f /\ stack'[2] = g
        /\ \A n \in 2 .. Len(stack) : stack'[n + 1] = stack[n]
  BY CheckOutFacts
<1>3. /\ slot \in [KSlots -> {"none", "running", "polling", "done"}] /\ prog \in [KSlots -> Guests]
      /\ prog' = prog /\ killed' = killed /\ guest' = guest /\ i \in Nat
  BY DEF TasksInv, TasksTyped, CheckOut, guests, history, KSlots
<1>4. prog[i] \in Programs /\ guest[prog[i]] # "unborn" /\ prog[i] # 0 /\ prog[i] \in Guests
  BY <1>2, <1>3, RootIsAGuest DEF TasksInv, LiveAreTheirOwn, Live
<1> PICK q : q = prog[i]
  OBVIOUS
<1>5. f \in Frames /\ f.kind = "poll" /\ f.who = q /\ f.slot = i
  BY <1>2
<1>6. g \in Frames /\ g.kind = "pass"
  BY <1>2
<1>7. /\ stack' \in Seq(Frames) /\ Len(stack') = 1 + Len(stack) /\ stack'[1] = f /\ stack'[2] = g
      /\ \A n \in 2 .. Len(stack) : stack'[n + 1] = stack[n]
  BY <1>2
<1>8. \A n \in 1 .. Len(stack) : stack'[n + 1].kind = stack[n].kind
  <2> SUFFICES ASSUME NEW n \in 1 .. Len(stack) PROVE stack'[n + 1].kind = stack[n].kind
    OBVIOUS
  <2>1. CASE n = 1
    <3>1. stack'[1 + 1] = g
      BY <1>7
    <3> QED
      BY <1>1, <1>6, <2>1, <3>1
  <2>2. CASE n # 1
    <3>1. n \in 2 .. Len(stack)
      BY <1>1, <2>2
    <3> QED
      BY <1>7, <3>1
  <2> QED
    BY <2>1, <2>2
<1>9. TasksTyped'
  BY <1>2, <1>3, <1>7 DEF TasksInv, TasksTyped, SlotOrNone
<1>10. StackFits'
  <2>1. FrameFits(1)'
    <3>1. stack'[1 + 1].kind = "pass" /\ stack'[1].kind = "poll" /\ stack'[1].who # 0
      <4>1. stack'[1 + 1] = g /\ stack'[1] = f
        BY <1>7
      <4> QED
        BY <1>4, <1>5, <1>6, <4>1
    <3>2. 1 # Len(stack')
      BY <1>1, <1>7
    <3> QED
      BY <3>1, <3>2 DEF FrameFits
  <2>2. ASSUME NEW n \in 1 .. Len(stack) PROVE FrameFits(n + 1)'
    <3>1. FrameFits(n) /\ stack'[n + 1].kind = stack[n].kind /\ (n + 1 = Len(stack') <=> n = Len(stack)) /\ n + 1 > 1
      BY <1>1, <1>7, <1>8
    <3>2. stack[n].kind = "poll" => stack'[n + 1].who = stack[n].who
      <4>1. stack[n].kind = "poll" => n # 1
        BY <1>1
      <4>2. n # 1 => n \in 2 .. Len(stack)
        BY <1>1
      <4> QED
        BY <1>7, <4>1, <4>2
    <3>3. n # Len(stack) => stack'[(n + 1) + 1].kind = stack[n + 1].kind
      <4>1. n # Len(stack) => n + 1 \in 1 .. Len(stack)
        BY <1>1
      <4> QED
        BY <1>8, <4>1
    <3>4. n > 1 => stack'[(n + 1) - 1].kind = stack[n - 1].kind
      <4>1. n > 1 => n - 1 \in 1 .. Len(stack) /\ (n - 1) + 1 = (n + 1) - 1
        BY <1>1
      <4> QED
        BY <1>8, <4>1
    <3> QED
      BY <3>1, <3>2, <3>3, <3>4 DEF FrameFits
  <2>3. \A n \in 1 .. Len(stack') : n = 1 \/ (n - 1 \in 1 .. Len(stack) /\ (n - 1) + 1 = n)
    BY <1>1, <1>7
  <2> QED
    BY <2>1, <2>2, <2>3 DEF StackFits, Frame
<1>11. /\ \A n \in Polls : n + 1 \in Polls' /\ stack'[n + 1] = stack[n] /\ n \in Nat
       /\ \A n \in Polls' : n = 1 \/ (n - 1 \in Polls /\ (n - 1) + 1 = n /\ stack'[n] = stack[n - 1] /\ n \in Nat)
       /\ 1 \in Polls'
  <2>1. ASSUME NEW n \in Polls PROVE n + 1 \in Polls' /\ stack'[n + 1] = stack[n] /\ n \in Nat
    <3>1. n \in 2 .. Len(stack) /\ stack[n].kind = "poll"
      BY <1>1 DEF Polls
    <3> QED
      BY <1>1, <1>7, <3>1 DEF Polls
  <2>2. ASSUME NEW n \in Polls', n # 1
        PROVE  n - 1 \in Polls /\ (n - 1) + 1 = n /\ stack'[n] = stack[n - 1] /\ n \in Nat
    <3>1. n - 1 \in 1 .. Len(stack) /\ (n - 1) + 1 = n /\ n \in Nat /\ stack'[n].kind = "poll"
      BY <1>1, <1>7, <2>2 DEF Polls
    <3>2. n - 1 \in 2 .. Len(stack)
      <4>1. n # 2
        BY <1>6, <1>7, <3>1
      <4> QED
        BY <1>1, <2>2, <3>1, <4>1
    <3>3. stack'[(n - 1) + 1] = stack[n - 1]
      BY <1>7, <3>2
    <3> QED
      BY <3>1, <3>3 DEF Polls
  <2>3. 1 \in Polls'
    BY <1>1, <1>5, <1>7 DEF Polls
  <2> QED
    BY <2>1, <2>2, <2>3
<1>12. /\ slot'[i] = "polling" /\ \A j \in KSlots : j # i => slot'[j] = slot[j]
       /\ \A j \in KSlots : Live(j)' <=> Live(j)
  BY <1>2, <1>3 DEF Live
<1>13. LiveAreTheirOwn'
  BY <1>3, <1>12 DEF TasksInv, LiveAreTheirOwn
<1>14. \A n \in Polls : stack[n].who # q
  BY <1>2 DEF TasksInv, PolledOnce
<1>15. PolledOnce'
  <2>1. PolledOnce
    BY DEF TasksInv
  <2>2. ASSUME NEW m \in Polls', NEW n \in Polls', m # n PROVE stack'[m].who # stack'[n].who
    <3>1. CASE m = 1
      BY <1>5, <1>7, <1>11, <1>14, <2>2, <3>1
    <3>2. CASE n = 1
      BY <1>5, <1>7, <1>11, <1>14, <2>2, <3>2
    <3>3. CASE m # 1 /\ n # 1
      <4>1. m - 1 \in Polls /\ n - 1 \in Polls /\ m - 1 # n - 1
        BY <1>11, <2>2, <3>3
      <4> QED
        BY <1>11, <2>1, <3>3, <4>1 DEF PolledOnce
    <3> QED
      BY <3>1, <3>2, <3>3
  <2>3. ASSUME NEW n \in Polls'
        PROVE  /\ guest[stack'[n].who] # "unborn" /\ (stack'[n].who # 0 => stack'[n].slot \in KSlots)
               /\ \A j \in KSlots : slot'[j] = "running" => prog[j] # stack'[n].who
    <3>1. CASE n = 1
      <4>1. \A j \in KSlots : slot'[j] = "running" => prog[j] # q
        BY <1>2, <1>12 DEF TasksInv, LiveAreTheirOwn, Live
      <4> QED
        BY <1>4, <1>5, <1>7, <3>1, <4>1
    <3>2. CASE n # 1
      BY <1>11, <1>12, <2>1, <3>2 DEF PolledOnce
    <3> QED
      BY <3>1, <3>2
  <2> QED
    BY <1>3, <2>2, <2>3 DEF PolledOnce
<1>16. Lends(1, i)' /\ \A n \in Polls : \A j : Lends(n, j) => Lends(n + 1, j)'
  BY <1>3, <1>5, <1>7, <1>11 DEF Lends
<1>17. LentOnce'
  <2>1. LentOnce /\ PolledOnce
    BY DEF TasksInv
  <2>2. ASSUME NEW j \in KSlots, slot'[j] = "polling" PROVE \E n \in Polls' : Lends(n, j)'
    <3>1. CASE j = i
      BY <1>11, <1>16, <3>1
    <3>2. CASE j # i
      <4>1. PICK n \in Polls : Lends(n, j)
        BY <1>12, <2>1, <2>2, <3>2 DEF LentOnce
      <4> QED
        BY <1>11, <1>16, <4>1
    <3> QED
      BY <3>1, <3>2
  <2>3. ASSUME NEW n \in Polls', stack'[n].who # 0, slot'[stack'[n].slot] = "polling"
        PROVE  \E m \in Polls' : m <= n /\ Lends(m, stack[n].slot)'
    <3>1. PICK j : j = stack'[n].slot
      OBVIOUS
    <3>2. n \in Nat /\ 1 <= n
      BY <1>7 DEF Polls
    <3>3. CASE j = i
      BY <1>11, <1>16, <3>1, <3>2, <3>3
    <3>4. CASE j # i
      <4>1. n # 1
        BY <1>5, <1>7, <3>1, <3>4
      <4>2. n - 1 \in Polls /\ stack[n - 1].who # 0 /\ stack[n - 1].slot = j /\ j \in KSlots
        BY <1>11, <2>1, <2>3, <3>1, <4>1 DEF PolledOnce
      <4>3. slot[j] = "polling"
        BY <1>12, <2>3, <3>1, <3>4, <4>2
      <4>4. PICK m \in Polls : m <= n - 1 /\ Lends(m, j)
        BY <2>1, <4>2, <4>3 DEF LentOnce
      <4>5. m + 1 \in Polls' /\ m + 1 <= n /\ Lends(m + 1, j)'
        BY <1>11, <1>16, <3>2, <4>4
      <4> QED
        BY <3>1, <4>5
    <3> QED
      BY <3>3, <3>4
  <2> QED
    BY <2>2, <2>3 DEF LentOnce
<1> QED
  BY <1>9, <1>10, <1>13, <1>15, <1>17 DEF TasksInv

----------------------------------------------------------------------------
(* The host functions.                                                     *)

\* Host functions run on behalf of a program that has been born.
LEMMA CallerIsBorn ==
    ASSUME TasksInv, NEW p, Turn(p)
    PROVE  p \in Guests /\ guest[p] # "unborn"
<1>1. 1 \in Polls /\ stack[1].who = p /\ stack[1] \in Frames /\ stack[1].kind = "poll"
  BY StackFacts DEF Turn, In, Polls
<1> QED
  BY <1>1, FrameKinds DEF TasksInv, PolledOnce

\* A future pends: the top frame loses its wake, nothing else of the stack changes.
LEMMA ParkedKeeps ==
    ASSUME TasksInv, NEW p, NEW how \in {"wait", "read", "sleep"}, Turn(p), Parked(p, how),
           UNCHANGED <<registry, curParent, history>>
    PROVE  TasksInv'
<1>1. stack \in Seq(Frames) /\ stack # <<>> /\ Top = stack[1] /\ stack[1] \in Frames /\ stack[1].kind = "poll" /\ Len(stack) \in Nat
  BY StackFacts DEF Turn, In
<1>2. PICK f : f = [stack[1] EXCEPT !.go = FALSE]
  OBVIOUS
<1>3. f \in Frames /\ Like(f, stack[1]) /\ stack' = <<f>> \o Tail(stack)
  BY <1>1, <1>2, FrameKinds DEF Parked
<1>4. /\ stack' \in Seq(Frames) /\ Len(stack') = Len(stack) /\ stack'[1] = f
      /\ \A n \in 2 .. Len(stack) : stack'[n] = stack[n]
  BY <1>1, <1>3, Retopped
<1>5. \A n \in 1 .. Len(stack) : Like(stack'[n], stack[n])
  <2> SUFFICES ASSUME NEW n \in 1 .. Len(stack) PROVE Like(stack'[n], stack[n])
    OBVIOUS
  <2>1. n = 1 \/ n \in 2 .. Len(stack)
    BY <1>1
  <2> QED
    BY <1>3, <1>4, <2>1 DEF Like
<1>6. p \in Guests /\ guest[p] # "unborn" /\ guest \in [Guests -> {"unborn", "busy", "wait", "read", "sleep", "gone"}]
  BY CallerIsBorn DEF TasksInv, TasksTyped
<1>7. /\ guest' \in [Guests -> {"unborn", "busy", "wait", "read", "sleep", "gone"}]
      /\ \A q \in Guests : guest[q] # "unborn" => guest'[q] # "unborn"
  BY <1>6 DEF Parked
<1>8. slot' = slot /\ prog' = prog /\ killed' = killed /\ curParent' \in SlotOrNone
  BY DEF registry, history, TasksInv, TasksTyped
<1> QED
  BY <1>4, <1>5, <1>7, <1>8, SamePollsKeep

\* The stack and the registry stay; somebody may go on.
LEMMA QuietKeeps ==
    ASSUME TasksInv, UNCHANGED <<registry, curParent, stack, history>>,
           guest' = guest \/ \E p \in Guests : guest' = [guest EXCEPT ![p] = "busy"]
    PROVE  TasksInv'
<1>1. stack' \in Seq(Frames) /\ Len(stack') = Len(stack) /\ \A n \in 1 .. Len(stack) : Like(stack'[n], stack[n])
  BY StackFacts DEF Like
<1>2. guest \in [Guests -> {"unborn", "busy", "wait", "read", "sleep", "gone"}]
  BY DEF TasksInv, TasksTyped
<1>3. /\ guest' \in [Guests -> {"unborn", "busy", "wait", "read", "sleep", "gone"}]
      /\ \A q \in Guests : guest[q] # "unborn" => guest'[q] # "unborn"
  BY <1>2
<1>4. slot' = slot /\ prog' = prog /\ killed' = killed /\ curParent' \in SlotOrNone
  BY DEF registry, history, TasksInv, TasksTyped
<1> QED
  BY <1>1, <1>3, <1>4, SamePollsKeep

\* kill_task_tree: nothing of the tree stays in the registry.
LEMMA KillKeeps ==
    ASSUME TasksInv, NEW p, NEW i \in KSlots, KillTree(p, i), UNCHANGED <<prog, curParent, stack>>
    PROVE  TasksInv'
<1> PICK dead : dead = Doomed(i)
  OBVIOUS
<1>1. /\ slot \in [KSlots -> {"none", "running", "polling", "done"}] /\ prog \in [KSlots -> Guests]
      /\ guest \in [Guests -> {"unborn", "busy", "wait", "read", "sleep", "gone"}] /\ killed \subseteq Guests
      /\ LiveAreTheirOwn
  BY DEF TasksInv, TasksTyped
<1>2. dead \subseteq KSlots /\ \A j \in dead : Live(j)
  BY DEF Doomed
<1>3. /\ slot' = [j \in KSlots |-> IF j \in dead THEN "done" ELSE slot[j]]
      /\ killed' = killed \cup {prog[j] : j \in dead}
      /\ guest' = [q \in Guests |-> IF q \in {prog[j] : j \in {d \in dead : slot[d] = "running"}} THEN "gone"
                                    ELSE IF q = p THEN "busy" ELSE guest[q]]
  BY DEF KillTree
<1>4. /\ slot' \in [KSlots -> {"none", "running", "polling", "done"}]
      /\ \A j \in KSlots : Live(j)' => j \notin dead /\ slot'[j] = slot[j] /\ Live(j)
  BY <1>1, <1>3 DEF Live
<1>5. \A j \in KSlots : Live(j)' => prog[j] \notin killed'
  BY <1>1, <1>2, <1>3, <1>4 DEF LiveAreTheirOwn
<1>6. killed' \subseteq Guests /\ \A q \in killed' : guest[q] # "unborn"
  BY <1>1, <1>2, <1>3 DEF LiveAreTheirOwn
<1>7. /\ guest' \in [Guests -> {"unborn", "busy", "wait", "read", "sleep", "gone"}]
      /\ \A q \in Guests : guest[q] # "unborn" => guest'[q] # "unborn"
  BY <1>1, <1>3
<1> QED
  BY <1>1, <1>4, <1>5, <1>6, <1>7, EndsKeep

LEMMA DropTaskKeeps ==
    ASSUME TasksInv, NEW p, NEW i \in KSlots, DropHandle(p, i)
    PROVE  TasksInv'
<1>1. /\ slot' = [slot EXCEPT ![i] = "none"] /\ prog' = [prog EXCEPT ![i] = NoTask]
      /\ guest' = [guest EXCEPT ![prog[i]] = IF slot[i] = "running" THEN "gone" ELSE @]
      /\ killed' = killed /\ stack' = stack /\ curParent' = curParent
  BY DEF DropHandle, history
<1>2. /\ slot \in [KSlots -> {"none", "running", "polling", "done"}] /\ prog \in [KSlots -> Guests]
      /\ guest \in [Guests -> {"unborn", "busy", "wait", "read", "sleep", "gone"}] /\ killed \subseteq Guests
      /\ LiveAreTheirOwn
  BY DEF TasksInv, TasksTyped
<1>3. slot' \in [KSlots -> {"none", "running", "polling", "done"}] /\ prog' \in [KSlots -> Guests]
  BY <1>1, <1>2, RootIsAGuest DEF NoTask
<1>4. \A j \in KSlots : Live(j)' => slot'[j] = slot[j] /\ prog'[j] = prog[j] /\ prog[j] \notin killed'
  BY <1>1, <1>2 DEF Live, LiveAreTheirOwn
<1>5. /\ guest' \in [Guests -> {"unborn", "busy", "wait", "read", "sleep", "gone"}]
      /\ \A q \in Guests : guest[q] # "unborn" => guest'[q] # "unborn"
  BY <1>1, <1>2
<1>6. killed' \subseteq Guests /\ \A q \in killed' : guest[q] # "unborn"
  BY <1>1, <1>2 DEF LiveAreTheirOwn
<1> QED
  BY <1>1, <1>3, <1>4, <1>5, <1>6, EndsKeep

\* A child is born into a free slot.
LEMMA SpawnFacts ==
    ASSUME NEW p \in Guests, Spawn(p)
    PROVE  \E q \in Programs, i \in KSlots :
             /\ guest[q] = "unborn" /\ slot[i] = "none"
             /\ slot' = [slot EXCEPT ![i] = "running"] /\ prog' = [prog EXCEPT ![i] = q]
             /\ guest' = [guest EXCEPT ![q] = "busy"]
<1>1. PICK S, T : S = {r \in Programs : guest[r] = "unborn"} /\ T = FreeSlots
  OBVIOUS
<1>2. S \in SUBSET Nat /\ S # {} /\ T \in SUBSET Nat /\ T # {}
  BY <1>1 DEF Spawn, FreeSlots, KSlots, Programs
<1>3. Min(S) \in S /\ Min(T) \in T
  BY <1>2, FirstPosition
<1>4. /\ slot' = [slot EXCEPT ![Min(T)] = "running"] /\ prog' = [prog EXCEPT ![Min(T)] = Min(S)]
      /\ guest' = [guest EXCEPT ![Min(S)] = "busy"]
  BY <1>1 DEF Spawn
<1> QED
  BY <1>1, <1>3, <1>4 DEF FreeSlots

LEMMA SpawnTaskKeeps ==
    ASSUME TasksInv, NEW p \in Guests, Spawn(p)
    PROVE  TasksInv'
<1>1. PICK q \in Programs, i \in KSlots :
        /\ guest[q] = "unborn" /\ slot[i] = "none"
        /\ slot' = [slot EXCEPT ![i] = "running"] /\ prog' = [prog EXCEPT ![i] = q]
        /\ guest' = [guest EXCEPT ![q] = "busy"]
  BY SpawnFacts
<1>2. /\ slot \in [KSlots -> {"none", "running", "polling", "done"}] /\ prog \in [KSlots -> Guests]
      /\ guest \in [Guests -> {"unborn", "busy", "wait", "read", "sleep", "gone"}] /\ killed \subseteq Guests
      /\ stack' = stack /\ killed' = killed /\ curParent' = curParent /\ q \in Guests /\ q # 0
  BY RootIsAGuest DEF TasksInv, TasksTyped, Spawn
<1>3. LiveAreTheirOwn /\ PolledOnce /\ LentOnce
  BY DEF TasksInv
<1>4. TasksTyped'
  BY <1>1, <1>2 DEF TasksInv, TasksTyped
<1>5. StackFits' /\ Polls' = Polls /\ \A n \in Polls : stack[n].who \in Guests
  BY <1>2, StackFacts, FrameKinds DEF TasksInv, StackFits, Frame, FrameFits, Polls
<1>6. /\ slot'[i] = "running" /\ prog'[i] = q /\ guest'[q] = "busy"
      /\ \A j \in KSlots : j # i => slot'[j] = slot[j] /\ prog'[j] = prog[j] /\ (Live(j)' <=> Live(j))
      /\ \A r \in Guests : r # q => guest'[r] = guest[r]
  BY <1>1, <1>2 DEF Live
<1>7. q \notin killed /\ \A j \in KSlots : Live(j) => prog[j] # q
  BY <1>1, <1>3 DEF LiveAreTheirOwn
<1>8. LiveAreTheirOwn'
  <2>1. ASSUME NEW j \in KSlots, Live(j)'
        PROVE  prog'[j] \in Programs /\ guest'[prog'[j]] # "unborn" /\ prog'[j] \notin killed /\ (j # i => prog'[j] # q)
    <3>1. CASE j = i
      BY <1>6, <1>7, <3>1
    <3>2. CASE j # i
      <4>1. Live(j) /\ prog'[j] = prog[j]
        BY <1>6, <2>1, <3>2
      <4> QED
        BY <1>2, <1>3, <1>6, <1>7, <4>1 DEF LiveAreTheirOwn
    <3> QED
      BY <3>1, <3>2
  <2>2. \A j, k \in KSlots : j # k /\ Live(j)' /\ Live(k)' => prog'[j] # prog'[k]
    BY <1>3, <1>6, <1>7 DEF LiveAreTheirOwn
  <2>3. guest'[0] # "unborn" /\ \A r \in killed : guest'[r] # "unborn"
    BY <1>2, <1>3, <1>6, RootIsAGuest DEF LiveAreTheirOwn
  <2> QED
    BY <1>2, <2>1, <2>2, <2>3 DEF LiveAreTheirOwn
<1>9. PolledOnce'
  <2>1. \A n \in Polls : stack[n].who # q
    BY <1>1, <1>3 DEF PolledOnce
  <2> QED
    BY <1>2, <1>3, <1>5, <1>6, <2>1 DEF PolledOnce
<1>10. LentOnce'
  <2>1. \A j \in KSlots : slot'[j] = "polling" => slot[j] = "polling" /\ prog'[j] = prog[j]
    BY <1>6
  <2>2. ASSUME NEW j \in KSlots, slot'[j] = "polling" PROVE \E n \in Polls : Lends(n, j)'
    BY <1>2, <1>3, <1>5, <2>1, <2>2 DEF LentOnce, Lends
  <2>3. ASSUME NEW n \in Polls, stack[n].who # 0, slot'[stack[n].slot] = "polling"
        PROVE  \E m \in Polls : m <= n /\ Lends(m, stack[n].slot)'
    <3>1. stack[n].slot \in KSlots
      BY <1>3, <2>3 DEF PolledOnce
    <3> QED
      BY <1>2, <1>3, <1>5, <2>1, <2>3, <3>1 DEF LentOnce, Lends
  <2> QED
    BY <1>2, <1>5, <2>2, <2>3 DEF LentOnce, Lends
<1> QED
  BY <1>4, <1>5, <1>8, <1>9, <1>10 DEF TasksInv

LEMMA HostCallKeeps ==
    ASSUME TasksInv, NEW p \in Guests, HostCall(p)
    PROVE  TasksInv'
<1>1. CASE Spawn(p)
  BY <1>1, SpawnTaskKeeps
<1>2. CASE Compile(p)
  BY <1>2, CompileKeeps
<1>3. CASE ReadTakes(p) \/ SleepEnds(p)
  BY <1>3, QuietKeeps DEF ReadTakes, SleepEnds
<1>4. CASE ReadParks(p)
  <2>1. Turn(p) /\ Parked(p, "read") /\ UNCHANGED <<registry, curParent, history>>
    BY <1>4 DEF ReadParks, Reads, Executes, Repolls
  <2> QED
    BY <2>1, ParkedKeeps
<1>5. CASE SleepParks(p)
  <2>1. Turn(p) /\ Parked(p, "sleep") /\ UNCHANGED <<registry, curParent, history>>
    BY <1>5 DEF SleepParks, Executes, Repolls
  <2> QED
    BY <2>1, ParkedKeeps
<1>6. ASSUME NEW i \in KSlots, WaitParks(p, i) PROVE TasksInv'
  <2>1. Turn(p) /\ Parked(p, "wait") /\ UNCHANGED <<registry, curParent, history>>
    BY <1>6 DEF WaitParks, Waits, Executes, Repolls
  <2> QED
    BY <2>1, ParkedKeeps
<1>7. ASSUME NEW i \in KSlots, WaitReturns(p, i) PROVE TasksInv'
  BY <1>7, QuietKeeps DEF WaitReturns
<1>8. ASSUME NEW i \in KSlots, Kill(p, i) \/ WaitIsInterrupted(p, i) PROVE TasksInv'
  BY <1>8, KillKeeps DEF Kill, WaitIsInterrupted
<1>9. ASSUME NEW i \in KSlots, DropHandle(p, i) PROVE TasksInv'
  BY <1>9, DropTaskKeeps
<1> QED
  BY <1>1, <1>2, <1>3, <1>4, <1>5, <1>6, <1>7, <1>8, <1>9 DEF HostCall

LEMMA InitTasksInv == TasksInit => TasksInv
<1> SUFFICES ASSUME TasksInit PROVE TasksInv
  OBVIOUS
<1>1. Polls = {} /\ Frame = {} /\ \A i \in KSlots : ~Live(i)
  BY DEF TasksInit, Polls, Frame, Live
<1>2. TasksTyped
  BY RootIsAGuest DEF TasksInit, TasksTyped, SlotOrNone, NoTask
<1>3. guest[0] = "busy"
  BY RootIsAGuest DEF TasksInit
<1> QED
  BY <1>1, <1>2, <1>3 DEF TasksInit, TasksInv, StackFits, LiveAreTheirOwn, PolledOnce, LentOnce, Live

LEMMA TasksStep == ASSUME TasksInv, [TasksNext]_tasksVars PROVE TasksInv'
<1>1. CASE PollRoot \/ BeginPass
  BY <1>1, SessionPushesKeep
<1>2. CASE CheckOut
  BY <1>2, CheckOutKeeps
<1>3. CASE EndPass \/ EndPump \/ RootPends \/ RootExits
  BY <1>3, SessionPopsKeep
<1>4. CASE ParkGate \/ Halt \/ WakeOnEvent \/ WakeOnMaintenance
  BY <1>4, QuietKeeps DEF ParkGate, Halt, WakeOnEvent, WakeOnMaintenance, guests
<1>5. ASSUME NEW k \in {Key, CtrlC}, KeyArrives(k) PROVE TasksInv'
  BY <1>5, QuietKeeps DEF KeyArrives, guests
<1>6. ASSUME NEW p \in Guests, HostCall(p) PROVE TasksInv'
  BY <1>6, HostCallKeeps
<1>7. ASSUME NEW p \in Guests, DeadlinePasses(p) PROVE TasksInv'
  BY <1>7, QuietKeeps DEF DeadlinePasses
<1>8. ASSUME NEW p \in Programs, CheckIn(p) \/ Exit(p) PROVE TasksInv'
  BY <1>8, PollEndsKeep
<1>9. CASE SessionIsOver \/ UNCHANGED tasksVars
  BY <1>9, QuietKeeps DEF SessionIsOver, tasksVars, guests
<1> QED
  BY <1>1, <1>2, <1>3, <1>4, <1>5, <1>6, <1>7, <1>8, <1>9 DEF TasksNext

\* The inductive invariant of the executor, for every number of slots, programs
\* and keys.
THEOREM TasksInvariant == TasksSpec => []TasksInv
<1> QED
  BY InitTasksInv, TasksStep, PTL DEF TasksSpec

\* drive_children enters a store once at a time and never after its program was
\* killed, whatever is killed, dropped and spawned from inside a poll or from
\* the passes a compile runs: the check-in by the slot's Polling mark is enough.
THEOREM StoresAreEnteredOnce == TasksSpec => []OneEntry
<1>1. TasksInv => OneEntry
  <2> SUFFICES ASSUME TasksInv PROVE OneEntry
    OBVIOUS
  <2>1. \A m, n \in Polls : m # n => stack[m].who # stack[n].who
    BY DEF TasksInv, PolledOnce
  <2>2. \A i \in KSlots : slot[i] = "polling" => \E n \in Polls : stack[n].slot = i /\ stack[n].who = prog[i]
    BY DEF TasksInv, LentOnce, Lends
  <2>3. \A i \in KSlots : slot[i] = "running" => prog[i] \notin killed
    BY DEF TasksInv, LiveAreTheirOwn, Live
  <2> QED
    BY <2>1, <2>2, <2>3 DEF OneEntry
<1> QED
  BY <1>1, TasksInvariant, PTL

----------------------------------------------------------------------------
(***************************************************************************)
(* KTasks, the halt of a session whose root reads no input (boot_to_init). *)
(* What a program waits for reaches it by its own waker (rung) or by the   *)
(* frame that polls it; before that the input edge or a registration       *)
(* stands for it. The halt is reached through a pass that has visited      *)
(* every program and a gate that looks at the wakers of all it visited;    *)
(* the root's is not among them, so a completion must keep the loop hot.   *)
(***************************************************************************)

\* The frames and what goes with them: whose poll it is, where the session is,
\* and that only the innermost program is not computing.
Bottom == stack[Len(stack)]
FrameSits(n) ==
    /\ stack[n].kind = "poll" => (stack[n].who = 0 <=> stack[n].slot = NoTask)
    /\ stack[n].kind = "poll" /\ n > 1 => guest[stack[n].who] = "busy"
    /\ stack[n].kind = "pump" => stack[n].saved = stack[n + 1].slot
    /\ stack[n].kind = "pass" /\ stack[n].top /\ n # Len(stack) => stack[n + 1].saved = NoTask
ExecutorFits ==
    /\ stack # <<>> => at \in {"pass", "root"} /\ (at = "pass" <=> Bottom.kind = "pass")
    /\ stack = <<>> => curParent = NoTask
    /\ Len(stack) = 1 /\ stack[1].kind = "pass" => curParent = NoTask
    /\ stack # <<>> /\ stack[1].kind = "poll" => curParent = stack[1].slot
    /\ \A n \in Frame : FrameSits(n)

Waiting(p) == guest[p] \in {"wait", "read"}
Going(p) == \E n \in Polls : stack[n].who = p /\ stack[n].go
Woken(p) == p \in rung \/ Going(p)
Owed(p) == \/ guest[p] = "read" /\ rxRing # <<>>
           \/ guest[p] = "wait" /\ CtrlC \in ToSet(rxRing)
Registered(p) == waitsOn[p] \in KSlots /\ p \in waitWakers[waitsOn[p]] /\ slot[waitsOn[p]] # "done"

\* What a waiting program waits for is on its way to it.
Heard(p) ==
    /\ Waiting(p) => p \in idleWakers \/ Woken(p)
    /\ Owed(p) => inputEdge \/ Woken(p)
    /\ guest[p] = "wait" => Registered(p) \/ Woken(p)
\* The root is polled at the start of every round of the loop and by no pass.
RootIsHeard ==
    /\ guest[0] # "read"
    /\ guest[0] = "wait" =>
         Registered(0) \/ Going(0) \/ (0 \in rung /\ (completionRung \/ (at = "root" /\ stack = <<>>)))
AllAreHeard == RootIsHeard /\ \A p \in Programs : Heard(p)

\* A waiting program is in the registry or being polled, and the session's pass
\* visits it before the gate asks for its waker.
OnStack(p) == \E n \in Polls : stack[n].who = p
InRegistry ==
    \A p \in Programs : Waiting(p) => OnStack(p) \/ \E i \in KSlots : slot[i] = "running" /\ prog[i] = p
PassVisits ==
    \A i \in KSlots : slot[i] = "running" /\ Waiting(prog[i]) =>
        \/ prog[i] \in passWakers \/ at \in {"root", "over"}
        \/ at = "pass" /\ (stack = <<>> \/ Bottom.next <= i)
HaltIsGated ==
    /\ at \in {"idle", "masked", "halted", "ending"} => ~completionRung
    /\ at \in {"masked", "halted"} => passWakers \cap rung = {}
    /\ at = "halted" => ~inputEdge

WakesTyped ==
    /\ waitWakers \in [KSlots -> SUBSET Guests] /\ waitsOn \in [Guests -> SlotOrNone]
    /\ rxRing \in Seq({Key, CtrlC})

HaltInv == ExecutorFits /\ WakesTyped /\ AllAreHeard /\ InRegistry /\ PassVisits /\ HaltIsGated

----------------------------------------------------------------------------
(* What keeps a program heard.                                             *)

\* Nothing arrived that was not there.
NoInput == ToSet(rxRing)' \subseteq ToSet(rxRing) /\ (rxRing' # <<>> => rxRing # <<>>)

\* A program that goes on waiting keeps what stands for its wake.
LEMMA HeardKeeps ==
    ASSUME NEW p \in Programs, Heard(p),
           Waiting(p)' =>
             /\ guest'[p] = guest[p] /\ waitsOn'[p] = waitsOn[p]
             /\ Woken(p) => Woken(p)'
             /\ p \in idleWakers => p \in idleWakers' \cup rung'
             /\ inputEdge => inputEdge' \/ (p \in idleWakers => p \in rung')
             /\ inputEdge' \/ NoInput
             /\ Registered(p) /\ guest'[p] = "wait" => Registered(p)' \/ p \in rung'
    PROVE  Heard(p)'
<1> SUFFICES ASSUME Waiting(p)' PROVE Heard(p)'
  BY DEF Heard, Owed, Waiting
<1>1. Waiting(p) /\ (p \in idleWakers' \/ Woken(p)')
  BY DEF Heard, Waiting, Woken
<1>2. Owed(p)' => inputEdge' \/ Woken(p)'
  <2>1. ASSUME Owed(p)', ~inputEdge' PROVE Woken(p)'
    <3>1. Owed(p)
      BY <2>1 DEF Owed, NoInput
    <3>2. CASE Woken(p)
      BY <3>2
    <3>3. CASE ~Woken(p)
      <4>1. inputEdge /\ p \in idleWakers
        BY <1>1, <3>1, <3>3 DEF Heard
      <4> QED
        BY <2>1, <4>1 DEF Woken
    <3> QED
      BY <3>2, <3>3
  <2> QED
    BY <2>1
<1>3. guest'[p] = "wait" => Registered(p)' \/ Woken(p)'
  BY DEF Heard, Woken
<1> QED
  BY <1>1, <1>2, <1>3 DEF Heard

\* A frame that moved or stayed, over the frame it was over.
Same(f, g) ==
    /\ f.kind = g.kind
    /\ f.kind = "poll" => f.who = g.who /\ f.slot = g.slot
    /\ f.kind = "pass" => f.top = g.top
    /\ f.kind = "pump" => f.saved = g.saved
LEMMA FrameSitsStill ==
    ASSUME NEW m \in Nat, NEW n \in Nat, FrameFits(m), FrameSits(m), Same(stack'[n], stack[m]),
           n = Len(stack') <=> m = Len(stack), m # Len(stack) => Same(stack'[n + 1], stack[m + 1]),
           stack[m].kind = "poll" /\ n > 1 => guest'[stack[m].who] = "busy"
    PROVE  FrameSits(n)'
<1>1. CASE stack[m].kind = "poll"
  BY <1>1 DEF FrameSits, Same
<1>2. CASE stack[m].kind = "pass"
  BY <1>2 DEF FrameSits, FrameFits, Same
<1>3. CASE stack[m].kind = "pump"
  BY <1>3 DEF FrameSits, FrameFits, Same
<1>4. CASE stack[m].kind \notin {"poll", "pass", "pump"}
  BY <1>4 DEF FrameSits, Same
<1> QED
  BY <1>1, <1>2, <1>3, <1>4

\* The polls that stay on the stack, d positions away, but perhaps q's.
LEMMA PollsStay ==
    ASSUME NEW d \in Int, NEW q,
           \A n \in Polls : stack[n].who # q =>
               /\ n + d \in 1 .. Len(stack') /\ stack'[n + d].kind = "poll"
               /\ stack'[n + d].who = stack[n].who /\ stack'[n + d].go = stack[n].go
    PROVE  \A p : p # q => (Going(p) => Going(p)') /\ (OnStack(p) => OnStack(p)')
<1> SUFFICES ASSUME NEW p, p # q, NEW n \in Polls, stack[n].who = p
             PROVE  OnStack(p)' /\ (stack[n].go => Going(p)')
  BY DEF Going, OnStack
<1>1. n + d \in Polls' /\ stack'[n + d].who = p /\ stack'[n + d].go = stack[n].go
  BY DEF Polls
<1> QED
  BY <1>1 DEF Going, OnStack

----------------------------------------------------------------------------
(* The stack as it is: most host functions, the idle loop, the clock and   *)
(* the input interrupt.                                                    *)

\* What the actions of this section keep, short of the session loop.
LEMMA StillKeeps ==
    ASSUME TasksInv, TasksInv', HaltInv, stack' = stack, curParent' = curParent, passWakers' = passWakers,
           at' = at \/ (at \in {"idle", "masked", "halted", "ending"} /\ at' \in {"root", "masked", "halted", "ending"}),
           WakesTyped', HaltIsGated',
           \A p \in Guests : Waiting(p)' => guest'[p] = guest[p] /\ waitsOn'[p] = waitsOn[p],
           \A n \in Polls : n > 1 => guest'[stack[n].who] = "busy",
           rung \subseteq rung', idleWakers \subseteq idleWakers' \cup rung',
           inputEdge => inputEdge' \/ idleWakers \subseteq rung',
           inputEdge' \/ NoInput,
           completionRung => completionRung',
           \A p \in Guests : Registered(p) /\ guest'[p] = "wait" =>
               Registered(p)' \/ (p \in rung' /\ completionRung'),
           \A p \in Programs : Waiting(p)' => \A i \in KSlots :
               slot'[i] = "running" /\ prog'[i] = p <=> slot[i] = "running" /\ prog[i] = p
    PROVE  HaltInv'
<1>1. \A n \in 1 .. Len(stack) : stack[n] \in Frames /\ FrameFits(n)
  BY StackFacts
<1>2. Polls' = Polls /\ Frame' = Frame
  BY DEF Polls, Frame
<1>3. \A p : (Going(p) => Going(p)') /\ (OnStack(p) => OnStack(p)') /\ (Woken(p) => Woken(p)')
  BY <1>2 DEF Going, OnStack, Woken
<1>4. ExecutorFits'
  <2>1. at' = at \/ stack = <<>>
    BY DEF HaltInv, ExecutorFits
  <2>2. ASSUME NEW n \in Frame PROVE FrameSits(n)'
    <3>1. FrameSits(n)
      BY DEF HaltInv, ExecutorFits
    <3>2. stack[n].kind = "poll" /\ n > 1 => guest'[stack[n].who] = "busy"
      BY DEF Polls, Frame
    <3> QED
      BY <3>1, <3>2 DEF FrameSits
  <2> QED
    BY <1>2, <2>1, <2>2 DEF HaltInv, ExecutorFits, Bottom
<1>5. RootIsHeard'
  <2>1. RootIsHeard /\ 0 \in Guests
    BY RootIsAGuest DEF HaltInv, AllAreHeard
  <2>2. guest'[0] # "read"
    BY <2>1 DEF RootIsHeard, Waiting
  <2>3. ASSUME guest'[0] = "wait"
        PROVE  Registered(0)' \/ Going(0)' \/ (0 \in rung' /\ (completionRung' \/ (at' = "root" /\ stack' = <<>>)))
    <3>1. guest[0] = "wait"
      BY <2>1, <2>3 DEF Waiting
    <3>2. CASE Registered(0)
      BY <2>1, <2>3, <3>2
    <3>3. CASE Going(0)
      BY <1>3, <3>3
    <3>4. CASE 0 \in rung /\ (completionRung \/ (at = "root" /\ stack = <<>>))
      BY <3>4
    <3> QED
      BY <2>1, <3>1, <3>2, <3>3, <3>4 DEF RootIsHeard
  <2> QED
    BY <2>2, <2>3 DEF RootIsHeard
<1>6. ASSUME NEW p \in Programs PROVE Heard(p)'
  <2>1. p \in Guests /\ Heard(p)
    BY RootIsAGuest DEF HaltInv, AllAreHeard
  <2>2. ASSUME Waiting(p)'
        PROVE  /\ guest'[p] = guest[p] /\ waitsOn'[p] = waitsOn[p] /\ (Woken(p) => Woken(p)')
               /\ p \in idleWakers => p \in idleWakers' \cup rung'
               /\ inputEdge => inputEdge' \/ (p \in idleWakers => p \in rung')
               /\ inputEdge' \/ NoInput
               /\ Registered(p) /\ guest'[p] = "wait" => Registered(p)' \/ p \in rung'
    BY <1>3, <2>1, <2>2
  <2> QED
    BY <2>1, <2>2, HeardKeeps
<1>7. InRegistry'
  BY <1>3, RootIsAGuest DEF HaltInv, InRegistry, Waiting
<1>8. PassVisits'
  <2> SUFFICES ASSUME NEW i \in KSlots, NEW p, slot'[i] = "running", prog'[i] = p, Waiting(p)'
               PROVE  \/ p \in passWakers' \/ at' \in {"root", "over"}
                      \/ at' = "pass" /\ (stack' = <<>> \/ Bottom'.next <= i)
    BY DEF PassVisits, Waiting
  <2>1. p \in Programs /\ p \in Guests
    BY RootIsAGuest DEF TasksInv, LiveAreTheirOwn, Live
  <2>2. slot[i] = "running" /\ prog[i] = p /\ Waiting(p)
    BY <2>1 DEF Waiting
  <2> QED
    BY <2>2 DEF HaltInv, PassVisits, Bottom
<1> QED
  BY <1>4, <1>5, <1>6, <1>7, <1>8 DEF HaltInv, AllAreHeard


\* ring_wait_wakers: whoever is registered stays so or is rung, and the loop stays hot.
LEMMA RingKeeps ==
    ASSUME WakesTyped, NEW done \in SUBSET KSlots, RingWaiters(done)
    PROVE  /\ rung \subseteq rung' /\ (completionRung => completionRung')
           /\ waitWakers' \in [KSlots -> SUBSET Guests]
           /\ \A i \in KSlots : \A p \in waitWakers[i] :
                 (i \notin done /\ p \in waitWakers'[i]) \/ (p \in rung' /\ completionRung')
<1> PICK parked : parked = UNION {waitWakers[i] : i \in done}
  OBVIOUS
<1>1. /\ rung' = rung \cup parked /\ completionRung' = (completionRung \/ parked # {})
      /\ waitWakers' = [i \in KSlots |-> IF i \in done THEN {} ELSE waitWakers[i]]
  BY DEF RingWaiters
<1>2. \A i \in done : waitWakers[i] \subseteq parked
  OBVIOUS
<1> QED
  BY <1>1, <1>2 DEF WakesTyped

\* A suffix of the ring holds nothing new.
LEMMA RingShrinks ==
    ASSUME rxRing \in Seq({Key, CtrlC}), NEW k \in 1 .. Len(rxRing), rxRing' = SubSeq(rxRing, k + 1, Len(rxRing))
    PROVE  rxRing' \in Seq({Key, CtrlC}) /\ NoInput
<1>1. /\ rxRing' \in Seq({Key, CtrlC}) /\ Len(rxRing') = Len(rxRing) - k /\ Len(rxRing) \in Nat /\ k \in Nat
      /\ \A n \in 1 .. Len(rxRing) - k : rxRing'[n] = rxRing[n + k] /\ n + k \in 1 .. Len(rxRing)
  OBVIOUS
<1>2. ToSet(rxRing') \subseteq ToSet(rxRing)
  BY <1>1 DEF ToSet
<1>3. rxRing # <<>>
  BY <1>1
<1> QED
  BY <1>1, <1>2, <1>3 DEF NoInput

\* The poll on top is the only one of its program.
LEMMA TurnFacts ==
    ASSUME TasksInv, NEW p, Turn(p)
    PROVE  /\ stack \in Seq(Frames) /\ Len(stack) \in Nat \ {0} /\ stack # <<>> /\ Top = stack[1] /\ stack[1] \in Frames
           /\ stack[1].kind = "poll" /\ stack[1].who = p /\ 1 \in Polls /\ p \in Guests
           /\ \A n \in Polls : n # 1 => stack[n].who # p /\ n \in 2 .. Len(stack)
           /\ \A i \in KSlots : slot[i] = "running" => prog[i] # p
<1>1. stack \in Seq(Frames) /\ stack # <<>> /\ Top = stack[1] /\ stack[1] \in Frames /\ stack[1].kind = "poll" /\ stack[1].who = p
  BY StackFacts DEF Turn, In
<1>2. 1 \in Polls /\ Len(stack) \in Nat \ {0}
  BY <1>1 DEF Polls
<1>3. \A n \in Polls : n # 1 => stack[n].who # p /\ n \in 2 .. Len(stack)
  BY <1>1, <1>2 DEF TasksInv, PolledOnce, Polls
<1> QED
  BY <1>1, <1>2, <1>3, CallerIsBorn DEF TasksInv, PolledOnce

\* Nothing but the innermost program is parked on the stack.
LEMMA OthersAreBusy ==
    ASSUME TasksInv, HaltInv, NEW n \in Polls, n > 1
    PROVE  guest[stack[n].who] = "busy" /\ stack[n].who \in Guests
<1>1. n \in Frame /\ stack[n].kind = "poll" /\ stack[n] \in Frames
  BY StackFacts DEF Polls, Frame
<1> QED
  BY <1>1, FrameKinds DEF HaltInv, ExecutorFits, FrameSits

\* kill_task_tree by the program on top.
LEMMA KillHeard ==
    ASSUME TasksInv, TasksInv', HaltInv, NEW p, Turn(p), NEW i \in KSlots, KillTree(p, i),
           UNCHANGED <<prog, parents, curParent, idleWakers, passWakers, inputEdge, stack, at>>,
           NoInput, rxRing' \in Seq({Key, CtrlC}),
           waitsOn' \in [Guests -> SlotOrNone], \A q \in Guests : q # p => waitsOn'[q] = waitsOn[q]
    PROVE  HaltInv'
<1> PICK dead : dead = Doomed(i)
  OBVIOUS
<1>1. /\ slot \in [KSlots -> {"none", "running", "polling", "done"}] /\ prog \in [KSlots -> Guests]
      /\ guest \in [Guests -> {"unborn", "busy", "wait", "read", "sleep", "gone"}] /\ WakesTyped
  BY DEF TasksInv, TasksTyped, HaltInv
<1>2. dead \subseteq KSlots /\ dead \cup {i} \in SUBSET KSlots
  BY DEF Doomed
<1> PICK dropped : dropped = {prog[j] : j \in {d \in dead : slot[d] = "running"}}
  OBVIOUS
<1>3. /\ slot' = [j \in KSlots |-> IF j \in dead THEN "done" ELSE slot[j]]
      /\ RingWaiters(dead \cup {i})
      /\ guest' = [q \in Guests |-> IF q \in dropped THEN "gone" ELSE IF q = p THEN "busy" ELSE guest[q]]
  BY DEF KillTree
<1>4. /\ rung \subseteq rung' /\ (completionRung => completionRung') /\ waitWakers' \in [KSlots -> SUBSET Guests]
      /\ \A j \in KSlots : \A q \in waitWakers[j] :
           (j \notin dead \cup {i} /\ q \in waitWakers'[j]) \/ (q \in rung' /\ completionRung')
  BY <1>1, <1>2, <1>3, RingKeeps
<1>5. WakesTyped' /\ HaltIsGated'
  <2>1. stack # <<>>
    BY TurnFacts
  <2>2. at' \in {"pass", "root"}
    BY <2>1 DEF HaltInv, ExecutorFits
  <2> QED
    BY <1>4, <2>2 DEF WakesTyped, HaltIsGated
<1>6. \A q \in Guests : Waiting(q)' => q # p /\ q \notin dropped /\ guest'[q] = guest[q] /\ waitsOn'[q] = waitsOn[q]
  BY <1>3 DEF Waiting
<1>7. ASSUME NEW n \in Polls, n > 1 PROVE guest'[stack[n].who] = "busy"
  <2>1. stack[n].who \notin dropped
    BY <1>2 DEF TasksInv, PolledOnce
  <2> QED
    BY <1>3, <1>7, <2>1, OthersAreBusy
<1>8. ASSUME NEW q \in Guests, Registered(q), guest'[q] = "wait" PROVE Registered(q)' \/ (q \in rung' /\ completionRung')
  <2>1. PICK j \in KSlots : j = waitsOn[q] /\ q \in waitWakers[j] /\ slot[j] # "done"
    BY <1>8 DEF Registered
  <2>2. waitsOn'[q] = j
    BY <1>6, <1>8, <2>1 DEF Waiting
  <2>3. j \notin dead => slot'[j] # "done"
    BY <1>3, <2>1
  <2> QED
    BY <1>4, <2>1, <2>2, <2>3 DEF Registered
<1>9. ASSUME NEW q \in Programs, Waiting(q)', NEW j \in KSlots
      PROVE  slot'[j] = "running" /\ prog'[j] = q <=> slot[j] = "running" /\ prog[j] = q
  <2>1. q \notin dropped
    BY <1>6, <1>9, RootIsAGuest
  <2> QED
    BY <1>1, <1>3, <2>1
<1> HIDE DEF NoInput, WakesTyped, HaltIsGated
<1> QED
  BY <1>4, <1>5, <1>6, <1>7, <1>8, <1>9, StillKeeps


\* A host function that rings nobody and leaves the wakes alone: somebody goes on,
\* is born, or is gone with its slot.
LEMMA QuietHeard ==
    ASSUME TasksInv, TasksInv', HaltInv, NEW p, Turn(p),
           UNCHANGED <<curParent, wakers, inputEdge, rung, stack, at>>,
           NoInput, rxRing' \in Seq({Key, CtrlC}), waitsOn' \in [Guests -> SlotOrNone],
           \A q \in Guests : Waiting(q)' => guest'[q] = guest[q] /\ waitsOn'[q] = waitsOn[q],
           \A n \in Polls : n > 1 => guest'[stack[n].who] = "busy",
           \A i \in KSlots : slot'[i] = "done" => slot[i] = "done",
           \A q \in Programs : Waiting(q)' => \A i \in KSlots :
               slot'[i] = "running" /\ prog'[i] = q <=> slot[i] = "running" /\ prog[i] = q
    PROVE  HaltInv'
<1>1. WakesTyped' /\ HaltIsGated'
  <2>1. at' \in {"pass", "root"}
    BY TurnFacts DEF HaltInv, ExecutorFits
  <2> QED
    BY <2>1 DEF HaltInv, WakesTyped, HaltIsGated, wakers
<1>2. ASSUME NEW q \in Guests, Registered(q), guest'[q] = "wait" PROVE Registered(q)'
  <2>1. waitsOn'[q] = waitsOn[q] /\ waitWakers' = waitWakers
    BY <1>2 DEF Waiting, wakers
  <2> QED
    BY <1>2, <2>1 DEF Registered
<1>3. /\ passWakers' = passWakers /\ idleWakers' = idleWakers /\ completionRung' = completionRung
      /\ stack' = stack /\ curParent' = curParent /\ at' = at /\ rung' = rung /\ inputEdge' = inputEdge
  BY DEF wakers
<1> HIDE DEF NoInput, WakesTyped, HaltIsGated
<1> QED
  BY <1>1, <1>2, <1>3, StillKeeps

\* The program on top goes on.
LEMMA GoesOn ==
    ASSUME TasksInv, TasksInv', HaltInv, NEW p, Turn(p), guest' = [guest EXCEPT ![p] = "busy"],
           UNCHANGED <<registry, curParent, wakers, inputEdge, rung, stack, at>>,
           NoInput, rxRing' \in Seq({Key, CtrlC}),
           waitsOn' = waitsOn \/ waitsOn' = [waitsOn EXCEPT ![p] = NoTask]
    PROVE  HaltInv'
<1>1. /\ guest \in [Guests -> {"unborn", "busy", "wait", "read", "sleep", "gone"}]
      /\ waitsOn \in [Guests -> SlotOrNone] /\ p \in Guests /\ slot' = slot /\ prog' = prog
  BY TurnFacts DEF TasksInv, TasksTyped, HaltInv, WakesTyped, registry
<1>2. waitsOn' \in [Guests -> SlotOrNone]
  BY <1>1 DEF SlotOrNone
<1>3. \A q \in Guests : Waiting(q)' => guest'[q] = guest[q] /\ waitsOn'[q] = waitsOn[q]
  BY <1>1 DEF Waiting
<1>4. \A n \in Polls : n > 1 => guest'[stack[n].who] = "busy"
  BY <1>1, OthersAreBusy
<1> HIDE DEF NoInput
<1> QED
  BY <1>1, <1>2, <1>3, <1>4, QuietHeard

LEMMA SpawnHeard ==
    ASSUME TasksInv, TasksInv', HaltInv, NEW p \in Guests, Spawn(p)
    PROVE  HaltInv'
<1>1. PICK q \in Programs, i \in KSlots :
        /\ guest[q] = "unborn" /\ slot[i] = "none"
        /\ slot' = [slot EXCEPT ![i] = "running"] /\ prog' = [prog EXCEPT ![i] = q]
        /\ guest' = [guest EXCEPT ![q] = "busy"]
  BY SpawnFacts
<1>2. /\ slot \in [KSlots -> {"none", "running", "polling", "done"}] /\ prog \in [KSlots -> Guests]
      /\ guest \in [Guests -> {"unborn", "busy", "wait", "read", "sleep", "gone"}]
      /\ q \in Guests /\ WakesTyped /\ Turn(p)
  BY RootIsAGuest DEF TasksInv, TasksTyped, HaltInv, Spawn, Executes
<1>3. /\ UNCHANGED <<curParent, wakers, inputEdge, rung, stack, at>>
      /\ NoInput /\ rxRing' \in Seq({Key, CtrlC}) /\ waitsOn' = waitsOn /\ waitsOn' \in [Guests -> SlotOrNone]
  BY <1>2 DEF Spawn, input, NoInput, WakesTyped
<1>4. \A r \in Guests : Waiting(r)' => r # q /\ guest'[r] = guest[r] /\ waitsOn'[r] = waitsOn[r]
  BY <1>1, <1>2, <1>3 DEF Waiting
<1>5. \A n \in Polls : n > 1 => guest'[stack[n].who] = "busy"
  BY <1>1, <1>2, OthersAreBusy
<1>6. /\ \A j \in KSlots : slot'[j] = "done" => slot[j] = "done"
      /\ \A r \in Programs : Waiting(r)' => \A j \in KSlots :
               slot'[j] = "running" /\ prog'[j] = r <=> slot[j] = "running" /\ prog[j] = r
  BY <1>1, <1>2, <1>4, RootIsAGuest
<1> HIDE DEF NoInput
<1> QED
  BY <1>2, <1>3, <1>4, <1>5, <1>6, QuietHeard

LEMMA DropHeard ==
    ASSUME TasksInv, TasksInv', HaltInv, NEW p \in Guests, NEW i \in KSlots, DropHandle(p, i)
    PROVE  HaltInv'
<1>1. /\ slot' = [slot EXCEPT ![i] = "none"] /\ prog' = [prog EXCEPT ![i] = NoTask]
      /\ guest' = [guest EXCEPT ![prog[i]] = IF slot[i] = "running" THEN "gone" ELSE @] /\ Turn(p)
  BY DEF DropHandle, Executes
<1>2. /\ slot \in [KSlots -> {"none", "running", "polling", "done"}] /\ prog \in [KSlots -> Guests]
      /\ guest \in [Guests -> {"unborn", "busy", "wait", "read", "sleep", "gone"}] /\ WakesTyped
  BY DEF TasksInv, TasksTyped, HaltInv
<1>3. /\ UNCHANGED <<curParent, wakers, inputEdge, rung, stack, at>>
      /\ NoInput /\ rxRing' \in Seq({Key, CtrlC}) /\ waitsOn' = waitsOn /\ waitsOn' \in [Guests -> SlotOrNone]
  BY <1>2 DEF DropHandle, input, NoInput, WakesTyped
<1>4. /\ \A r \in Guests : Waiting(r)' => guest'[r] = guest[r] /\ waitsOn'[r] = waitsOn[r]
      /\ \A r \in Guests : Waiting(r)' /\ slot[i] = "running" => prog[i] # r
  BY <1>1, <1>2, <1>3 DEF Waiting
<1>5. ASSUME NEW n \in Polls, n > 1 PROVE guest'[stack[n].who] = "busy"
  <2>1. slot[i] = "running" => prog[i] # stack[n].who
    BY DEF TasksInv, PolledOnce
  <2> QED
    BY <1>1, <1>2, <1>5, <2>1, OthersAreBusy
<1>6. /\ \A j \in KSlots : slot'[j] = "done" => slot[j] = "done"
      /\ \A r \in Programs : Waiting(r)' => \A j \in KSlots :
               slot'[j] = "running" /\ prog'[j] = r <=> slot[j] = "running" /\ prog[j] = r
  BY <1>1, <1>2, <1>4, RootIsAGuest
<1> HIDE DEF NoInput
<1> QED
  BY <1>1, <1>3, <1>4, <1>5, <1>6, QuietHeard

\* The idle loop, the clock and the interrupt.
LEMMA IdleHeard ==
    ASSUME TasksInv, TasksInv', HaltInv,
           \/ ParkGate \/ Halt \/ WakeOnEvent \/ WakeOnMaintenance
           \/ \E k \in {Key, CtrlC} : KeyArrives(k)
           \/ \E p \in Guests : DeadlinePasses(p)
    PROVE  HaltInv'
<1>1. /\ UNCHANGED <<registry, curParent, waitWakers, completionRung, passWakers, guest, waitsOn, stack>>
      /\ rung \subseteq rung' /\ idleWakers \subseteq idleWakers' \cup rung'
  BY DEF ParkGate, Halt, WakeOnEvent, WakeOnMaintenance, KeyArrives, DeadlinePasses, WakeIdle, guests, wakers
<1>2. inputEdge => inputEdge' \/ idleWakers \subseteq rung'
  BY DEF ParkGate, Halt, WakeOnEvent, WakeOnMaintenance, KeyArrives, DeadlinePasses, WakeIdle, input
<1>3. /\ inputEdge' \/ NoInput
      /\ rxRing' \in Seq({Key, CtrlC})
  <2>1. rxRing \in Seq({Key, CtrlC})
    BY DEF HaltInv, WakesTyped
  <2>2. rxRing' = rxRing \/ (inputEdge' /\ \E k \in {Key, CtrlC} : rxRing' = Append(rxRing, k))
    BY DEF ParkGate, Halt, WakeOnEvent, WakeOnMaintenance, KeyArrives, DeadlinePasses, input
  <2> QED
    BY <2>1, <2>2 DEF NoInput
<1>4. at' = at \/ (at \in {"idle", "masked", "halted", "ending"} /\ at' \in {"root", "masked", "halted", "ending"})
  BY DEF ParkGate, Halt, WakeOnEvent, WakeOnMaintenance, KeyArrives, DeadlinePasses
<1>5. HaltIsGated'
  <2>1. HaltIsGated
    BY DEF HaltInv
  <2>2. CASE ParkGate
    BY <2>1, <2>2 DEF ParkGate, HaltIsGated
  <2>3. CASE Halt
    BY <2>1, <2>3 DEF Halt, HaltIsGated, MaskedCheck
  <2>4. CASE WakeOnEvent \/ WakeOnMaintenance
    BY <2>1, <2>4 DEF WakeOnEvent, WakeOnMaintenance, HaltIsGated
  <2>5. CASE \E k \in {Key, CtrlC} : KeyArrives(k)
    BY <2>1, <2>5 DEF KeyArrives, HaltIsGated, wakers
  <2>6. CASE \E p \in Guests : DeadlinePasses(p)
    BY <2>1, <2>6 DEF DeadlinePasses, HaltIsGated, wakers, input
  <2> QED
    BY <2>2, <2>3, <2>4, <2>5, <2>6
<1>6. WakesTyped'
  BY <1>1, <1>3 DEF HaltInv, WakesTyped
<1>7. \A n \in Polls : n > 1 => guest'[stack[n].who] = "busy"
  BY <1>1, OthersAreBusy
<1>8. \A q \in Guests : Registered(q) => Registered(q)'
  BY <1>1 DEF Registered, registry
<1>9. slot' = slot /\ prog' = prog
  BY <1>1 DEF registry
<1> HIDE DEF NoInput, WakesTyped, HaltIsGated
<1> QED
  BY <1>1, <1>2, <1>3, <1>4, <1>5, <1>6, <1>7, <1>8, <1>9, StillKeeps


----------------------------------------------------------------------------
(* The stack changes.                                                      *)

\* A future pends: what it waits for has not arrived, and stays announced.
LEMMA ParkHeard ==
    ASSUME TasksInv, TasksInv', HaltInv, NEW p, NEW how \in {"wait", "read", "sleep"}, Turn(p), Parked(p, how),
           UNCHANGED <<registry, curParent, completionRung, passWakers, input, rung, at>>,
           waitWakers' \in [KSlots -> SUBSET Guests], \A i \in KSlots : waitWakers[i] \subseteq waitWakers'[i],
           waitsOn' \in [Guests -> SlotOrNone], \A q \in Guests : q # p => waitsOn'[q] = waitsOn[q],
           how = "read" => p # 0 /\ rxRing = <<>>,
           how = "wait" => Registered(p)' /\ (p # 0 => CtrlC \notin ToSet(rxRing))
    PROVE  HaltInv'
<1>1. /\ stack \in Seq(Frames) /\ Len(stack) \in Nat \ {0} /\ stack # <<>> /\ Top = stack[1] /\ stack[1] \in Frames
      /\ stack[1].kind = "poll" /\ stack[1].who = p /\ 1 \in Polls /\ p \in Guests
      /\ \A n \in Polls : n # 1 => stack[n].who # p /\ n \in 2 .. Len(stack)
      /\ \A i \in KSlots : slot[i] = "running" => prog[i] # p
  BY TurnFacts
<1>2. PICK f : f = [stack[1] EXCEPT !.go = FALSE]
  OBVIOUS
<1>3. f \in Frames /\ Same(f, stack[1]) /\ stack' = <<f>> \o Tail(stack)
  BY <1>1, <1>2, FrameKinds DEF Parked, Same, Like
<1>4. /\ stack' # <<>> /\ Len(stack') = Len(stack) /\ stack'[1] = f
      /\ \A n \in 2 .. Len(stack) : stack'[n] = stack[n]
  BY <1>1, <1>3, Retopped
<1>5. \A n \in 1 .. Len(stack) : Same(stack'[n], stack[n])
  <2> SUFFICES ASSUME NEW n \in 1 .. Len(stack) PROVE Same(stack'[n], stack[n])
    OBVIOUS
  <2>1. n = 1 \/ n \in 2 .. Len(stack)
    BY <1>1
  <2> QED
    BY <1>3, <1>4, <2>1 DEF Same
<1>6. /\ guest \in [Guests -> {"unborn", "busy", "wait", "read", "sleep", "gone"}] /\ WakesTyped
      /\ guest' = [guest EXCEPT ![p] = how] /\ idleWakers' = idleWakers \cup {p}
      /\ slot' = slot /\ prog' = prog /\ at' = at /\ at \in {"pass", "root"}
  BY <1>1 DEF TasksInv, TasksTyped, HaltInv, Parked, registry, ExecutorFits
<1>7. \A q : q # p => (Going(q) => Going(q)') /\ (OnStack(q) => OnStack(q)')
  <2>1. ASSUME NEW n \in Polls, stack[n].who # p
        PROVE  /\ n + 0 \in 1 .. Len(stack') /\ stack'[n + 0].kind = "poll"
               /\ stack'[n + 0].who = stack[n].who /\ stack'[n + 0].go = stack[n].go
    <3>1. n \in 2 .. Len(stack) /\ n + 0 = n
      BY <1>1, <2>1
    <3> QED
      BY <1>1, <1>4, <3>1 DEF Polls
  <2>2. /\ 0 \in Int
        /\ \A n \in Polls : stack[n].who # p =>
              /\ n + 0 \in 1 .. Len(stack') /\ stack'[n + 0].kind = "poll"
              /\ stack'[n + 0].who = stack[n].who /\ stack'[n + 0].go = stack[n].go
    BY <2>1
  <2> QED
    BY <2>2, PollsStay
<1>8. OnStack(p)'
  BY <1>1, <1>3, <1>4 DEF OnStack, Polls, Same
<1>9. ExecutorFits'
  <2>1. ASSUME NEW n \in Frame PROVE FrameSits(n)'
    <3>1. FrameSits(n) /\ FrameFits(n) /\ n \in Nat /\ n \in 1 .. Len(stack)
      BY StackFacts DEF HaltInv, ExecutorFits, Frame
    <3>2. n # Len(stack) => Same(stack'[n + 1], stack[n + 1])
      <4>1. n # Len(stack) => n + 1 \in 1 .. Len(stack)
        BY <1>1, <3>1
      <4> QED
        BY <1>5, <4>1
    <3>3. stack[n].kind = "poll" /\ n > 1 => guest'[stack[n].who] = "busy"
      <4>1. stack[n].kind = "poll" => n \in Polls
        BY <3>1 DEF Polls
      <4>2. n > 1 /\ n \in Polls => stack[n].who # p
        BY <1>1, <3>1
      <4> QED
        BY <1>6, <4>1, <4>2, OthersAreBusy
    <3> QED
      BY <1>4, <1>5, <3>1, <3>2, <3>3, FrameSitsStill
  <2>2. Same(Bottom', Bottom) /\ Same(stack'[1], stack[1])
    <3>1. Len(stack) \in 1 .. Len(stack) /\ 1 \in 1 .. Len(stack)
      BY <1>1
    <3> QED
      BY <1>4, <1>5, <3>1 DEF Bottom
  <2>3. Frame' = Frame /\ curParent' = curParent /\ ExecutorFits
    BY <1>4 DEF Frame, HaltInv
  <2> QED
    BY <1>1, <1>4, <1>6, <2>1, <2>2, <2>3 DEF ExecutorFits, Same
<1>10. WakesTyped'
  BY <1>6 DEF WakesTyped, input
<1>11. \A q \in Guests : q # p /\ Registered(q) => Registered(q)'
  BY <1>6 DEF Registered
<1>12. RootIsHeard'
  <2>1. RootIsHeard /\ 0 \in Guests
    BY RootIsAGuest DEF HaltInv, AllAreHeard
  <2>2. CASE p = 0
    BY <1>6, <2>1, <2>2 DEF RootIsHeard
  <2>3. CASE p # 0
    BY <1>1, <1>6, <1>7, <1>11, <2>1, <2>3 DEF RootIsHeard
  <2> QED
    BY <2>2, <2>3
<1>13. ASSUME NEW q \in Programs PROVE Heard(q)'
  <2>1. q \in Guests /\ Heard(q)
    BY RootIsAGuest DEF HaltInv, AllAreHeard
  <2>2. CASE q = p
    <3>1. guest'[q] = how /\ q \in idleWakers' /\ rxRing' = rxRing /\ p # 0
      BY <1>6, <2>1, <2>2, RootIsAGuest DEF input
    <3>2. ~Owed(q)'
      BY <2>2, <3>1 DEF Owed
    <3> QED
      BY <2>2, <3>1, <3>2 DEF Heard
  <2>3. CASE q # p
    <3>1. /\ guest'[q] = guest[q] /\ waitsOn'[q] = waitsOn[q] /\ (Woken(q) => Woken(q)')
          /\ q \in idleWakers => q \in idleWakers' \cup rung'
          /\ inputEdge => inputEdge' \/ (q \in idleWakers => q \in rung')
          /\ inputEdge' \/ NoInput
          /\ Registered(q) /\ guest'[q] = "wait" => Registered(q)' \/ q \in rung'
      BY <1>6, <1>7, <1>11, <2>1, <2>3 DEF Woken, input, NoInput
    <3> QED
      BY <2>1, <3>1, HeardKeeps
  <2> QED
    BY <2>2, <2>3
<1>14. InRegistry'
  <2> SUFFICES ASSUME NEW q \in Programs, Waiting(q)', q # p
               PROVE  OnStack(q)' \/ \E i \in KSlots : slot[i] = "running" /\ prog[i] = q
    BY <1>6, <1>8 DEF InRegistry
  <2>1. Waiting(q)
    BY <1>6, RootIsAGuest DEF Waiting
  <2> QED
    BY <1>7, <2>1 DEF HaltInv, InRegistry
<1>15. PassVisits'
  <2> SUFFICES ASSUME NEW i \in KSlots, slot[i] = "running", guest'[prog[i]] \in {"wait", "read"}
               PROVE  prog[i] \in passWakers \/ at = "root" \/ (at = "pass" /\ Bottom'.next <= i)
    BY <1>6 DEF PassVisits, Waiting
  <2>1. Waiting(prog[i])
    BY <1>1, <1>6 DEF Waiting, TasksInv, TasksTyped
  <2>2. at = "pass" => Bottom' = Bottom
    <3>1. at = "pass" => Len(stack) # 1
      BY <1>1 DEF HaltInv, ExecutorFits, Bottom
    <3>2. Len(stack) # 1 => Len(stack) \in 2 .. Len(stack)
      <4>1. PICK l \in Nat \ {0} : l = Len(stack)
        BY <1>1
      <4>2. l # 1 => l \in 2 .. l
        OBVIOUS
      <4> QED
        BY <4>1, <4>2
    <3> QED
      BY <1>4, <3>1, <3>2 DEF Bottom
  <2> QED
    BY <1>1, <1>6, <2>1, <2>2 DEF HaltInv, PassVisits
<1>16. HaltIsGated'
  BY <1>6 DEF HaltIsGated
<1> QED
  BY <1>9, <1>10, <1>12, <1>13, <1>14, <1>15, <1>16 DEF HaltInv, AllAreHeard

\* A poll on top of the stack is marked by CURRENT_PARENT.
LEMMA TurnIsMarked ==
    ASSUME TasksInv, HaltInv, NEW p, Turn(p)
    PROVE  curParent = stack[1].slot /\ (p = 0 <=> curParent = NoTask)
<1>1. stack # <<>> /\ stack[1].kind = "poll" /\ stack[1].who = p /\ 1 \in Frame
  BY TurnFacts DEF Frame
<1> QED
  BY <1>1 DEF HaltInv, ExecutorFits, FrameSits

LEMMA ParksHeard ==
    ASSUME TasksInv, TasksInv', HaltInv, ~RootIsConsole, NEW p \in Guests,
           ReadParks(p) \/ SleepParks(p) \/ \E i \in KSlots : WaitParks(p, i)
    PROVE  HaltInv'
<1>1. /\ WakesTyped /\ Turn(p)
  BY DEF HaltInv, ReadParks, SleepParks, WaitParks, Reads, Waits, Executes, Repolls
<1>2. CASE ReadParks(p)
  <2>1. p # 0
    BY <1>2 DEF ReadParks, Reads, Repolls, HaltInv, AllAreHeard, RootIsHeard
  <2>2. /\ Parked(p, "read") /\ rxRing = <<>> /\ waitWakers' = waitWakers /\ waitsOn' = waitsOn
        /\ UNCHANGED <<registry, curParent, completionRung, passWakers, input, rung, at>>
    BY <1>2 DEF ReadParks
  <2> QED
    BY <1>1, <2>1, <2>2, ParkHeard DEF WakesTyped
<1>3. CASE SleepParks(p)
  <2>1. /\ Parked(p, "sleep") /\ waitWakers' = waitWakers /\ waitsOn' = waitsOn
        /\ UNCHANGED <<registry, curParent, completionRung, passWakers, input, rung, at>>
    BY <1>3 DEF SleepParks
  <2> QED
    BY <1>1, <2>1, ParkHeard DEF WakesTyped
<1>4. ASSUME NEW i \in KSlots, WaitParks(p, i) PROVE HaltInv'
  <2>1. /\ Parked(p, "wait") /\ waitWakers' = [waitWakers EXCEPT ![i] = @ \cup {p}] /\ waitsOn' = [waitsOn EXCEPT ![p] = i]
        /\ UNCHANGED <<registry, curParent, completionRung, passWakers, input, rung, at>>
        /\ Live(i) /\ ~Interrupted
    BY <1>4 DEF WaitParks
  <2>2. /\ waitWakers' \in [KSlots -> SUBSET Guests] /\ \A j \in KSlots : waitWakers[j] \subseteq waitWakers'[j]
        /\ waitsOn' \in [Guests -> SlotOrNone] /\ \A q \in Guests : q # p => waitsOn'[q] = waitsOn[q]
        /\ waitsOn'[p] = i /\ p \in waitWakers'[i]
    BY <1>1, <2>1 DEF WakesTyped, SlotOrNone
  <2>3. Registered(p)'
    BY <2>1, <2>2 DEF Registered, Live, registry
  <2>4. p # 0 => CtrlC \notin ToSet(rxRing)
    BY <1>1, <2>1, TurnIsMarked DEF Interrupted, Consumes
  <2> QED
    BY <1>1, <2>1, <2>2, <2>3, <2>4, ParkHeard
<1> QED
  BY <1>2, <1>3, <1>4


\* The host functions but compile.
LEMMA CallsHeard ==
    ASSUME TasksInv, TasksInv', HaltInv, ~RootIsConsole, NEW p \in Guests, HostCall(p), ~Compile(p)
    PROVE  HaltInv'
<1>1. CASE Spawn(p)
  BY <1>1, SpawnHeard
<1>2. ASSUME NEW i \in KSlots, DropHandle(p, i) PROVE HaltInv'
  BY <1>2, DropHeard
<1>3. CASE ReadParks(p) \/ SleepParks(p) \/ \E i \in KSlots : WaitParks(p, i)
  BY <1>3, ParksHeard
<1>4. WakesTyped
  BY DEF HaltInv
<1>5. CASE ReadTakes(p)
  <2>1. /\ Turn(p) /\ guest' = [guest EXCEPT ![p] = "busy"] /\ waitsOn' = waitsOn
        /\ UNCHANGED <<registry, curParent, wakers, inputEdge, rung, stack, at>>
    BY <1>5 DEF ReadTakes, Reads, Executes, Repolls
  <2>2. rxRing' \in Seq({Key, CtrlC}) /\ NoInput
    <3>1. rxRing \in Seq({Key, CtrlC}) /\ rxRing # <<>> /\ rxRing' = Tail(rxRing)
      BY <1>4, <1>5 DEF WakesTyped, ReadTakes
    <3>2. 1 \in 1 .. Len(rxRing) /\ rxRing' = SubSeq(rxRing, 1 + 1, Len(rxRing))
      BY <3>1
    <3> QED
      BY <3>1, <3>2, RingShrinks
  <2> QED
    BY <2>1, <2>2, GoesOn
<1>6. CASE SleepEnds(p)
  <2>1. /\ Turn(p) /\ guest' = [guest EXCEPT ![p] = "busy"] /\ waitsOn' = waitsOn
        /\ UNCHANGED <<registry, curParent, wakers, inputEdge, rung, stack, at>>
        /\ NoInput /\ rxRing' \in Seq({Key, CtrlC})
    BY <1>4, <1>6 DEF SleepEnds, Repolls, input, NoInput, WakesTyped
  <2> QED
    BY <2>1, GoesOn
<1>7. ASSUME NEW i \in KSlots, WaitReturns(p, i) PROVE HaltInv'
  <2>1. /\ Turn(p) /\ guest' = [guest EXCEPT ![p] = "busy"] /\ waitsOn' = [waitsOn EXCEPT ![p] = NoTask]
        /\ UNCHANGED <<registry, curParent, wakers, inputEdge, rung, stack, at>>
        /\ NoInput /\ rxRing' \in Seq({Key, CtrlC})
    BY <1>4, <1>7 DEF WaitReturns, Waits, Executes, Repolls, input, NoInput, WakesTyped
  <2> QED
    BY <2>1, GoesOn
<1>8. ASSUME NEW i \in KSlots, Kill(p, i) PROVE HaltInv'
  <2>1. /\ Turn(p) /\ KillTree(p, i) /\ waitsOn' = waitsOn /\ waitsOn \in [Guests -> SlotOrNone]
        /\ UNCHANGED <<prog, parents, curParent, idleWakers, passWakers, inputEdge, stack, at>>
        /\ NoInput /\ rxRing' \in Seq({Key, CtrlC})
    BY <1>4, <1>8 DEF Kill, Executes, input, NoInput, WakesTyped
  <2> QED
    BY <2>1, KillHeard
<1>9. ASSUME NEW i \in KSlots, WaitIsInterrupted(p, i) PROVE HaltInv'
  <2>1. /\ Turn(p) /\ KillTree(p, i) /\ waitsOn' = [waitsOn EXCEPT ![p] = NoTask] /\ waitsOn \in [Guests -> SlotOrNone]
        /\ UNCHANGED <<prog, parents, curParent, idleWakers, passWakers, inputEdge, stack, at>>
    BY <1>4, <1>9 DEF WaitIsInterrupted, Waits, Executes, Repolls, WakesTyped
  <2>2. rxRing' \in Seq({Key, CtrlC}) /\ NoInput
    <3>1. rxRing \in Seq({Key, CtrlC}) /\ CtrlC \in ToSet(rxRing)
      BY <1>4, <1>9 DEF WakesTyped, WaitIsInterrupted, Interrupted
    <3>2. PICK S : S = {n \in 1 .. Len(rxRing) : rxRing[n] = CtrlC}
      OBVIOUS
    <3>3. S \in SUBSET Nat /\ S # {} /\ S \subseteq 1 .. Len(rxRing)
      BY <3>1, <3>2 DEF ToSet
    <3>4. PICK k : k = Min(S)
      OBVIOUS
    <3>5. k \in 1 .. Len(rxRing)
      BY <3>3, <3>4, FirstPosition
    <3>6. rxRing' = SubSeq(rxRing, k + 1, Len(rxRing))
      BY <1>9, <3>2, <3>4 DEF WaitIsInterrupted
    <3> QED
      BY <3>1, <3>5, <3>6, RingShrinks
  <2>3. waitsOn' \in [Guests -> SlotOrNone] /\ \A q \in Guests : q # p => waitsOn'[q] = waitsOn[q]
    BY <2>1 DEF SlotOrNone
  <2> QED
    BY <2>1, <2>2, <2>3, KillHeard
<1> QED
  BY <1>1, <1>2, <1>3, <1>5, <1>6, <1>7, <1>8, <1>9 DEF HostCall

\* The root is polled: a wake that was rung for it becomes the poll's.
LEMMA PollRootHeard ==
    ASSUME TasksInv, TasksInv', HaltInv, PollRoot
    PROVE  HaltInv'
<1>1. /\ stack = <<>> /\ at = "root" /\ at' = "root" /\ rung' = rung \ {0} /\ curParent' = curParent /\ curParent = NoTask
      /\ UNCHANGED <<slot, prog, wakers, input, guest, waitsOn>> /\ 0 \in Guests
  BY RootIsAGuest DEF PollRoot, registry, guests, HaltInv, ExecutorFits
<1>2. PICK f : stack' = <<f>> /\ f = Poll(0, NoTask)
  BY DEF PollRoot
<1>3. /\ f.kind = "poll" /\ f.who = 0 /\ f.slot = NoTask /\ (guest[0] = "busy" \/ 0 \in rung => f.go)
      /\ stack' # <<>> /\ Len(stack') = 1 /\ stack'[1] = f
  BY <1>2 DEF Poll
<1>4. Polls = {} /\ Polls' = {1} /\ \A p : ~Going(p) /\ ~OnStack(p)
  BY <1>1, <1>3 DEF Polls, Going, OnStack
<1>5. ExecutorFits'
  BY <1>1, <1>3 DEF ExecutorFits, FrameSits, Bottom, Frame
<1>6. WakesTyped' /\ HaltIsGated' /\ PassVisits'
  BY <1>1 DEF HaltInv, WakesTyped, HaltIsGated, PassVisits, wakers, input
<1>7. \A p : Registered(p) <=> Registered(p)'
  BY <1>1 DEF Registered, wakers
<1>8. RootIsHeard'
  <2>1. 0 \in rung => Going(0)'
    BY <1>3, <1>4 DEF Going
  <2> QED
    BY <1>1, <1>4, <1>7, <2>1 DEF HaltInv, AllAreHeard, RootIsHeard
<1>9. ASSUME NEW p \in Programs PROVE Heard(p)'
  <2>1. p # 0 /\ Heard(p)
    BY RootIsAGuest DEF HaltInv, AllAreHeard
  <2>2. /\ guest'[p] = guest[p] /\ waitsOn'[p] = waitsOn[p] /\ (Woken(p) => Woken(p)')
        /\ p \in idleWakers => p \in idleWakers' \cup rung'
        /\ inputEdge => inputEdge' \/ (p \in idleWakers => p \in rung')
        /\ inputEdge' \/ NoInput
        /\ Registered(p) /\ guest'[p] = "wait" => Registered(p)' \/ p \in rung'
    BY <1>1, <1>4, <1>7, <2>1 DEF Woken, wakers, input, NoInput
  <2> QED
    BY <2>1, <2>2, HeardKeeps
<1>10. InRegistry'
  BY <1>1, <1>4 DEF HaltInv, InRegistry, Waiting
<1> QED
  BY <1>5, <1>6, <1>8, <1>9, <1>10 DEF HaltInv, AllAreHeard

\* The session's pass begins at the first slot.
LEMMA BeginPassHeard ==
    ASSUME TasksInv, TasksInv', HaltInv, BeginPass
    PROVE  HaltInv'
<1>1. /\ stack = <<>> /\ at = "pass" /\ at' = "pass" /\ curParent' = curParent /\ curParent = NoTask
      /\ UNCHANGED <<slot, prog, waitWakers, completionRung, idleWakers, timer, input, guest, waitsOn, rung>>
  BY DEF BeginPass, registry, guests, HaltInv, ExecutorFits
<1>2. PICK f : stack' = <<f>> /\ f = Pass(TRUE)
  BY DEF BeginPass
<1>3. f.kind = "pass" /\ f.next = 1 /\ stack' # <<>> /\ Len(stack') = 1 /\ stack'[1] = f
  BY <1>2 DEF Pass
<1>4. Polls = {} /\ \A p : ~Going(p) /\ ~OnStack(p)
  BY <1>1 DEF Polls, Going, OnStack
<1>5. ExecutorFits'
  BY <1>1, <1>3 DEF ExecutorFits, FrameSits, Bottom, Frame
<1>6. WakesTyped' /\ HaltIsGated'
  BY <1>1 DEF HaltInv, WakesTyped, HaltIsGated, input
<1>7. \A p : Registered(p) <=> Registered(p)'
  BY <1>1 DEF Registered
<1>8. RootIsHeard'
  BY <1>1, <1>4, <1>7 DEF HaltInv, AllAreHeard, RootIsHeard
<1>9. ASSUME NEW p \in Programs PROVE Heard(p)'
  <2>1. Heard(p)
    BY DEF HaltInv, AllAreHeard
  <2>2. /\ guest'[p] = guest[p] /\ waitsOn'[p] = waitsOn[p] /\ (Woken(p) => Woken(p)')
        /\ p \in idleWakers => p \in idleWakers' \cup rung'
        /\ inputEdge => inputEdge' \/ (p \in idleWakers => p \in rung')
        /\ inputEdge' \/ NoInput
        /\ Registered(p) /\ guest'[p] = "wait" => Registered(p)' \/ p \in rung'
    BY <1>1, <1>4, <1>7 DEF Woken, input, NoInput
  <2> QED
    BY <2>1, <2>2, HeardKeeps
<1>10. InRegistry'
  BY <1>1, <1>4 DEF HaltInv, InRegistry, Waiting
<1>11. PassVisits'
  <2>1. Bottom'.next = 1 /\ \A i \in KSlots : 1 <= i
    BY <1>3 DEF Bottom, KSlots
  <2> QED
    BY <1>1, <2>1 DEF PassVisits
<1> QED
  BY <1>5, <1>6, <1>8, <1>9, <1>10, <1>11 DEF HaltInv, AllAreHeard


\* The session's pass ends: it has visited every slot, and a completion that
\* rang the root keeps the loop hot.
LEMMA EndPassHeard ==
    ASSUME TasksInv, TasksInv', HaltInv, EndPass
    PROVE  HaltInv'
<1>1. /\ stack # <<>> /\ Top = stack[1] /\ stack[1].kind = "pass" /\ Len(stack) = 1 /\ Bottom = stack[1] /\ stack[1] \in Frames
      /\ stack' = <<>> /\ curParent' = curParent /\ ~completionRung'
      /\ UNCHANGED <<slot, prog, waitWakers, passWakers, rxRing, guest, waitsOn>>
  BY StackFacts DEF EndPass, In, registry, guests, Bottom
<1>2. stack[1].next \in Nat
  BY <1>1, PassFrames
<1>3. Polls = {} /\ \A p : ~Going(p) /\ ~OnStack(p)
  BY <1>1 DEF Polls, Going, OnStack
<1>4. at = "pass" /\ (at' = "root" \/ (at' = "idle" /\ ~completionRung))
  BY <1>1 DEF HaltInv, ExecutorFits, EndPass, PassIsHot
<1>5. /\ rung \subseteq rung' /\ idleWakers \subseteq idleWakers' \cup rung'
      /\ inputEdge => inputEdge' \/ idleWakers \subseteq rung'
  <2> PICK wakes : wakes = (PassIsHot /\ (timer \cap due # {} \/ inputEdge))
    OBVIOUS
  <2>1. IF wakes THEN WakeIdle ELSE UNCHANGED <<rung, idleWakers, inputEdge>>
    BY DEF EndPass
  <2> QED
    BY <2>1 DEF WakeIdle
<1>6. ExecutorFits'
  BY <1>1 DEF HaltInv, ExecutorFits, Frame
<1>7. WakesTyped' /\ HaltIsGated'
  BY <1>1, <1>4 DEF HaltInv, WakesTyped, HaltIsGated
<1>8. \A p : Registered(p) <=> Registered(p)'
  BY <1>1 DEF Registered
<1>9. RootIsHeard'
  BY <1>1, <1>3, <1>4, <1>5, <1>8 DEF HaltInv, AllAreHeard, RootIsHeard
<1>10. ASSUME NEW p \in Programs PROVE Heard(p)'
  <2>1. Heard(p)
    BY DEF HaltInv, AllAreHeard
  <2>2. /\ guest'[p] = guest[p] /\ waitsOn'[p] = waitsOn[p] /\ (Woken(p) => Woken(p)')
        /\ p \in idleWakers => p \in idleWakers' \cup rung'
        /\ inputEdge => inputEdge' \/ (p \in idleWakers => p \in rung')
        /\ inputEdge' \/ NoInput
        /\ Registered(p) /\ guest'[p] = "wait" => Registered(p)' \/ p \in rung'
    BY <1>1, <1>3, <1>5, <1>8 DEF Woken, NoInput
  <2> QED
    BY <2>1, <2>2, HeardKeeps
<1>11. InRegistry'
  BY <1>1, <1>3 DEF HaltInv, InRegistry, Waiting
<1>12. PassVisits'
  <2>1. \A i \in KSlots : slot[i] = "running" => i \in Nat /\ ~(i >= stack[1].next)
    BY <1>1 DEF EndPass, NextRunnable, KSlots
  <2>2. \A i \in KSlots : slot[i] = "running" => ~(stack[1].next <= i)
    BY <1>2, <2>1
  <2> QED
    BY <1>1, <1>4, <2>2 DEF HaltInv, PassVisits, Waiting
<1> QED
  BY <1>6, <1>7, <1>9, <1>10, <1>11, <1>12 DEF HaltInv, AllAreHeard

\* The root's poll ends; only a completion has rung it since.
LEMMA RootEndsHeard ==
    ASSUME TasksInv, TasksInv', HaltInv, RootPends \/ RootExits
    PROVE  HaltInv'
<1>1. Turn(0) /\ (guest[0] = "busy" \/ ~Top.go) /\ (RootExits => guest[0] = "busy") /\ 0 \in Guests
  BY RootIsAGuest DEF RootPends, RootExits, Executes
<1>2. /\ stack # <<>> /\ Top = stack[1] /\ stack[1].kind = "poll" /\ stack[1].who = 0
      /\ Len(stack) = 1 /\ Polls = {1}
  <2>1. /\ stack # <<>> /\ Top = stack[1] /\ stack[1].kind = "poll" /\ stack[1].who = 0 /\ FrameFits(1)
    BY <1>1, TurnFacts, StackFacts
  <2>2. Len(stack) = 1
    BY <2>1 DEF FrameFits
  <2> QED
    BY <2>1, <2>2 DEF Polls
<1>3. curParent = NoTask /\ at = "root" /\ curParent' = curParent
  BY <1>1, <1>2, TurnIsMarked DEF HaltInv, ExecutorFits, Bottom, RootPends, RootExits
<1>4. /\ stack' = <<>> /\ at' \in {"pass", "over"}
      /\ UNCHANGED <<slot, prog, waitWakers, completionRung, idleWakers, input, waitsOn, rung>>
      /\ guest' = guest \/ guest' = [guest EXCEPT ![0] = "gone"]
      /\ RootPends => guest' = guest
  BY DEF RootPends, RootExits, registry, guests, wakers
<1>5. \A p \in Programs : guest'[p] = guest[p] /\ ~Going(p) /\ ~OnStack(p) /\ p \in Guests /\ p # 0
  BY <1>2, <1>4, RootIsAGuest DEF Going, OnStack, TasksInv, TasksTyped
<1>6. ExecutorFits' /\ WakesTyped' /\ HaltIsGated'
  BY <1>3, <1>4 DEF HaltInv, ExecutorFits, WakesTyped, HaltIsGated, Frame, input
<1>7. \A p : Registered(p) <=> Registered(p)'
  BY <1>4 DEF Registered
<1>8. RootIsHeard'
  <2>1. CASE RootPends
    <3>1. guest[0] = "wait" => ~Going(0)
      BY <1>1, <1>2 DEF Going
    <3> QED
      BY <1>2, <1>4, <1>7, <2>1, <3>1 DEF HaltInv, AllAreHeard, RootIsHeard
  <2>2. CASE RootExits
    <3>1. guest'[0] = "gone"
      BY <1>1, <2>2 DEF RootExits, TasksInv, TasksTyped
    <3> QED
      BY <3>1 DEF RootIsHeard
  <2> QED
    BY <2>1, <2>2
<1>9. ASSUME NEW p \in Programs PROVE Heard(p)'
  <2>1. Heard(p)
    BY DEF HaltInv, AllAreHeard
  <2>2. /\ guest'[p] = guest[p] /\ waitsOn'[p] = waitsOn[p] /\ (Woken(p) => Woken(p)')
        /\ p \in idleWakers => p \in idleWakers' \cup rung'
        /\ inputEdge => inputEdge' \/ (p \in idleWakers => p \in rung')
        /\ inputEdge' \/ NoInput
        /\ Registered(p) /\ guest'[p] = "wait" => Registered(p)' \/ p \in rung'
    BY <1>4, <1>5, <1>7 DEF Woken, input, NoInput
  <2> QED
    BY <2>1, <2>2, HeardKeeps
<1>10. InRegistry'
  BY <1>4, <1>5 DEF HaltInv, InRegistry, Waiting
<1>11. PassVisits'
  BY <1>4 DEF PassVisits
<1> QED
  BY <1>6, <1>8, <1>9, <1>10, <1>11 DEF HaltInv, AllAreHeard


\* A frame's program is on the stack; below the top it is computing.
LEMMA BelowIsBusy ==
    ASSUME TasksInv, HaltInv, NEW n \in 1 .. Len(stack), stack[n].kind = "poll", n > 1
    PROVE  guest[stack[n].who] = "busy"
BY OthersAreBusy DEF Polls

\* A compile's pass ends. If the session's root compiled, it is computing: what
\* rang it meanwhile, it need not hear.
LEMMA EndPumpHeard ==
    ASSUME TasksInv, TasksInv', HaltInv, EndPump
    PROVE  HaltInv'
<1>1. /\ Len(stack) \in Nat /\ 2 < Len(stack) /\ stack[1].kind = "pass" /\ Top = stack[1]
      /\ stack[2].kind = "pump" /\ stack[2] \in Frames /\ stack[3].kind = "poll"
      /\ stack' \in Seq(Frames) /\ Len(stack') = Len(stack) - 2
      /\ \A n \in 1 .. Len(stack) - 2 : stack'[n] = stack[n + 2]
  BY EndPumpFacts
<1>2. /\ completionRung' = (completionRung /\ ~stack[1].top) /\ curParent' = stack[2].saved /\ at' = at
      /\ UNCHANGED <<slot, prog, waitWakers, passWakers, rxRing, guest, waitsOn>>
      /\ rung' = rung \cup idleWakers
  BY <1>1 DEF EndPump, WakeIdle, registry, guests
<1>3. 1 \in 1 .. Len(stack) - 2 /\ stack' # <<>> /\ stack # <<>> /\ stack'[1] = stack[3]
      /\ 1 \in Frame /\ 2 \in Frame /\ 3 \in Frame /\ 1 # Len(stack)
  <2>1. PICK l \in Nat : l = Len(stack) /\ 2 < l
    BY <1>1
  <2>2. 1 \in 1 .. l - 2 /\ 1 \in 1 .. l /\ 2 \in 1 .. l /\ 3 \in 1 .. l /\ 1 # l /\ l - 2 # 0
    BY <2>1
  <2>3. stack'[1] = stack[1 + 2]
    BY <1>1, <2>1, <2>2
  <2> QED
    BY <1>1, <2>1, <2>2, <2>3 DEF Frame
<1>4. \A n \in 1 .. Len(stack) - 2 : n + 2 \in 1 .. Len(stack) /\ n \in Nat /\ n + 2 > 1 /\ (n = Len(stack) - 2 <=> n + 2 = Len(stack))
  BY <1>1
<1>5. at \in {"pass", "root"} /\ Bottom' = Bottom
  <2>1. Len(stack) - 2 \in 1 .. Len(stack) - 2 /\ (Len(stack) - 2) + 2 = Len(stack)
    BY <1>1
  <2> QED
    BY <1>1, <1>3, <2>1 DEF HaltInv, ExecutorFits, Bottom
<1>6. stack[2].saved = stack[3].slot /\ (stack[3].who = 0 <=> stack[3].slot = NoTask) /\ guest[stack[3].who] = "busy"
      /\ (stack[1].top => stack[2].saved = NoTask)
  <2>1. FrameSits(1) /\ FrameSits(2) /\ FrameSits(3)
    BY <1>3 DEF HaltInv, ExecutorFits
  <2>2. stack[2].saved = stack[2 + 1].slot /\ (stack[1].top => stack[1 + 1].saved = NoTask)
    BY <1>1, <1>3, <2>1 DEF FrameSits
  <2> QED
    BY <1>1, <2>1, <2>2 DEF FrameSits
<1>7. \A q : (Going(q) => Going(q)') /\ (OnStack(q) => OnStack(q)')
  <2> SUFFICES ASSUME NEW q, NEW n \in Polls, stack[n].who = q
               PROVE  OnStack(q)' /\ (stack[n].go => Going(q)')
    BY DEF Going, OnStack
  <2>1. n \in 1 .. Len(stack) /\ n # 1 /\ n # 2 /\ stack[n].kind = "poll"
    BY <1>1 DEF Polls
  <2>2. n - 2 \in 1 .. Len(stack) - 2 /\ (n - 2) + 2 = n
    BY <1>1, <2>1
  <2>3. stack'[n - 2] = stack[n]
    BY <1>1, <2>2
  <2>4. n - 2 \in Polls'
    BY <1>1, <2>1, <2>2, <2>3 DEF Polls
  <2> QED
    BY <2>3, <2>4 DEF OnStack, Going
<1>8. ExecutorFits'
  <2>1. ASSUME NEW n \in 1 .. Len(stack) - 2 PROVE FrameSits(n)'
    <3>1. n + 2 \in Frame /\ FrameSits(n + 2) /\ FrameFits(n + 2) /\ n + 2 \in Nat /\ n \in Nat /\ n + 2 > 1
      BY <1>4, StackFacts DEF HaltInv, ExecutorFits, Frame
    <3>2. Same(stack'[n], stack[n + 2])
      BY <1>1 DEF Same
    <3>3. n + 2 # Len(stack) => Same(stack'[n + 1], stack[(n + 2) + 1])
      <4>1. n + 2 # Len(stack) => n + 1 \in 1 .. Len(stack) - 2 /\ (n + 1) + 2 = (n + 2) + 1
        BY <1>1
      <4>2. n + 2 # Len(stack) => stack'[n + 1] = stack[(n + 1) + 2]
        BY <1>1, <4>1
      <4> QED
        BY <4>1, <4>2 DEF Same
    <3>4. stack[n + 2].kind = "poll" => guest'[stack[n + 2].who] = "busy"
      BY <1>2, <1>4, BelowIsBusy
    <3>5. n = Len(stack') <=> n + 2 = Len(stack)
      BY <1>1, <1>4
    <3> QED
      BY <3>1, <3>2, <3>3, <3>4, <3>5, FrameSitsStill
  <2>2. \A n \in Frame' : FrameSits(n)'
    BY <1>1, <2>1 DEF Frame
  <2> QED
    BY <1>1, <1>2, <1>3, <1>5, <1>6, <2>2 DEF HaltInv, ExecutorFits
<1>9. WakesTyped' /\ HaltIsGated'
  BY <1>2, <1>5 DEF HaltInv, WakesTyped, HaltIsGated
<1>10. \A p : Registered(p) <=> Registered(p)'
  BY <1>2 DEF Registered
<1>11. RootIsHeard'
  <2>1. CASE stack[1].top
    BY <1>2, <1>6, <2>1 DEF RootIsHeard
  <2>2. CASE ~stack[1].top
    BY <1>2, <1>3, <1>7, <1>10, <2>2 DEF HaltInv, AllAreHeard, RootIsHeard
  <2> QED
    BY <2>1, <2>2
<1>12. ASSUME NEW p \in Programs PROVE Heard(p)'
  <2>1. Heard(p)
    BY DEF HaltInv, AllAreHeard
  <2>2. /\ guest'[p] = guest[p] /\ waitsOn'[p] = waitsOn[p] /\ (Woken(p) => Woken(p)')
        /\ p \in idleWakers => p \in idleWakers' \cup rung'
        /\ inputEdge => inputEdge' \/ (p \in idleWakers => p \in rung')
        /\ inputEdge' \/ NoInput
        /\ Registered(p) /\ guest'[p] = "wait" => Registered(p)' \/ p \in rung'
    BY <1>2, <1>7, <1>10 DEF Woken, NoInput
  <2> QED
    BY <2>1, <2>2, HeardKeeps
<1>13. InRegistry' /\ PassVisits'
  BY <1>2, <1>3, <1>5, <1>7 DEF HaltInv, InRegistry, PassVisits, Waiting
<1> QED
  BY <1>8, <1>9, <1>11, <1>12, <1>13 DEF HaltInv, AllAreHeard

\* A compile's pass begins: from the root's own poll if it is marked as a top one.
LEMMA CompileHeard ==
    ASSUME TasksInv, TasksInv', HaltInv, NEW p \in Guests, Compile(p)
    PROVE  HaltInv'
<1>1. /\ Len(stack) \in Nat \ {0} /\ stack # <<>> /\ stack[1].kind = "poll" /\ stack[1].who = p /\ guest[p] = "busy"
  BY TurnFacts DEF Compile, Executes
<1>2. /\ stack' \in Seq(Frames) /\ Len(stack') = 2 + Len(stack)
      /\ stack'[1].kind = "pass" /\ stack'[1].top = (curParent = NoTask)
      /\ stack'[2].kind = "pump" /\ stack'[2].saved = curParent
      /\ \A n \in 1 .. Len(stack) : stack'[n + 2] = stack[n]
  BY CompileFacts DEF Pass, Pump
<1>3. /\ UNCHANGED <<slot, prog, curParent, waitWakers, completionRung, idleWakers, input, guest, waitsOn, rung, at>>
      /\ curParent # NoTask => passWakers' = passWakers
  BY DEF Compile, registry, guests
<1>4. /\ stack' # <<>> /\ 1 \in 1 .. Len(stack) /\ Len(stack') # 1 /\ 1 # Len(stack') /\ 2 # Len(stack') /\ stack'[3] = stack[1]
      /\ \A n \in 1 .. Len(stack) : n + 2 \in 1 .. Len(stack') /\ n \in Nat /\ (n + 2 = Len(stack') <=> n = Len(stack)) /\ n + 2 > 1
      /\ \A n \in 1 .. Len(stack') : n = 1 \/ n = 2 \/ (n - 2 \in 1 .. Len(stack) /\ (n - 2) + 2 = n)
  <2>1. PICK l \in Nat \ {0} : l = Len(stack)
    BY <1>1
  <2>2. /\ Len(stack') = 2 + l /\ 1 \in 1 .. l /\ 2 + l # 1 /\ 2 + l # 2 /\ 2 + l # 0 /\ 1 + 2 = 3
        /\ \A n \in 1 .. l : n + 2 \in 1 .. 2 + l /\ n \in Nat /\ (n + 2 = 2 + l <=> n = l) /\ n + 2 > 1
        /\ \A n \in 1 .. 2 + l : n = 1 \/ n = 2 \/ (n - 2 \in 1 .. l /\ (n - 2) + 2 = n)
    BY <1>2, <2>1
  <2>3. stack'[1 + 2] = stack[1]
    BY <1>2, <2>1, <2>2
  <2> QED
    BY <1>2, <2>1, <2>2, <2>3
<1>5. curParent = stack[1].slot /\ at \in {"pass", "root"} /\ Bottom' = Bottom
  <2>1. Len(stack) \in 1 .. Len(stack) /\ Len(stack) + 2 = Len(stack')
    BY <1>1, <1>2
  <2> QED
    BY <1>1, <1>2, <2>1 DEF HaltInv, ExecutorFits, Bottom
<1>6. \A q : (Going(q) => Going(q)') /\ (OnStack(q) => OnStack(q)')
  <2> SUFFICES ASSUME NEW q, NEW n \in Polls, stack[n].who = q
               PROVE  OnStack(q)' /\ (stack[n].go => Going(q)')
    BY DEF Going, OnStack
  <2>1. n \in 1 .. Len(stack) /\ stack[n].kind = "poll"
    BY DEF Polls
  <2>2. n + 2 \in Polls' /\ stack'[n + 2] = stack[n]
    BY <1>2, <1>4, <2>1 DEF Polls
  <2> QED
    BY <2>2 DEF OnStack, Going
<1>7. ExecutorFits'
  <2>1. ASSUME NEW n \in 1 .. Len(stack) PROVE FrameSits(n + 2)'
    <3>1. FrameSits(n) /\ FrameFits(n) /\ n \in Nat /\ n + 2 \in Nat
      BY <1>4, StackFacts DEF HaltInv, ExecutorFits, Frame
    <3>2. Same(stack'[n + 2], stack[n])
      BY <1>2 DEF Same
    <3>3. n # Len(stack) => Same(stack'[(n + 2) + 1], stack[n + 1])
      <4>1. n # Len(stack) => n + 1 \in 1 .. Len(stack) /\ (n + 1) + 2 = (n + 2) + 1
        BY <1>1
      <4>2. n # Len(stack) => stack'[(n + 1) + 2] = stack[n + 1]
        BY <1>2, <4>1
      <4> QED
        BY <4>1, <4>2 DEF Same
    <3>4. stack[n].kind = "poll" => guest'[stack[n].who] = "busy"
      <4>1. n = 1 \/ n > 1
        BY <1>1
      <4> QED
        BY <1>1, <1>3, <4>1, BelowIsBusy
    <3> QED
      BY <1>4, <3>1, <3>2, <3>3, <3>4, FrameSitsStill
  <2>2. FrameSits(1)'
    <3>1. stack'[1 + 1].saved = curParent
      BY <1>2
    <3> QED
      BY <1>2, <3>1 DEF FrameSits
  <2>3. FrameSits(2)'
    <3>1. stack'[2 + 1].slot = curParent
      BY <1>4, <1>5
    <3> QED
      BY <1>2, <3>1 DEF FrameSits
  <2>4. ASSUME NEW n \in Frame' PROVE FrameSits(n)'
    <3>1. CASE n - 2 \in 1 .. Len(stack) /\ (n - 2) + 2 = n
      <4>1. PICK m : m = n - 2
        OBVIOUS
      <4>2. m \in 1 .. Len(stack) /\ m + 2 = n
        BY <3>1, <4>1
      <4>3. FrameSits(m + 2)'
        BY <2>1, <4>2
      <4> QED
        BY <4>2, <4>3
    <3> QED
      BY <1>4, <2>2, <2>3, <2>4, <3>1 DEF Frame
  <2> QED
    BY <1>1, <1>2, <1>3, <1>4, <1>5, <2>4 DEF HaltInv, ExecutorFits
<1>8. WakesTyped' /\ HaltIsGated'
  BY <1>3, <1>5 DEF HaltInv, WakesTyped, HaltIsGated, input
<1>9. \A q : Registered(q) <=> Registered(q)'
  BY <1>3 DEF Registered
<1>10. RootIsHeard'
  BY <1>1, <1>3, <1>4, <1>6, <1>9 DEF HaltInv, AllAreHeard, RootIsHeard
<1>11. ASSUME NEW q \in Programs PROVE Heard(q)'
  <2>1. Heard(q)
    BY DEF HaltInv, AllAreHeard
  <2>2. /\ guest'[q] = guest[q] /\ waitsOn'[q] = waitsOn[q] /\ (Woken(q) => Woken(q)')
        /\ q \in idleWakers => q \in idleWakers' \cup rung'
        /\ inputEdge => inputEdge' \/ (q \in idleWakers => q \in rung')
        /\ inputEdge' \/ NoInput
        /\ Registered(q) /\ guest'[q] = "wait" => Registered(q)' \/ q \in rung'
    BY <1>3, <1>6, <1>9 DEF Woken, input, NoInput
  <2> QED
    BY <2>1, <2>2, HeardKeeps
<1>12. InRegistry'
  BY <1>3, <1>6 DEF HaltInv, InRegistry, Waiting
<1>13. PassVisits'
  <2>1. CASE curParent = NoTask
    <3>1. p = 0 /\ FrameFits(1)
      BY <1>1, <1>5, <2>1, StackFacts, TurnIsMarked DEF Compile, Executes
    <3>2. at = "root"
      BY <1>1, <1>5, <3>1 DEF FrameFits, HaltInv, ExecutorFits, Bottom
    <3> QED
      BY <1>3, <3>2 DEF PassVisits
  <2>2. CASE curParent # NoTask
    BY <1>1, <1>3, <1>4, <1>5, <2>2 DEF HaltInv, PassVisits, Waiting
  <2> QED
    BY <2>1, <2>2
<1> QED
  BY <1>7, <1>8, <1>10, <1>11, <1>12, <1>13 DEF HaltInv, AllAreHeard


\* A child is checked out: its wake becomes the poll's, and the pass goes on after it.
LEMMA CheckOutHeard ==
    ASSUME TasksInv, TasksInv', HaltInv, CheckOut
    PROVE  HaltInv'
<1>1. PICK i \in KSlots, f, g \in Frames :
        /\ slot[i] = "running" /\ slot' = [slot EXCEPT ![i] = "polling"] /\ curParent' = i
        /\ stack[1].next <= i /\ \A j \in KSlots : slot[j] = "running" /\ j >= stack[1].next => i <= j
        /\ f.kind = "poll" /\ f.who = prog[i] /\ f.slot = i
        /\ guest[prog[i]] = "busy" \/ prog[i] \in rung => f.go
        /\ g.kind = "pass" /\ g.next = i + 1 /\ g.top = stack[1].top
        /\ stack' \in Seq(Frames) /\ Len(stack') = 1 + Len(stack) /\ stack'[1] = f /\ stack'[2] = g
        /\ \A n \in 2 .. Len(stack) : stack'[n + 1] = stack[n]
        /\ rung' = rung \ {prog[i]}
  BY CheckOutFacts
<1> PICK q : q = prog[i]
  OBVIOUS
<1>2. /\ stack # <<>> /\ Len(stack) \in Nat \ {0} /\ stack[1].kind = "pass" /\ stack[1].next \in Nat /\ i \in Nat
      /\ \A j \in KSlots : j \in Nat
  <2>1. stack # <<>> /\ Len(stack) \in Nat \ {0} /\ stack[1].kind = "pass" /\ stack[1] \in Frames
    BY StackFacts DEF CheckOut, In
  <2>2. stack[1].next \in Nat
    BY <2>1, PassFrames
  <2> QED
    BY <2>1, <2>2 DEF KSlots
<1>3. /\ UNCHANGED <<prog, wakers, input, guest, waitsOn, at>> /\ slot \in [KSlots -> {"none", "running", "polling", "done"}]
      /\ prog \in [KSlots -> Guests]
  BY DEF CheckOut, guests, TasksInv, TasksTyped
<1>4. q \in Programs /\ q # 0 /\ i # NoTask /\ ~OnStack(q) /\ \A j \in KSlots : j # i /\ slot[j] = "running" => prog[j] # q
  BY <1>1, RootIsAGuest DEF TasksInv, LiveAreTheirOwn, Live, PolledOnce, OnStack, KSlots, NoTask
<1>5. /\ stack' # <<>> /\ Len(stack') # 1 /\ 1 # Len(stack')
      /\ \A n \in 1 .. Len(stack) : n + 1 \in 1 .. Len(stack') /\ n \in Nat /\ (n + 1 = Len(stack') <=> n = Len(stack))
                                    /\ n + 1 > 1 /\ (n = 1 \/ n \in 2 .. Len(stack))
      /\ \A n \in 1 .. Len(stack') : n = 1 \/ (n - 1 \in 1 .. Len(stack) /\ (n - 1) + 1 = n)
      /\ Len(stack) \in 1 .. Len(stack)
  <2>1. PICK l \in Nat \ {0} : l = Len(stack)
    BY <1>2
  <2>2. /\ Len(stack') = 1 + l /\ 1 + l # 1 /\ 1 + l # 0 /\ l \in 1 .. l
        /\ \A n \in 1 .. l : n + 1 \in 1 .. 1 + l /\ n \in Nat /\ (n + 1 = 1 + l <=> n = l) /\ n + 1 > 1 /\ (n = 1 \/ n \in 2 .. l)
        /\ \A n \in 1 .. 1 + l : n = 1 \/ (n - 1 \in 1 .. l /\ (n - 1) + 1 = n)
    BY <1>1, <2>1
  <2> QED
    BY <1>1, <2>1, <2>2
<1>6. \A n \in 1 .. Len(stack) : Same(stack'[n + 1], stack[n]) /\ (stack[n].kind = "poll" => stack'[n + 1] = stack[n])
  <2> SUFFICES ASSUME NEW n \in 1 .. Len(stack)
               PROVE  Same(stack'[n + 1], stack[n]) /\ (stack[n].kind = "poll" => stack'[n + 1] = stack[n])
    OBVIOUS
  <2>1. CASE n = 1
    <3>1. stack'[1 + 1] = g
      BY <1>1
    <3> QED
      BY <1>1, <1>2, <2>1, <3>1 DEF Same
  <2>2. CASE n \in 2 .. Len(stack)
    BY <1>1, <2>2 DEF Same
  <2> QED
    BY <1>5, <2>1, <2>2
<1>7. \A r : (Going(r) => Going(r)') /\ (OnStack(r) => OnStack(r)')
  <2> SUFFICES ASSUME NEW r, NEW n \in Polls, stack[n].who = r
               PROVE  OnStack(r)' /\ (stack[n].go => Going(r)')
    BY DEF Going, OnStack
  <2>1. n \in 1 .. Len(stack) /\ stack[n].kind = "poll"
    BY DEF Polls
  <2>2. n + 1 \in Polls' /\ stack'[n + 1] = stack[n]
    BY <1>5, <1>6, <2>1 DEF Polls
  <2> QED
    BY <2>2 DEF OnStack, Going
<1>8. OnStack(q)' /\ (q \in rung => Going(q)')
  <2>1. 1 \in Polls' /\ stack'[1].who = q /\ (q \in rung => stack'[1].go)
    BY <1>1, <1>2 DEF Polls
  <2> QED
    BY <2>1 DEF OnStack, Going
<1>9. at \in {"pass", "root"} /\ Same(Bottom', Bottom) /\ (Len(stack) # 1 => Bottom' = Bottom)
      /\ (Len(stack) = 1 => Bottom = stack[1] /\ Bottom'.next = i + 1)
  <2>1. Bottom' = stack'[Len(stack) + 1] /\ Same(Bottom', Bottom)
    <3>1. Len(stack') = Len(stack) + 1
      BY <1>1, <1>2
    <3> QED
      BY <1>5, <1>6, <3>1 DEF Bottom
  <2>2. Len(stack) # 1 => Len(stack) \in 2 .. Len(stack)
    BY <1>5
  <2>3. Len(stack) = 1 => Bottom'.next = i + 1
    <3>1. Len(stack) = 1 => Bottom' = stack'[1 + 1]
      BY <2>1
    <3>2. stack'[1 + 1] = g
      BY <1>1
    <3> QED
      BY <1>1, <3>1, <3>2
  <2> QED
    BY <1>1, <1>2, <2>1, <2>2, <2>3 DEF HaltInv, ExecutorFits, Bottom
<1>10. ExecutorFits'
  <2>1. ASSUME NEW n \in 1 .. Len(stack) PROVE FrameSits(n + 1)'
    <3>1. FrameSits(n) /\ FrameFits(n) /\ n \in Nat /\ n + 1 \in Nat
      BY <1>5, StackFacts DEF HaltInv, ExecutorFits, Frame
    <3>2. n # Len(stack) => Same(stack'[(n + 1) + 1], stack[n + 1])
      <4>1. n # Len(stack) => n + 1 \in 1 .. Len(stack)
        BY <1>2
      <4> QED
        BY <1>6, <4>1
    <3>3. stack[n].kind = "poll" => guest'[stack[n].who] = "busy"
      <4>1. stack[n].kind = "poll" => n > 1
        <5>1. n # 1 => n > 1
          BY <1>5
        <5> QED
          BY <1>2, <5>1
      <4> QED
        BY <1>3, <4>1, BelowIsBusy
    <3> QED
      BY <1>5, <1>6, <3>1, <3>2, <3>3, FrameSitsStill
  <2>2. FrameSits(1)'
    BY <1>1, <1>4 DEF FrameSits
  <2>3. ASSUME NEW n \in Frame' PROVE FrameSits(n)'
    <3>1. CASE n - 1 \in 1 .. Len(stack) /\ (n - 1) + 1 = n
      <4>1. PICK m : m = n - 1
        OBVIOUS
      <4>2. m \in 1 .. Len(stack) /\ m + 1 = n
        BY <3>1, <4>1
      <4>3. FrameSits(m + 1)'
        BY <2>1, <4>2
      <4> QED
        BY <4>2, <4>3
    <3> QED
      BY <1>5, <2>2, <2>3, <3>1 DEF Frame
  <2>4. at' = at /\ (at = "pass" <=> Bottom.kind = "pass")
    BY <1>2, <1>3 DEF HaltInv, ExecutorFits
  <2> QED
    BY <1>1, <1>5, <1>9, <2>3, <2>4 DEF ExecutorFits, Same
<1>11. WakesTyped' /\ HaltIsGated'
  BY <1>3, <1>9 DEF HaltInv, WakesTyped, HaltIsGated, wakers, input
<1>12. \A r : Registered(r) => Registered(r)'
  BY <1>1, <1>3 DEF Registered, wakers
<1>13. RootIsHeard'
  BY <1>1, <1>2, <1>3, <1>4, <1>7, <1>12 DEF HaltInv, AllAreHeard, RootIsHeard, wakers
<1>14. ASSUME NEW r \in Programs PROVE Heard(r)'
  <2>1. Heard(r)
    BY DEF HaltInv, AllAreHeard
  <2>2. Woken(r) => Woken(r)'
    BY <1>1, <1>7, <1>8 DEF Woken
  <2>3. /\ guest'[r] = guest[r] /\ waitsOn'[r] = waitsOn[r] /\ (Woken(r) => Woken(r)')
        /\ r \in idleWakers => r \in idleWakers' \cup rung'
        /\ inputEdge => inputEdge' \/ (r \in idleWakers => r \in rung')
        /\ inputEdge' \/ NoInput
        /\ Registered(r) /\ guest'[r] = "wait" => Registered(r)' \/ r \in rung'
    BY <1>3, <1>12, <2>2 DEF wakers, input, NoInput
  <2> QED
    BY <2>1, <2>3, HeardKeeps
<1>15. InRegistry'
  <2> SUFFICES ASSUME NEW r \in Programs, Waiting(r)
               PROVE  OnStack(r)' \/ \E j \in KSlots : slot'[j] = "running" /\ prog[j] = r
    BY <1>3 DEF InRegistry, Waiting
  <2>1. CASE OnStack(r) \/ r = q
    BY <1>7, <1>8, <2>1
  <2>2. CASE r # q /\ \E j \in KSlots : slot[j] = "running" /\ prog[j] = r
    BY <1>1, <2>2
  <2> QED
    BY <2>1, <2>2 DEF HaltInv, InRegistry
<1>16. PassVisits'
  <2> SUFFICES ASSUME NEW j \in KSlots, slot'[j] = "running", Waiting(prog[j])
               PROVE  prog[j] \in passWakers \/ at = "root" \/ (at = "pass" /\ Bottom'.next <= j)
    BY <1>3 DEF PassVisits, Waiting, wakers
  <2>1. j # i /\ slot[j] = "running"
    BY <1>1, <1>3
  <2>2. prog[j] \in passWakers \/ at = "root" \/ (at = "pass" /\ Bottom.next <= j)
    BY <1>2, <1>9, <2>1 DEF HaltInv, PassVisits
  <2>3. Len(stack) = 1 /\ Bottom.next <= j => i + 1 <= j
    <3>1. Len(stack) = 1 /\ Bottom.next <= j => i <= j
      BY <1>1, <1>2, <1>9, <2>1
    <3> QED
      BY <1>2, <2>1, <3>1
  <2> QED
    BY <1>9, <2>2, <2>3
<1> QED
  BY <1>10, <1>11, <1>13, <1>14, <1>15, <1>16 DEF HaltInv, AllAreHeard

\* A child's poll ends. Its program is checked in, with its waker on the pass's list,
\* or is gone; whoever waited for it is rung.
LEMMA PollEndsHeard ==
    ASSUME TasksInv, TasksInv', HaltInv, NEW p \in Programs, CheckIn(p) \/ Exit(p)
    PROVE  HaltInv'
<1>1. /\ Len(stack) \in Nat /\ Len(stack) > 1 /\ stack[2].kind = "pass" /\ stack[2] \in Frames
      /\ stack' \in Seq(Frames) /\ Len(stack') = Len(stack) - 1
      /\ Like(stack'[1], stack[2]) /\ stack'[1].next = stack[2].next /\ stack'[1].top = stack[2].top
      /\ \A n \in 2 .. Len(stack) - 1 : stack'[n] = stack[n + 1]
  BY PollEndFacts
<1>2. /\ stack # <<>> /\ Top = stack[1] /\ stack[1].kind = "poll" /\ stack[1].who = p /\ 1 \in Polls
      /\ \A n \in Polls : n # 1 => stack[n].who # p /\ n \in 2 .. Len(stack)
      /\ \A j \in KSlots : slot[j] = "running" => prog[j] # p
      /\ p \in Guests /\ p # 0
  BY TurnFacts, RootIsAGuest DEF CheckIn, Exit, Executes
<1> PICK i : i = stack[1].slot
  OBVIOUS
<1>3. i \in KSlots /\ (slot[i] = "polling" => prog[i] = p)
  <2>1. i \in KSlots
    BY <1>2 DEF TasksInv, PolledOnce
  <2>2. slot[i] = "polling" => \E m \in Polls : m <= 1 /\ Lends(m, i)
    BY <1>2 DEF TasksInv, LentOnce
  <2> QED
    BY <1>2, <2>1, <2>2 DEF Lends, Polls
<1>4. /\ slot \in [KSlots -> {"none", "running", "polling", "done"}] /\ prog \in [KSlots -> Guests]
      /\ guest \in [Guests -> {"unborn", "busy", "wait", "read", "sleep", "gone"}] /\ WakesTyped
      /\ UNCHANGED <<idleWakers, input, waitsOn, at>> /\ curParent' = NoTask
  BY DEF CheckIn, Exit, TasksInv, TasksTyped, HaltInv
\* The registry and the wakers, by what became of the program.
<1>5. \/ /\ slot[i] = "polling" /\ slot' = [slot EXCEPT ![i] = "running"] /\ prog' = prog /\ guest' = guest
         /\ passWakers' = passWakers \cup {p} /\ rung \subseteq rung'
         /\ UNCHANGED <<waitWakers, completionRung>> /\ (guest[p] = "busy" \/ ~stack[1].go)
      \/ /\ slot' = slot \/ (slot[i] = "polling" /\ slot' = [slot EXCEPT ![i] = "done"])
         /\ prog' = prog /\ guest' = [guest EXCEPT ![p] = "gone"]
         /\ passWakers' = passWakers /\ RingWaiters({i})
  <2>1. CASE Exit(p)
    <3>1. slot' = [slot EXCEPT ![i] = IF slot[i] = "polling" THEN "done" ELSE @]
      BY <1>2, <2>1 DEF Exit, StillLent
    <3>2. slot' = slot \/ (slot[i] = "polling" /\ slot' = [slot EXCEPT ![i] = "done"])
      BY <1>4, <3>1
    <3> QED
      BY <1>2, <2>1, <3>2 DEF Exit
  <2>2. CASE CheckIn(p) /\ slot[i] = "polling"
    <3>1. /\ slot' = [slot EXCEPT ![i] = "running"] /\ prog' = [prog EXCEPT ![i] = p]
          /\ guest' = [guest EXCEPT ![p] = @] /\ passWakers' = passWakers \cup {p}
          /\ rung' = IF guest[p] = "busy" THEN rung \cup {p} ELSE rung
          /\ UNCHANGED <<waitWakers, completionRung>> /\ (guest[p] = "busy" \/ ~stack[1].go)
      BY <1>2, <2>2 DEF CheckIn, StillLent
    <3>2. prog' = prog /\ guest' = guest
      BY <1>2, <1>3, <1>4, <2>2, <3>1
    <3> QED
      BY <2>2, <3>1, <3>2
  <2>3. CASE CheckIn(p) /\ slot[i] # "polling"
    <3>1. /\ slot' = [slot EXCEPT ![i] = @] /\ prog' = [prog EXCEPT ![i] = @]
          /\ guest' = [guest EXCEPT ![p] = "gone"] /\ passWakers' = passWakers /\ RingWaiters({i})
      BY <1>2, <2>3 DEF CheckIn, StillLent
    <3>2. slot' = slot /\ prog' = prog
      BY <1>3, <1>4, <3>1
    <3> QED
      BY <3>1, <3>2
  <2> QED
    BY <2>1, <2>2, <2>3
<1>6. /\ prog' = prog /\ rung \subseteq rung' /\ (completionRung => completionRung') /\ passWakers \subseteq passWakers'
      /\ waitWakers' \in [KSlots -> SUBSET Guests]
      /\ \A q \in Guests : q # p => guest'[q] = guest[q]
      /\ \A q \in Guests : Registered(q) => Registered(q)' \/ (q \in rung' /\ completionRung')
  <2>1. CASE /\ slot[i] = "polling" /\ slot' = [slot EXCEPT ![i] = "running"] /\ prog' = prog /\ guest' = guest
             /\ passWakers' = passWakers \cup {p} /\ rung \subseteq rung' /\ UNCHANGED <<waitWakers, completionRung>>
    <3>1. \A q \in Guests : Registered(q) => Registered(q)'
      BY <1>3, <1>4, <2>1 DEF Registered
    <3> QED
      BY <1>4, <2>1, <3>1 DEF WakesTyped
  <2>2. CASE /\ RingWaiters({i}) /\ prog' = prog /\ guest' = [guest EXCEPT ![p] = "gone"] /\ passWakers' = passWakers
             /\ slot' = slot \/ (slot[i] = "polling" /\ slot' = [slot EXCEPT ![i] = "done"])
    <3>1. /\ rung \subseteq rung' /\ (completionRung => completionRung') /\ waitWakers' \in [KSlots -> SUBSET Guests]
          /\ \A j \in KSlots : \A q \in waitWakers[j] : (j \notin {i} /\ q \in waitWakers'[j]) \/ (q \in rung' /\ completionRung')
      BY <1>3, <1>4, <2>2, RingKeeps
    <3>2. \A j \in KSlots : j # i => slot'[j] = slot[j]
      BY <1>4, <2>2
    <3>3. \A q \in Guests : Registered(q) => Registered(q)' \/ (q \in rung' /\ completionRung')
      BY <1>4, <3>1, <3>2 DEF Registered
    <3> QED
      BY <1>4, <2>2, <3>1, <3>3
  <2> QED
    BY <1>5, <2>1, <2>2
<1>7. /\ stack' # <<>> /\ 1 \in 1 .. Len(stack) - 1
      /\ \A n \in 1 .. Len(stack) - 1 : n + 1 \in 1 .. Len(stack) /\ n \in Nat /\ (n = Len(stack') <=> n + 1 = Len(stack))
                                        /\ n + 1 > 1 /\ (n = 1 \/ n \in 2 .. Len(stack) - 1)
      /\ \A n \in 1 .. Len(stack) : n = 1 \/ (n - 1 \in 1 .. Len(stack) - 1 /\ (n - 1) + 1 = n)
      /\ Len(stack) - 1 \in 1 .. Len(stack) - 1 /\ (Len(stack) - 1) + 1 = Len(stack)
  <2>1. PICK l \in Nat : l = Len(stack) /\ l > 1
    BY <1>1
  <2>2. /\ 1 \in 1 .. l - 1 /\ l - 1 # 0
        /\ \A n \in 1 .. l - 1 : n + 1 \in 1 .. l /\ n \in Nat /\ (n = l - 1 <=> n + 1 = l) /\ n + 1 > 1 /\ (n = 1 \/ n \in 2 .. l - 1)
        /\ \A n \in 1 .. l : n = 1 \/ (n - 1 \in 1 .. l - 1 /\ (n - 1) + 1 = n)
        /\ l - 1 \in 1 .. l - 1 /\ (l - 1) + 1 = l
    BY <2>1
  <2> QED
    BY <1>1, <2>1, <2>2
<1>8. \A n \in 1 .. Len(stack) - 1 :
        /\ Same(stack'[n], stack[n + 1]) /\ (stack[n + 1].kind = "poll" => stack'[n] = stack[n + 1])
        /\ (stack[n + 1].kind = "pass" => stack'[n].next = stack[n + 1].next)
  <2> SUFFICES ASSUME NEW n \in 1 .. Len(stack) - 1
               PROVE  /\ Same(stack'[n], stack[n + 1]) /\ (stack[n + 1].kind = "poll" => stack'[n] = stack[n + 1])
                      /\ (stack[n + 1].kind = "pass" => stack'[n].next = stack[n + 1].next)
    OBVIOUS
  <2>1. CASE n = 1
    <3>1. stack[n + 1] = stack[2]
      BY <2>1
    <3> QED
      BY <1>1, <2>1, <3>1 DEF Same, Like
  <2>2. CASE n \in 2 .. Len(stack) - 1
    BY <1>1, <2>2 DEF Same
  <2> QED
    BY <1>7, <2>1, <2>2
<1>9. \A q : q # p => (Going(q) => Going(q)') /\ (OnStack(q) => OnStack(q)')
  <2> SUFFICES ASSUME NEW q, q # p, NEW n \in Polls, stack[n].who = q
               PROVE  OnStack(q)' /\ (stack[n].go => Going(q)')
    BY DEF Going, OnStack
  <2>1. n \in 1 .. Len(stack) /\ n # 1 /\ stack[n].kind = "poll"
    BY <1>2 DEF Polls
  <2>2. PICK m : m = n - 1
    OBVIOUS
  <2>3. m \in 1 .. Len(stack) - 1 /\ m + 1 = n
    BY <1>7, <2>1, <2>2
  <2>4. stack'[m] = stack[n]
    BY <1>8, <2>1, <2>3
  <2>5. m \in Polls'
    BY <1>1, <2>1, <2>3, <2>4 DEF Polls
  <2> QED
    BY <2>4, <2>5 DEF OnStack, Going
<1>10. at \in {"pass", "root"} /\ Same(Bottom', Bottom) /\ (at = "pass" <=> Bottom.kind = "pass")
       /\ (Bottom.kind = "pass" => Bottom'.next = Bottom.next)
  <2>1. Bottom' = stack'[Len(stack) - 1] /\ Bottom = stack[(Len(stack) - 1) + 1]
    BY <1>1, <1>7 DEF Bottom
  <2> QED
    BY <1>2, <1>7, <1>8, <2>1 DEF HaltInv, ExecutorFits
<1>11. \A n \in 1 .. Len(stack) : stack[n].kind = "poll" /\ n > 1 => guest'[stack[n].who] = "busy"
  <2> SUFFICES ASSUME NEW n \in 1 .. Len(stack), stack[n].kind = "poll", n > 1 PROVE guest'[stack[n].who] = "busy"
    OBVIOUS
  <2>1. n \in Polls /\ stack[n].who # p
    BY <1>2 DEF Polls
  <2> QED
    BY <1>6, <2>1, OthersAreBusy
<1>12. ExecutorFits'
  <2>1. ASSUME NEW n \in 1 .. Len(stack) - 1 PROVE FrameSits(n)'
    <3>1. n + 1 \in Frame /\ FrameSits(n + 1) /\ FrameFits(n + 1) /\ n + 1 \in Nat /\ n \in Nat
      <4>1. n + 1 \in 1 .. Len(stack) /\ n \in Nat
        BY <1>7
      <4> QED
        BY <4>1, StackFacts DEF HaltInv, ExecutorFits, Frame
    <3>2. n + 1 # Len(stack) => Same(stack'[n + 1], stack[(n + 1) + 1])
      <4>1. n + 1 # Len(stack) => n + 1 \in 1 .. Len(stack) - 1
        BY <1>1
      <4> QED
        BY <1>8, <4>1
    <3>3. stack[n + 1].kind = "poll" => guest'[stack[n + 1].who] = "busy"
      BY <1>7, <1>11
    <3> QED
      BY <1>7, <1>8, <3>1, <3>2, <3>3, FrameSitsStill
  <2>2. \A n \in Frame' : FrameSits(n)'
    BY <1>1, <2>1 DEF Frame
  <2>3. stack'[1].kind = "pass"
    BY <1>1 DEF Like
  <2> QED
    BY <1>4, <1>7, <1>10, <2>2, <2>3 DEF ExecutorFits, Same
<1>13. WakesTyped' /\ HaltIsGated'
  BY <1>4, <1>6, <1>10 DEF WakesTyped, HaltIsGated, input
<1>14. RootIsHeard'
  BY <1>2, <1>6, <1>9, RootIsAGuest DEF HaltInv, AllAreHeard, RootIsHeard
<1>15. ASSUME NEW q \in Programs PROVE Heard(q)'
  <2>1. Heard(q) /\ q \in Guests
    BY RootIsAGuest DEF HaltInv, AllAreHeard
  <2>2. Waiting(q)' => guest'[q] = guest[q] /\ (Woken(q) => Woken(q)')
    <3>1. CASE q # p
      BY <1>6, <1>9, <2>1, <3>1 DEF Woken
    <3>2. CASE q = p
      <4>1. Waiting(q)' => guest' = guest /\ ~stack[1].go
        BY <1>4, <1>5, <2>1, <3>2 DEF Waiting
      <4>2. ~stack[1].go => ~Going(p)
        BY <1>2 DEF Going
      <4> QED
        BY <1>6, <3>2, <4>1, <4>2 DEF Woken
    <3> QED
      BY <3>1, <3>2
  <2>3. Waiting(q)' =>
        /\ guest'[q] = guest[q] /\ waitsOn'[q] = waitsOn[q] /\ (Woken(q) => Woken(q)')
        /\ q \in idleWakers => q \in idleWakers' \cup rung'
        /\ inputEdge => inputEdge' \/ (q \in idleWakers => q \in rung')
        /\ inputEdge' \/ NoInput
        /\ Registered(q) /\ guest'[q] = "wait" => Registered(q)' \/ q \in rung'
    BY <1>4, <1>6, <2>1, <2>2 DEF input, NoInput
  <2> QED
    BY <2>1, <2>3, HeardKeeps
<1>16. InRegistry'
  <2> SUFFICES ASSUME NEW q \in Programs, Waiting(q)'
               PROVE  OnStack(q)' \/ \E j \in KSlots : slot'[j] = "running" /\ prog[j] = q
    BY <1>6 DEF InRegistry
  <2>1. CASE q = p
    <3>1. slot[i] = "polling" /\ slot' = [slot EXCEPT ![i] = "running"]
      BY <1>2, <1>4, <1>5, <2>1 DEF Waiting
    <3> QED
      BY <1>3, <1>4, <2>1, <3>1
  <2>2. CASE q # p
    <3>1. Waiting(q)
      BY <1>6, <2>2, RootIsAGuest DEF Waiting
    <3>2. ASSUME NEW j \in KSlots, slot[j] = "running", prog[j] = q
          PROVE  slot'[j] = "running"
      BY <1>4, <1>5, <3>2
    <3> QED
      BY <1>9, <2>2, <3>1, <3>2 DEF HaltInv, InRegistry
  <2> QED
    BY <2>1, <2>2
<1>17. PassVisits'
  <2> SUFFICES ASSUME NEW j \in KSlots, slot'[j] = "running", guest'[prog[j]] \in {"wait", "read"}
               PROVE  prog[j] \in passWakers' \/ at = "root" \/ (at = "pass" /\ Bottom'.next <= j)
    BY <1>4, <1>6 DEF PassVisits, Waiting
  <2>1. CASE prog[j] = p
    <3>1. p \in passWakers'
      BY <1>4, <1>5, <2>1, <1>2
    <3> QED
      BY <2>1, <3>1
  <2>2. CASE prog[j] # p
    <3>1. slot[j] = "running" /\ Waiting(prog[j])
      BY <1>3, <1>4, <1>5, <1>6, <2>2 DEF Waiting
    <3> QED
      BY <1>2, <1>6, <1>10, <3>1 DEF HaltInv, PassVisits
  <2> QED
    BY <2>1, <2>2
<1> QED
  BY <1>12, <1>13, <1>14, <1>15, <1>16, <1>17 DEF HaltInv, AllAreHeard


LEMMA InitHaltInv == TasksInit => HaltInv
<1> SUFFICES ASSUME TasksInit PROVE HaltInv
  OBVIOUS
<1>1. Polls = {} /\ Frame = {} /\ Len(stack) = 0 /\ stack = <<>> /\ guest[0] = "busy" /\ \A p \in Programs : guest[p] = "unborn"
  BY RootIsAGuest DEF TasksInit, Polls, Frame
<1>2. ExecutorFits /\ PassVisits /\ HaltIsGated
  BY <1>1 DEF TasksInit, ExecutorFits, PassVisits, HaltIsGated
<1>3. WakesTyped
  BY DEF TasksInit, WakesTyped, SlotOrNone
<1>4. AllAreHeard /\ InRegistry
  BY <1>1 DEF AllAreHeard, RootIsHeard, Heard, Waiting, Owed, InRegistry
<1> QED
  BY <1>2, <1>3, <1>4 DEF HaltInv

LEMMA HaltStill ==
    ASSUME TasksInv, TasksInv', HaltInv, UNCHANGED tasksVars
    PROVE  HaltInv'
<1>1. /\ UNCHANGED <<slot, prog, curParent, waitWakers, completionRung, idleWakers, passWakers, inputEdge, rxRing, guest,
                     waitsOn, rung, stack, at>>
  BY DEF tasksVars, registry, wakers, input, guests
<1>2. WakesTyped' /\ HaltIsGated' /\ NoInput
  BY <1>1 DEF HaltInv, WakesTyped, HaltIsGated, NoInput
<1>3. \A q \in Guests : Registered(q) => Registered(q)'
  BY <1>1 DEF Registered
<1>4. \A n \in Polls : n > 1 => guest'[stack[n].who] = "busy"
  BY <1>1, OthersAreBusy
<1> HIDE DEF NoInput, WakesTyped, HaltIsGated
<1> QED
  BY <1>1, <1>2, <1>3, <1>4, StillKeeps

LEMMA HaltStep ==
    ASSUME ~RootIsConsole, TasksInv, TasksInv', HaltInv, [TasksNext]_tasksVars
    PROVE  HaltInv'
<1>1. CASE PollRoot
  BY <1>1, PollRootHeard
<1>2. CASE BeginPass
  BY <1>2, BeginPassHeard
<1>3. CASE CheckOut
  BY <1>3, CheckOutHeard
<1>4. CASE EndPass
  BY <1>4, EndPassHeard
<1>5. CASE EndPump
  BY <1>5, EndPumpHeard
<1>6. CASE \/ ParkGate \/ Halt \/ WakeOnEvent \/ WakeOnMaintenance
           \/ \E k \in {Key, CtrlC} : KeyArrives(k)
           \/ \E p \in Guests : DeadlinePasses(p)
  BY <1>6, IdleHeard
<1>7. ASSUME NEW p \in Guests, HostCall(p) PROVE HaltInv'
  BY <1>7, CallsHeard, CompileHeard
<1>8. ASSUME NEW p \in Programs, CheckIn(p) \/ Exit(p) PROVE HaltInv'
  BY <1>8, PollEndsHeard
<1>9. CASE RootPends \/ RootExits
  BY <1>9, RootEndsHeard
<1>10. CASE SessionIsOver \/ UNCHANGED tasksVars
  BY <1>10, HaltStill DEF SessionIsOver
<1> QED
  BY <1>1, <1>2, <1>3, <1>4, <1>5, <1>6, <1>7, <1>8, <1>9, <1>10 DEF TasksNext

\* Where the root reads no input, the core never halts on work the event path owes:
\* park gate, masked re-check and the hot loop lose no wake, for any number of slots,
\* programs and keys. (A root that reads the console is outside it: its waker is on
\* no pass's list.)
THEOREM NothingIsStranded ==
    ASSUME ~RootIsConsole
    PROVE  TasksSpec => []NothingStranded
<1>1. TasksInit => HaltInv
  BY InitHaltInv
<1>2. TasksInv /\ TasksInv' /\ HaltInv /\ [TasksNext]_tasksVars => HaltInv'
  BY HaltStep
<1>3. TasksInv /\ HaltInv => NothingStranded
  <2> SUFFICES ASSUME TasksInv, HaltInv, at = "halted", NEW p \in Guests
               PROVE  /\ guest[p] = "wait" => slot[waitsOn[p]] # "done"
                      /\ guest[p] = "wait" /\ (p # 0 \/ RootIsConsole) => CtrlC \notin ToSet(rxRing)
                      /\ guest[p] = "read" => rxRing = <<>>
    BY DEF NothingStranded
  <2>1. stack = <<>> /\ \A q : ~Going(q) /\ ~OnStack(q)
    BY DEF HaltInv, ExecutorFits, Going, OnStack, Polls
  <2>2. ~completionRung /\ passWakers \cap rung = {} /\ ~inputEdge
    BY DEF HaltInv, HaltIsGated
  <2>3. CASE p = 0
    BY <2>1, <2>2, <2>3 DEF HaltInv, AllAreHeard, RootIsHeard, Registered
  <2>4. CASE p # 0 /\ Waiting(p)
    <3>1. p \in Programs
      BY <2>4 DEF Guests, Programs
    <3>2. PICK i \in KSlots : slot[i] = "running" /\ prog[i] = p
      BY <2>1, <2>4, <3>1 DEF HaltInv, InRegistry
    <3>3. p \in passWakers
      BY <2>4, <3>2 DEF HaltInv, PassVisits
    <3>4. ~Woken(p)
      BY <2>1, <2>2, <3>3 DEF Woken
    <3>5. ~Owed(p) /\ (guest[p] = "wait" => Registered(p))
      BY <2>2, <3>1, <3>4 DEF HaltInv, AllAreHeard, Heard
    <3> QED
      BY <3>5 DEF Owed, Registered
  <2> QED
    BY <2>3, <2>4 DEF Waiting
<1> QED
  BY <1>1, <1>2, <1>3, TasksInvariant, PTL DEF TasksSpec
=============================================================================
