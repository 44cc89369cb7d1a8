--------------------------- MODULE Hosted_proofs ---------------------------
(***************************************************************************)
(* The hosted components for any number of processes and services: the     *)
(* image cache of the store, which takes no lock, the service registry in  *)
(* its drive loop, the named programs of the store, the sessions of the    *)
(* shell, and for any number of clients and paths the file provider over   *)
(* eofs.                                                                   *)
(***************************************************************************)
EXTENDS ImageCache, Services, Sessions, ModuleStore, FsEofs, FiniteSetTheorems, TLAPS

(***************************************************************************)
(* The image cache. LookupsAreWhole is not inductive: what a lookup reads  *)
(* is whole because no entry ever holds a partial image, and the entry it  *)
(* reads is the one of its key.                                            *)
(***************************************************************************)

\* A directory of the cache: each file is missing or complete.
Uses == 1 .. MaxUses
EntryOf(k) == [image : {NoFileYet, Whole(k)}, meta : Uses \cup {NoFileYet}, tmps : SUBSET Loaders]

\* A load_image call: what it has read so far, and where that leaves it.
BeforeMeta == [at : {"meta", "compile", "build"}, key : Keys]
HasMeta == [at : {"image", "compile", "build"}, key : Keys, meta : Uses]
HasImage == [at : {"bump", "rename", "unseal", "compile", "build"}, key : Keys, meta : Uses,
             image : {Whole(k) : k \in Keys}]
HasRun == [at : {"ran"}, key : Keys, result : {"hit", "stored"}]

EntriesAreWhole == entry = [k \in Keys |-> entry[k]]
                   /\ \A k \in Keys : entry[k] = NoDir \/ entry[k] \in EntryOf(k)
LoadsAreTyped == load \in [Loaders -> {NoLoad} \cup BeforeMeta \cup HasMeta \cup HasImage \cup HasRun]
GcIsTyped == gc \in [at : {"idle", "next"}, evict : SUBSET Keys]
                    \cup [at : {"remove"}, evict : SUBSET Keys, key : Keys]

CacheInv == EntriesAreWhole /\ LoadsAreTyped /\ GcIsTyped /\ LookupsAreWhole

\* An empty cache, nobody at work.
LEMMA InitCacheInv == CacheInit => CacheInv
BY CacheAssumption
   DEF CacheInit, CacheInv, EntriesAreWhole, LoadsAreTyped, GcIsTyped, LookupsAreWhole, NoLoad, NoGc

\* A lookup reads, and nothing else: an image it reads is that of its entry.
LEMMA LookupKeeps ==
    ASSUME CacheInv, NEW p \in Loaders,
           (\E k \in Keys : StartLoad(p, k)) \/ ReadMeta(p) \/ ReadImage(p) \/ Unseal(p) \/ Compile(p)
           \/ KillLoad(p)
    PROVE  CacheInv'
<1> USE DEF CacheInv, EntriesAreWhole, LoadsAreTyped, GcIsTyped, LookupsAreWhole, EntryOf, BeforeMeta,
            HasMeta, HasImage, HasRun, NoLoad, LoadAt, Goes, Ends, Whole
<1>1. CASE \E k \in Keys : StartLoad(p, k)
  BY <1>1 DEF StartLoad
<1>2. CASE ReadMeta(p)
  BY <1>2 DEF ReadMeta
<1>3. CASE ReadImage(p)
  <2> DEFINE k == load[p].key
             e == entry[k]
  <2>1. k \in Keys /\ load[p] \in HasMeta
    BY <1>3 DEF ReadImage
  <2>2. CASE e = NoDir \/ e.image = NoFileYet
    BY <1>3, <2>1, <2>2 DEF ReadImage
  <2>3. CASE ~(e = NoDir \/ e.image = NoFileYet)
    <3>1. e.image = Whole(k)
      BY <2>1, <2>3
    <3>2. load' = [load EXCEPT ![p] = [at |-> "bump", key |-> k, meta |-> load[p].meta, image |-> Whole(k)]]
      BY <1>3, <2>3, <3>1 DEF ReadImage
    <3>3. LoadsAreTyped' /\ LookupsAreWhole'
      BY <2>1, <3>2
    <3> QED
      BY <1>3, <3>3 DEF ReadImage
  <2> QED
    BY <2>2, <2>3
<1>4. CASE Unseal(p)
  BY <1>4 DEF Unseal
<1>5. CASE Compile(p)
  BY <1>5 DEF Compile
<1>6. CASE KillLoad(p)
  BY <1>6 DEF KillLoad
<1> QED
  BY <1>1, <1>2, <1>3, <1>4, <1>5, <1>6

\* The bump of use-count touches the meta file and its sibling only.
LEMMA BumpKeeps ==
    ASSUME CacheInv, NEW p \in Loaders, CreateMeta(p) \/ RenameMeta(p)
    PROVE  CacheInv'
<1> DEFINE k == load[p].key
<1> USE CacheAssumption
    DEF CacheInv, EntriesAreWhole, LoadsAreTyped, GcIsTyped, LookupsAreWhole, EntryOf, BeforeMeta,
        HasMeta, HasImage, HasRun, NoLoad, LoadAt, Goes, Whole
<1>1. k \in Keys /\ load[p] \in HasImage
  BY DEF CreateMeta, RenameMeta
<1>2. CASE CreateMeta(p)
  BY <1>1, <1>2 DEF CreateMeta
<1>3. CASE RenameMeta(p)
  <2>1. load[p].meta \in Uses
    BY <1>1
  <2>2. (IF load[p].meta < MaxUses THEN load[p].meta + 1 ELSE load[p].meta) \in Uses
    BY <2>1 DEF Uses
  <2> QED
    BY <1>1, <1>3, <2>2 DEF RenameMeta
<1> QED
  BY <1>2, <1>3

\* A new entry arrives with its image complete.
LEMMA BuildKeeps ==
    ASSUME CacheInv, NEW p \in Loaders, BuildEntry(p)
    PROVE  CacheInv'
<1> DEFINE k == load[p].key
<1> USE DEF CacheInv, EntriesAreWhole, LoadsAreTyped, GcIsTyped, LookupsAreWhole, EntryOf, BeforeMeta,
            HasMeta, HasImage, HasRun, NoLoad, LoadAt, Ends, Whole
<1>1. k \in Keys
  BY DEF BuildEntry
<1>2. [image |-> Whole(k), meta |-> 1, tmps |-> {}] \in EntryOf(k)
  BY CacheAssumption DEF Uses
<1>3. EntriesAreWhole'
  BY <1>1, <1>2 DEF BuildEntry
<1> QED
  BY <1>1, <1>3 DEF BuildEntry

\* An eviction takes files away.
LEMMA GcKeeps ==
    ASSUME CacheInv, BeginGc \/ GcNext \/ GcUnlink \/ GcRmdir \/ KillGc
    PROVE  CacheInv'
<1> USE DEF CacheInv, EntriesAreWhole, LoadsAreTyped, GcIsTyped, LookupsAreWhole, EntryOf, NoGc
<1>1. CASE BeginGc
  BY <1>1 DEF BeginGc, Plans, Listed
<1>2. CASE GcNext
  BY <1>2 DEF GcNext
<1>3. CASE GcUnlink
  <2> DEFINE k == gc.key
  <2>1. k \in Keys /\ entry[k] \in EntryOf(k)
    BY <1>3 DEF GcUnlink
  <2>2. CASE entry' = [entry EXCEPT ![k].image = NoFileYet]
    BY <1>3, <2>1, <2>2 DEF GcUnlink
  <2>3. CASE entry' = [entry EXCEPT ![k].meta = NoFileYet]
    BY <1>3, <2>1, <2>3 DEF GcUnlink
  <2>4. ASSUME NEW p \in entry[k].tmps, entry' = [entry EXCEPT ![k].tmps = @ \ {p}] PROVE EntriesAreWhole'
    BY <2>1, <2>4
  <2> QED
    BY <1>3, <2>2, <2>3, <2>4 DEF GcUnlink
<1>4. CASE GcRmdir
  BY <1>4 DEF GcRmdir
<1>5. CASE KillGc
  BY <1>5 DEF KillGc
<1> QED
  BY <1>1, <1>2, <1>3, <1>4, <1>5

\* LookupsAreWhole for any number of processes and keys, any order of their
\* file operations and any kills: the image a lookup hands on is the complete
\* one of its key.
THEOREM LookupsAlwaysWhole == CacheSpec => []LookupsAreWhole
<1>1. CacheInv /\ [CacheNext]_cacheVars => CacheInv'
  <2> SUFFICES ASSUME CacheInv, [CacheNext]_cacheVars PROVE CacheInv'
    OBVIOUS
  <2>1. CASE UNCHANGED cacheVars
    BY <2>1 DEF cacheVars, CacheInv, EntriesAreWhole, LoadsAreTyped, GcIsTyped, LookupsAreWhole
  <2> QED
    BY <2>1, LookupKeeps, BumpKeeps, BuildKeeps, GcKeeps DEF CacheNext
<1> QED
  BY <1>1, InitCacheInv, PTL DEF CacheSpec, CacheInv
-----------------------------------------------------------------------------
(***************************************************************************)
(* The service registry. RestartsAreAllowed needs to know of a service     *)
(* what its record does not say: how often it was started and when its     *)
(* last run ended, so the record is tied to the history of its detach.     *)
(***************************************************************************)

Deadlines == {0} \cup {x + Delay(r) : x \in Nat, r \in Nat}
Service == [name : SvcNames, id : Detaches, run : {"runnable", "blocked", "waiting", "finished"},
            until : Deadlines, restarts : Nat]

\* The starts a record stands for, and the deadline of the restart it waits for.
Paced(s) ==
    Policy[s.name] = "backoff" =>
        /\ s.run \in {"runnable", "blocked"} => started[s.id] = s.restarts + 1
        /\ s.run = "waiting" => /\ started[s.id] = s.restarts /\ s.restarts <= MaxRestarts
                                /\ s.until = ended[s.id] + Delay(started[s.id] - 1)

RegistryTyped ==
    /\ services \in Seq(Service) /\ next \in Nat \ {0} /\ clock \in Nat /\ detached \in 0 .. MaxDetaches
    /\ started \in [Detaches -> Nat] /\ ended \in [Detaches -> Nat] /\ stopped \subseteq 1 .. detached
OneRecordEach ==
    /\ \A i \in DOMAIN services : services[i].id <= detached
    /\ \A i, j \in DOMAIN services : services[i].id = services[j].id => i = j
StoppedAreFinished == \A i \in DOMAIN services : services[i].id \in stopped => services[i].run = "finished"
AllPaced == \A i \in DOMAIN services : Paced(services[i])

SvcInv == RegistryTyped /\ OneRecordEach /\ StoppedAreFinished /\ AllPaced

LEMMA ServiceRecord ==
    ASSUME services \in Seq(Service), NEW i \in DOMAIN services
    PROVE  /\ i \in 1..Len(services) /\ services[i] \in Service /\ services[i].id \in Detaches
           /\ services[i].name \in SvcNames /\ services[i].restarts \in Nat
           /\ services[i].run \in {"runnable", "blocked", "waiting", "finished"}
           /\ services[i].until \in Deadlines
<1>1. services[i] \in Service /\ i \in 1..Len(services)
  OBVIOUS
<1> QED
  BY <1>1 DEF Service

\* One record is rewritten, and nothing of another detach changes.
LEMMA RecordRewritten ==
    ASSUME SvcInv, NEW i \in DOMAIN services, NEW s \in Service,
           s.id = services[i].id, services' = With(i, s),
           detached' = detached, clock' = clock, next' \in Nat \ {0},
           started' \in [Detaches -> Nat], ended' \in [Detaches -> Nat],
           \A d \in Detaches : d # s.id => started'[d] = started[d] /\ ended'[d] = ended[d],
           stopped' = stopped \/ (stopped' = stopped \cup {s.id} /\ s.run = "finished"),
           services[i].run = "finished" => s.run = "finished",
           Paced(s)'
    PROVE  SvcInv'
<1> USE DEF SvcInv, RegistryTyped, With
<1>1. services' \in Seq(Service) /\ DOMAIN services' = DOMAIN services
  <2>1. DOMAIN services = 1..Len(services) /\ Len(services) \in Nat
    OBVIOUS
  <2> QED
    BY <2>1
<1>2. services'[i] = s /\ \A j \in DOMAIN services : j # i => services'[j] = services[j] /\ services[j].id # s.id
  BY DEF OneRecordEach
<1>3. \A j \in DOMAIN services : services[j] \in Service /\ services[j].id \in Detaches
  BY ServiceRecord
<1>4. s.id \in 1 .. detached
  BY <1>3 DEF OneRecordEach, Detaches
<1>5. RegistryTyped'
  BY <1>1, <1>4
<1>6. OneRecordEach'
  BY <1>1, <1>2 DEF OneRecordEach
<1>7. StoppedAreFinished'
  BY <1>1, <1>2 DEF StoppedAreFinished
<1>8. ASSUME NEW j \in DOMAIN services PROVE Paced(services[j])'
  <2>1. CASE j = i
    BY <1>2, <2>1
  <2>2. CASE j # i
    BY <1>2, <1>3, <2>2 DEF AllPaced, Paced
  <2> QED
    BY <2>1, <2>2
<1> QED
  BY <1>1, <1>5, <1>6, <1>7, <1>8 DEF AllPaced

\* Every service is finished when the drive loop ends.
LEMMA AllFinished ==
    ASSUME SvcInv, services' = [i \in DOMAIN services |-> Finished(services[i])], next' \in Nat \ {0},
           clock' = clock, UNCHANGED svcHistory
    PROVE  SvcInv'
<1> USE DEF SvcInv, RegistryTyped, svcHistory
<1>1. DOMAIN services = 1..Len(services) /\ Len(services) \in Nat /\ DOMAIN services' = DOMAIN services
  OBVIOUS
<1>2. ASSUME NEW i \in DOMAIN services
      PROVE  /\ services'[i] \in Service /\ services'[i].run = "finished"
             /\ services'[i].id = services[i].id /\ services'[i].name = services[i].name
  <2>1. services'[i] = Finished(services[i]) /\ 0 \in Deadlines /\ services[i] \in Service
    BY ServiceRecord DEF Deadlines
  <2> QED
    BY <2>1 DEF Finished, Service
<1>3. services' \in Seq(Service)
  <2>1. services' \in [1..Len(services) -> Service]
    BY <1>1, <1>2
  <2> QED
    BY <1>1, <2>1
<1>4. OneRecordEach' /\ StoppedAreFinished'
  <2>1. /\ \A i \in DOMAIN services' : services'[i].id = services[i].id /\ services'[i].run = "finished"
        /\ detached' = detached /\ DOMAIN services' = DOMAIN services
    BY <1>1, <1>2
  <2> HIDE DEF RegistryTyped
  <2> QED
    BY <2>1 DEF OneRecordEach, StoppedAreFinished
<1>5. AllPaced'
  <2> SUFFICES ASSUME NEW i \in DOMAIN services PROVE Paced(services[i])'
    BY <1>1 DEF AllPaced
  <2>1. services'[i].run = "finished"
    BY <1>2
  <2> QED
    BY <2>1 DEF Paced
<1> QED
  BY <1>3, <1>4, <1>5

\* detach: a record of a new detach, started once.
LEMMA DetachKeeps ==
    ASSUME SvcInv, NEW n \in SvcNames, Detach(n)
    PROVE  SvcInv'
<1> USE DEF SvcInv, RegistryTyped, parking
<1>1. PICK d, s, m : /\ d = detached + 1 /\ m = Len(services)
                     /\ s = [name |-> n, id |-> d, run |-> "runnable", until |-> 0, restarts |-> 0]
  OBVIOUS
<1>2. d \in Detaches /\ s \in Service /\ m \in Nat /\ DOMAIN services = 1..m
  BY <1>1, ServicesAssumption DEF Detach, Detaches, Service, Deadlines
<1>3. services' = Append(services, s)
  BY <1>1 DEF Detach
<1>4. /\ services' \in Seq(Service) /\ DOMAIN services' = 1..(m + 1)
      /\ services'[m + 1] = s /\ \A i \in 1..m : services'[i] = services[i]
      /\ \A i \in 1..(m + 1) : i \in 1..m \/ i = m + 1
  BY <1>1, <1>2, <1>3
<1>5. /\ detached' = d /\ started' = [started EXCEPT ![d] = 1] /\ ended' = ended /\ stopped' = stopped
      /\ next' = next /\ clock' = clock
  BY <1>1 DEF Detach
<1>6. RegistryTyped'
  BY <1>1, <1>2, <1>4, <1>5, ServicesAssumption DEF Detaches
<1>7. \A i \in 1..m : services[i] \in Service /\ services[i].id \in Detaches /\ services[i].id <= detached /\ services[i].id # d
  <2>1. \A i \in 1..m : services[i] \in Service /\ services[i].id \in Detaches /\ services[i].id <= detached
    BY <1>2, ServiceRecord DEF OneRecordEach
  <2> QED
    BY <1>1, <2>1 DEF Detaches
<1>8. s.id = d /\ s.run = "runnable" /\ s.restarts = 0
  BY <1>1
<1>9. OneRecordEach'
  <2>1. \A i \in 1..(m + 1) : services'[i].id <= d
    BY <1>1, <1>2, <1>4, <1>7, <1>8 DEF Detaches
  <2>2. \A i, j \in 1..m : services[i].id = services[j].id => i = j
    BY <1>2 DEF OneRecordEach
  <2>3. \A i, j \in 1..(m + 1) : services'[i].id = services'[j].id => i = j
    BY <1>4, <1>7, <1>8, <2>2
  <2> QED
    BY <1>4, <1>5, <2>1, <2>3 DEF OneRecordEach
<1>10. StoppedAreFinished'
  <2>1. d \notin stopped
    BY <1>1
  <2> QED
    BY <1>2, <1>4, <1>5, <1>8, <2>1 DEF StoppedAreFinished
<1>11. Paced(s)'
  BY <1>2, <1>5, <1>8 DEF Paced
<1>12. \A i \in 1..m : Paced(services[i])'
  BY <1>2, <1>4, <1>5, <1>7 DEF AllPaced, Paced
<1>13. AllPaced'
  BY <1>4, <1>11, <1>12 DEF AllPaced
<1> QED
  BY <1>6, <1>9, <1>10, <1>13

\* stop: the record of a detach is finished, and the detach stopped.
LEMMA StopKeeps ==
    ASSUME SvcInv, NEW n \in SvcNames, Stop(n)
    PROVE  SvcInv'
<1>1. PICK i \in DOMAIN services :
        services' = With(i, Finished(services[i])) /\ stopped' = stopped \cup {services[i].id}
  BY DEF Stop, Find
<1>2. services \in Seq(Service)
  BY DEF SvcInv, RegistryTyped
<1>3. PICK s : s = Finished(services[i])
  OBVIOUS
<1>4. s \in Service /\ s.id = services[i].id /\ s.run = "finished"
  <2>1. services[i] \in Service /\ 0 \in Deadlines
    BY <1>2, ServiceRecord DEF Deadlines
  <2> QED
    BY <1>3, <2>1 DEF Finished, Service
<1>5. Paced(s)'
  BY <1>4 DEF Paced
<1> QED
  BY <1>1, <1>3, <1>4, <1>5, RecordRewritten DEF Stop, parking, SvcInv, RegistryTyped

\* clear: the records of the other detaches move up.
LEMMA ClearKeeps ==
    ASSUME SvcInv, NEW n \in SvcNames, Clear(n)
    PROVE  SvcInv'
<1> USE DEF SvcInv, RegistryTyped, parking, svcHistory
<1>1. PICK i \in DOMAIN services : services' = RemoveAt(services, i)
  BY DEF Clear, Find
<1>2. PICK m : m = Len(services)
  OBVIOUS
<1>3. m \in Nat /\ DOMAIN services = 1..m /\ i \in 1..m
  BY <1>2
<1>4. PICK a, b : a = SubSeq(services, 1, i - 1) /\ b = SubSeq(services, i + 1, m)
  OBVIOUS
<1>5. /\ a \in Seq(Service) /\ Len(a) = i - 1 /\ \A k \in 1..(i - 1) : a[k] = services[k]
      /\ b \in Seq(Service) /\ Len(b) = m - i /\ \A k \in 1..(m - i) : b[k] = services[i + k]
  <2>1. /\ a \in Seq(Service) /\ Len(a) = i - 1 /\ \A k \in 1..(i - 1) : a[k] = services[k]
    BY <1>2, <1>3, <1>4
  <2>2. b \in Seq(Service) /\ Len(b) = m - i
    BY <1>2, <1>3, <1>4
  <2>3. ASSUME NEW k \in 1..(m - i) PROVE b[k] = services[i + k]
    <3>1. b[k] = services[(i + 1) + k - 1]
      BY <1>2, <1>3, <1>4, <2>2
    <3>2. (i + 1) + k - 1 = i + k
      BY <1>3
    <3> QED
      BY <3>1, <3>2
  <2> QED
    BY <2>1, <2>2, <2>3
<1>6. services' = a \o b
  BY <1>1, <1>2, <1>4 DEF RemoveAt
<1>7. /\ services' \in Seq(Service) /\ Len(services') = m - 1
      /\ \A k \in 1..(m - 1) : services'[k] = IF k <= i - 1 THEN a[k] ELSE b[k - (i - 1)]
  BY <1>3, <1>5, <1>6
<1>8. DOMAIN services' = 1..(m - 1)
  BY <1>7
<1>9. ASSUME NEW k \in 1..(m - 1)
      PROVE  \/ k \in 1..(i - 1) /\ services'[k] = services[k]
             \/ k \in i..(m - 1) /\ services'[k] = services[k + 1]
  <2>1. CASE k <= i - 1
    BY <1>3, <1>5, <1>7, <2>1
  <2>2. CASE ~(k <= i - 1)
    <3>1. k - (i - 1) \in 1..(m - i) /\ i + (k - (i - 1)) = k + 1 /\ k \in i..(m - 1)
      BY <1>3, <2>2
    <3>2. services'[k] = b[k - (i - 1)]
      BY <1>7, <2>2
    <3>3. b[k - (i - 1)] = services[k + 1]
      BY <1>5, <3>1
    <3> QED
      BY <3>1, <3>2, <3>3
  <2> QED
    BY <2>1, <2>2
<1>10. PICK at : at = [k \in 1..(m - 1) |-> IF k < i THEN k ELSE k + 1]
  OBVIOUS
<1>11. /\ \A k \in 1..(m - 1) : at[k] \in 1..m
       /\ \A k, l \in 1..(m - 1) : at[k] = at[l] => k = l
  BY <1>3, <1>10
<1>12. ASSUME NEW k \in 1..(m - 1) PROVE services'[k] = services[at[k]]
  <2>1. CASE k \in 1..(i - 1) /\ services'[k] = services[k]
    <3>1. at[k] = k
      BY <1>3, <1>10, <2>1
    <3> QED
      BY <2>1, <3>1
  <2>2. CASE k \in i..(m - 1) /\ services'[k] = services[k + 1]
    <3>1. at[k] = k + 1
      BY <1>3, <1>10, <2>2
    <3> QED
      BY <2>2, <3>1
  <2> QED
    BY <1>9, <2>1, <2>2
<1> HIDE DEF SvcInv, RegistryTyped
<1>13. UNCHANGED <<clock, next, detached, started, ended, stopped>>
  BY DEF Clear
<1>14. RegistryTyped'
  BY <1>7, <1>13 DEF SvcInv, RegistryTyped
<1>15. OneRecordEach' /\ StoppedAreFinished'
  BY <1>3, <1>8, <1>11, <1>12, <1>13 DEF SvcInv, OneRecordEach, StoppedAreFinished
<1>16. \A j \in 1..m : Paced(services[j])
  BY <1>3 DEF SvcInv, AllPaced
<1>17. ASSUME NEW k \in 1..(m - 1) PROVE Paced(services[k])'
  <2>1. Paced(services[at[k]])
    BY <1>11, <1>16
  <2> QED
    BY <1>12, <1>13, <2>1 DEF Paced
<1>18. AllPaced'
  BY <1>8, <1>17 DEF AllPaced
<1> QED
  BY <1>14, <1>15, <1>18 DEF SvcInv

\* What the pump does with the service it has come to.
LEMMA PumpKeeps ==
    ASSUME SvcInv, PumpRun \/ PumpRestart \/ PumpSkip
    PROVE  SvcInv'
<1> USE DEF parking
<1>1. PICK s, i : s = services[next] /\ i = next
  OBVIOUS
<1>2. /\ services \in Seq(Service) /\ next \in Nat \ {0} /\ clock \in Nat
      /\ started \in [Detaches -> Nat] /\ ended \in [Detaches -> Nat]
  BY DEF SvcInv, RegistryTyped
<1>3. i \in DOMAIN services
  <2>1. next <= Len(services)
    BY DEF PumpRun, PumpRestart, PumpSkip
  <2> QED
    BY <1>1, <1>2, <2>1
<1>4. /\ s \in Service /\ s.id \in Detaches /\ s.name \in SvcNames /\ s.restarts \in Nat
      /\ s.run \in {"runnable", "blocked", "waiting", "finished"} /\ s.until \in Deadlines
  BY <1>1, <1>2, <1>3, ServiceRecord
<1>5. Paced(s)
  BY <1>1, <1>3 DEF SvcInv, AllPaced
<1>6. ASSUME NEW u \in Service, NEW p, PumpStep(u, p), u.id = s.id, s.run # "finished" \/ u = s,
             started' \in [Detaches -> Nat], ended' \in [Detaches -> Nat],
             \A d \in Detaches : d # s.id => started'[d] = started[d] /\ ended'[d] = ended[d],
             Paced(u)'
      PROVE  SvcInv'
  <2>1. next' \in Nat \ {0}
    BY <1>2, <1>6 DEF PumpStep
  <2> QED
    BY <1>1, <1>3, <1>6, <2>1, RecordRewritten DEF PumpStep
<1>7. CASE PumpSkip
  <2>1. UNCHANGED <<started, ended>> /\ PumpStep(s, FALSE)
    BY <1>1, <1>7 DEF PumpSkip
  <2>2. Paced(s)'
    BY <1>5, <2>1 DEF Paced
  <2> QED
    BY <1>2, <1>4, <1>6, <2>1, <2>2
<1>8. CASE PumpRestart
  <2>0. PICK how \in {"runnable", "finished"} : LET r == [s EXCEPT !.run = how, !.until = 0] IN PumpStep(r, TRUE) /\ Respawned(r)
    BY <1>1, <1>8 DEF PumpRestart
  <2>1. PICK u : u = [s EXCEPT !.run = how, !.until = 0] /\ PumpStep(u, TRUE) /\ Respawned(u)
    BY <2>0
  <2>2. ended' = ended /\ s.run = "waiting"
    BY <1>1, <1>8 DEF PumpRestart, Due
  <2>3. 0 \in Deadlines
    BY DEF Deadlines
  <2>4. u \in Service /\ u.id = s.id /\ u.name = s.name /\ u.run = how /\ u.restarts = s.restarts
    BY <1>4, <2>1, <2>3 DEF Service
  <2>5. started' = [started EXCEPT ![s.id] = IF how = "runnable" THEN @ + 1 ELSE @]
    BY <2>1, <2>4 DEF Respawned
  <2>6. /\ started' \in [Detaches -> Nat] /\ \A d \in Detaches : d # s.id => started'[d] = started[d]
        /\ how = "runnable" => started'[s.id] = started[s.id] + 1
    BY <1>2, <1>4, <2>5
  <2>7. Paced(u)'
    BY <1>5, <2>2, <2>4, <2>6 DEF Paced
  <2> QED
    BY <1>2, <1>6, <2>1, <2>2, <2>4, <2>6, <2>7
<1>9. ASSUME NEW how \in {"runnable", "blocked"}, s.run = "runnable",
             PumpStep([s EXCEPT !.run = how], how = "runnable"), UNCHANGED <<started, ended>>
      PROVE  SvcInv'
  <2>1. PICK u : u = [s EXCEPT !.run = how]
    OBVIOUS
  <2>2. u \in Service /\ u.id = s.id /\ u.name = s.name /\ u.run = how /\ u.restarts = s.restarts
    BY <1>4, <2>1 DEF Service
  <2>3. Paced(u)'
    BY <1>5, <1>9, <2>2 DEF Paced
  <2>4. PumpStep(u, how = "runnable")
    BY <1>9, <2>1
  <2> QED
    BY <1>2, <1>6, <1>9, <2>2, <2>3, <2>4
<1>10. ASSUME NEW u \in AfterRun(s), s.run = "runnable", PumpStep(u, TRUE), Respawned(u),
              ended' = [ended EXCEPT ![s.id] = clock]
       PROVE  SvcInv'
  <2>1. ended' \in [Detaches -> Nat] /\ ended'[s.id] = clock /\ \A d \in Detaches : d # s.id => ended'[d] = ended[d]
    BY <1>2, <1>4, <1>10
  <2>2. 0 \in Deadlines /\ clock + Delay(s.restarts) \in Deadlines
    BY <1>2, <1>4 DEF Deadlines
  <2>3. /\ u \in Service /\ u.id = s.id /\ u.name = s.name
        /\ \/ u.run = "finished"
           \/ u.run = "runnable" /\ Policy[s.name] = "always"
           \/ /\ u.run = "waiting" /\ Policy[s.name] = "backoff" /\ s.restarts < MaxRestarts
              /\ u.restarts = s.restarts + 1 /\ u.until = clock + Delay(s.restarts)
    <3>1. CASE u = Finished(s)
      BY <1>4, <2>2, <3>1 DEF Finished, Service
    <3>2. CASE u = [s EXCEPT !.run = "runnable", !.restarts = s.restarts + 1] /\ Policy[s.name] = "always"
      <4>1. s.restarts + 1 \in Nat
        BY <1>4
      <4> QED
        BY <1>4, <3>2, <4>1 DEF Service
    <3>3. CASE /\ u = [s EXCEPT !.run = "waiting", !.until = clock + Delay(s.restarts), !.restarts = s.restarts + 1]
               /\ Policy[s.name] = "backoff" /\ ~(s.restarts >= MaxRestarts)
      <4>1. s.restarts < MaxRestarts /\ s.restarts + 1 \in Nat
        BY <1>4, <3>3, ServicesAssumption
      <4> QED
        BY <1>4, <2>2, <3>3, <4>1 DEF Service
    <3> QED
      BY <1>4, <1>10, <3>1, <3>2, <3>3, ServicesAssumption DEF AfterRun, Counted
  <2>4. started' = [started EXCEPT ![s.id] = IF u.run = "runnable" THEN @ + 1 ELSE @]
    BY <1>10, <2>3 DEF Respawned
  <2>5. /\ started' \in [Detaches -> Nat] /\ \A d \in Detaches : d # s.id => started'[d] = started[d]
        /\ u.run # "runnable" => started'[s.id] = started[s.id]
    BY <1>2, <1>4, <2>4
  <2>6. Paced(u)'
    <3>1. CASE u.run = "waiting" /\ Policy[s.name] = "backoff"
      <4>1. started[s.id] = s.restarts + 1 /\ started'[s.id] = started[s.id]
        BY <1>5, <1>10, <2>5, <3>1 DEF Paced
      <4>2. u.restarts = s.restarts + 1 /\ u.until = clock + Delay(s.restarts) /\ s.restarts < MaxRestarts
        BY <2>3, <3>1
      <4>3. (s.restarts + 1) - 1 = s.restarts /\ s.restarts + 1 <= MaxRestarts
        BY <1>4, <4>2, ServicesAssumption
      <4> QED
        BY <2>1, <2>3, <3>1, <4>1, <4>2, <4>3 DEF Paced
    <3> QED
      BY <2>3, <3>1 DEF Paced
  <2> QED
    BY <1>6, <1>10, <2>1, <2>3, <2>5, <2>6
<1> QED
  BY <1>1, <1>7, <1>8, <1>9, <1>10 DEF PumpRun

\* Every step of the registry and its loop.
LEMMA ServicesStep == ASSUME SvcInv, [ServicesNext]_svcVars PROVE SvcInv'
<1>1. ASSUME UNCHANGED <<services, clock, detached, started, ended, stopped>>, next' = next \/ next' = 1
      PROVE  SvcInv'
  BY <1>1 DEF SvcInv, RegistryTyped, OneRecordEach, StoppedAreFinished, AllPaced, Paced
<1>2. CASE PumpRun \/ PumpRestart \/ PumpSkip
  BY <1>2, PumpKeeps
<1>3. CASE PumpEnds
  <2>1. next' = 1 /\ clock' = clock /\ UNCHANGED svcHistory
    BY <1>3 DEF PumpEnds
  <2>2. CASE services' = services
    BY <1>1, <2>1, <2>2 DEF svcHistory
  <2>3. CASE services' = [i \in DOMAIN services |-> Finished(services[i])]
    BY <2>1, <2>3, AllFinished
  <2> QED
    BY <1>3, <2>2, <2>3 DEF PumpEnds
<1>4. CASE FuelBudgetSpent
  <2>1. next' \in Nat \ {0}
    BY <1>4 DEF FuelBudgetSpent, SvcInv, RegistryTyped
  <2> QED
    BY <1>4, <2>1, AllFinished DEF FuelBudgetSpent
<1>5. CASE Tick
  BY <1>5 DEF Tick, svcHistory, SvcInv, RegistryTyped, OneRecordEach, StoppedAreFinished, AllPaced, Paced
<1>6. CASE SvcCalls
  BY <1>6, DetachKeeps, StopKeeps, ClearKeeps DEF SvcCalls
<1>7. CASE FgStillWaits \/ FgResumed \/ \E how \in {"out-of-fuel", "blocked", "done"} : FgReturns(how)
  BY <1>1, <1>7 DEF FgStillWaits, FgResumed, FgReturns, svcHistory
<1>8. CASE ParkObserve \/ ParkRegister \/ ParkObserveAgain \/ ParkServices \/ Unpark \/ FgCompletion
  BY <1>1, <1>8 DEF ParkObserve, ParkRegister, ParkObserveAgain, ParkServices, Unpark, FgCompletion, svcHistory
<1>9. CASE UNCHANGED svcVars
  BY <1>1, <1>9 DEF svcVars, svcHistory
<1> QED
  BY <1>2, <1>3, <1>4, <1>5, <1>6, <1>7, <1>8, <1>9 DEF ServicesNext, DriveLoop

LEMMA InitSvcInv == ServicesInit => SvcInv
<1> SUFFICES ASSUME ServicesInit PROVE SvcInv
  OBVIOUS
<1>1. services \in Seq(Service) /\ DOMAIN services = {}
  BY DEF ServicesInit
<1>2. RegistryTyped
  BY <1>1, ServicesAssumption DEF ServicesInit, RegistryTyped
<1> QED
  BY <1>1, <1>2 DEF SvcInv, OneRecordEach, StoppedAreFinished, AllPaced

\* A step starts nothing but a new detach, a service of another policy, or one
\* whose restart is due.
LEMMA StartsAreAllowed ==
    ASSUME SvcInv, [ServicesNext]_svcVars, NEW d \in Detaches, started'[d] # started[d]
    PROVE  \/ d = detached + 1
           \/ \E i \in DOMAIN services :
                /\ services[i].id = d /\ d \notin stopped
                /\ Policy[services[i].name] = "backoff" =>
                     started[d] <= MaxRestarts /\ clock >= ended[d] + Delay(started[d] - 1)
<1> USE DEF parking
<1>1. CASE SvcCalls
  <2>1. PICK n \in SvcNames : Detach(n)
    BY <1>1 DEF SvcCalls, Stop, Clear, svcHistory
  <2> QED
    BY <2>1 DEF Detach, SvcInv, RegistryTyped
<1>2. CASE PumpRun \/ PumpRestart
  <2>1. PICK s, i : s = services[next] /\ i = next
    OBVIOUS
  <2>2. services \in Seq(Service) /\ next \in Nat \ {0} /\ started \in [Detaches -> Nat]
    BY DEF SvcInv, RegistryTyped
  <2>3. i \in DOMAIN services
    <3>1. next <= Len(services)
      BY <1>2 DEF PumpRun, PumpRestart
    <3> QED
      BY <2>1, <2>2, <3>1
  <2>4. s \in Service /\ s.id \in Detaches /\ s.name \in SvcNames
    BY <2>1, <2>2, <2>3, ServiceRecord
  <2>5. Paced(s) /\ (s.id \in stopped => s.run = "finished")
    BY <2>1, <2>3 DEF SvcInv, AllPaced, StoppedAreFinished
  <2>6. CASE PumpRestart
    <3>1. PICK how, u : u = [s EXCEPT !.run = how, !.until = 0] /\ Respawned(u)
      BY <2>1, <2>6 DEF PumpRestart
    <3>2. u.id = s.id
      BY <2>4, <3>1 DEF Service
    <3>3. d = s.id
      BY <2>2, <3>1, <3>2 DEF Respawned
    <3>4. s.run = "waiting" /\ clock >= s.until
      BY <2>1, <2>6 DEF PumpRestart, Due
    <3>5. Policy[s.name] = "backoff" => started[d] <= MaxRestarts /\ clock >= ended[d] + Delay(started[d] - 1)
      BY <2>5, <3>3, <3>4 DEF Paced
    <3> QED
      BY <2>1, <2>3, <2>5, <3>3, <3>4, <3>5
  <2>7. CASE PumpRun
    <3>1. s.run = "runnable" /\ \E u \in AfterRun(s) : Respawned(u)
      BY <2>1, <2>7 DEF PumpRun
    <3>2. PICK u \in AfterRun(s) : Respawned(u)
      BY <3>1
    <3>3. u.id = s.id /\ (u.run = "runnable" => Policy[s.name] = "always")
      <4>1. CASE u = Finished(s)
        BY <2>4, <4>1 DEF Finished, Service
      <4>2. CASE u = [s EXCEPT !.run = "runnable", !.restarts = Counted(s)] /\ Policy[s.name] = "always"
        BY <2>4, <4>2 DEF Service
      <4>3. CASE u = [s EXCEPT !.run = "waiting", !.until = clock + Delay(s.restarts), !.restarts = Counted(s)]
        BY <2>4, <4>3 DEF Service
      <4> QED
        BY <2>4, <3>2, <4>1, <4>2, <4>3, ServicesAssumption DEF AfterRun
    <3>4. d = s.id /\ u.run = "runnable"
      BY <2>2, <3>2, <3>3 DEF Respawned
    <3> QED
      BY <2>1, <2>3, <2>5, <3>1, <3>3, <3>4
  <2> QED
    BY <1>2, <2>6, <2>7
<1> QED
  BY <1>1, <1>2 DEF ServicesNext, DriveLoop, svcVars, svcHistory, PumpSkip, PumpEnds, FuelBudgetSpent, Tick,
     FgStillWaits, FgResumed, FgReturns, ParkObserve, ParkRegister, ParkObserveAgain, ParkServices, Unpark,
     FgCompletion

\* RestartsAreAllowed for any services, policies, delays and order of events:
\* nothing stopped is run again, and a backed-off restart comes neither too
\* early nor too often.
THEOREM RestartsStayAllowed == ServicesSpec => RestartsAreAllowed
<1>1. ASSUME SvcInv, [ServicesNext]_svcVars
      PROVE  /\ \A d \in stopped : started'[d] = started[d]
             /\ \A i \in DOMAIN services :
                  LET d == services[i].id IN
                  Policy[services[i].name] = "backoff" /\ started'[d] > started[d] =>
                      started[d] <= MaxRestarts /\ clock >= ended[d] + Delay(started[d] - 1)
  <2>1. /\ services \in Seq(Service) /\ detached \in 0 .. MaxDetaches /\ stopped \subseteq 1 .. detached
        /\ started \in [Detaches -> Nat]
    BY <1>1 DEF SvcInv, RegistryTyped
  <2>2. ASSUME NEW d \in stopped PROVE started'[d] = started[d]
    <3>1. d \in Detaches /\ d # detached + 1
      BY <2>1, ServicesAssumption DEF Detaches
    <3> QED
      BY <1>1, <3>1, StartsAreAllowed
  <2>3. ASSUME NEW i \in DOMAIN services, NEW d, d = services[i].id, Policy[services[i].name] = "backoff",
               started'[d] > started[d]
        PROVE  started[d] <= MaxRestarts /\ clock >= ended[d] + Delay(started[d] - 1)
    <3>1. d \in Detaches
      BY <2>1, <2>3, ServiceRecord
    <3>2. started'[d] # started[d] /\ d # detached + 1
      BY <1>1, <2>1, <2>3, <3>1 DEF SvcInv, OneRecordEach
    <3>3. PICK j \in DOMAIN services :
            /\ services[j].id = d
            /\ Policy[services[j].name] = "backoff" =>
                 started[d] <= MaxRestarts /\ clock >= ended[d] + Delay(started[d] - 1)
      BY <1>1, <3>1, <3>2, StartsAreAllowed
    <3>4. j = i
      BY <1>1, <2>3, <3>3 DEF SvcInv, OneRecordEach
    <3> QED
      BY <2>3, <3>3, <3>4
  <2> QED
    BY <2>2, <2>3
<1> QED
  BY <1>1, InitSvcInv, ServicesStep, PTL DEF ServicesSpec, RestartsAreAllowed
-----------------------------------------------------------------------------
(***************************************************************************)
(* The named programs of the module store. While commands run one after    *)
(* the other and each to its end, NamesKeepTheirOwner needs the record:    *)
(* what it has of a name, against what the name is bound to, says whose    *)
(* the binding is. A refresh is described by how far it has come, against  *)
(* the bindings and the record it began with.                              *)
(***************************************************************************)

Bindings == [BindNames -> StoreObjects \cup {Unbound}]
Pairs == BindNames \X StoreObjects
SeedRecord == [fingerprint : Binaries, entries : Bindings]
Command ==
    [at : {"idle", "add", "bind", "write", "look", "readRecord", "seed", "record"}, by : {"user"} \cup Binaries,
     forced : BOOLEAN, existing : Bindings, owns : {"all", "recorded"}, old : Bindings, list : Seq(Pairs),
     entries : Bindings, job : Pairs \cup {<<>>}, map : Bindings]

StoreTyped ==
    /\ manifest \in Bindings /\ pinned \in Bindings /\ handmade \in Bindings
    /\ record \in SeedRecord \cup {NoRecord} /\ seeded \in Binaries \cup {NoRecord}
    /\ overlap \in BOOLEAN /\ stops \in Nat
    /\ cmd \in [Commands -> Command]
    /\ \A p \in Commands :
          /\ cmd[p].at \in {"add", "bind", "write"} => cmd[p].job \in Pairs /\ (cmd[p].by = "user" \/ cmd[p].list # <<>>)
          /\ cmd[p].at \in {"look", "readRecord", "seed", "record"} => cmd[p].by \in Binaries

\* The owner of every name, by what a record of the binary by has of it.
NameOwned(n, entries, by, pins) ==
    /\ pins[n] # Unbound => manifest[n] = pins[n] /\ entries[n] # pins[n]
    /\ by # NoRecord /\ n \in Carried(by) =>
          /\ pins[n] = Unbound => manifest[n] = ObjectOf(by, n)
          /\ entries[n] # Unbound => entries[n] = ObjectOf(by, n)
    /\ entries[n] # manifest[n] \/ manifest[n] = Unbound => handmade[n] = manifest[n]
Owned(entries, by, pins) == \A n \in BindNames : NameOwned(n, entries, by, pins)

Rested ==
    IF record = NoRecord THEN pinned = Unnamed /\ seeded = NoRecord /\ Owned(Unnamed, NoRecord, pinned)
    ELSE record.fingerprint = seeded /\ Owned(record.entries, seeded, pinned)

\* What is left of the bundle: its names, each once, and their objects.
Pending(c) == {c.list[k][1] : k \in DOMAIN c.list}
InBundle(c) ==
    /\ \A k \in DOMAIN c.list : c.list[k][1] \in Carried(c.by) /\ c.list[k][2] = ObjectOf(c.by, c.list[k][1])
    /\ \A k, l \in DOMAIN c.list : c.list[k][1] = c.list[l][1] => k = l

\* What the bindings and the record a refresh began with say of a name,
NameKnown(c, n) ==
    /\ pinned[n] # Unbound => c.existing[n] = pinned[n] /\ c.owns = "recorded" /\ c.old[n] # pinned[n]
    /\ c.owns = "recorded" \/ n \notin Carried(c.by) =>
          \/ c.owns = "recorded" /\ c.old[n] = c.existing[n] /\ c.existing[n] # Unbound
          \/ handmade[n] = c.existing[n]

\* and what it has done with the name.
NameDone(c, n) ==
    IF n \in Carried(c.by) \ Pending(c) /\ StillTheSeeders(c, n)
    THEN c.entries[n] = ObjectOf(c.by, n) /\ manifest[n] = ObjectOf(c.by, n)
    ELSE c.entries[n] = Unbound /\ manifest[n] = c.existing[n]
Refreshing(c) == InBundle(c) /\ \A n \in BindNames : NameKnown(c, n) /\ NameDone(c, n)

Pins(c) == [n \in BindNames |-> IF c.entries[n] = Unbound THEN handmade[n] ELSE pinned[n]]

\* Where a command that runs alone is, and what then holds.
UsersStep(c) == c.by = "user" /\ c.at \in {"add", "bind", "write"} /\ Rested
LookStep(c) == c.at = "look" /\ Rested /\ c.owns = "all" /\ c.old = Unnamed /\ c.entries = Unnamed
RecordStep(c) ==
    /\ c.at = "readRecord" /\ Rested /\ c.owns = "all" /\ c.old = Unnamed /\ c.entries = Unnamed
    /\ c.existing = manifest /\ c.list = Bundle[c.by]
SeedStep(c) ==
    /\ c.by \in Binaries /\ c.at \in {"seed", "add", "bind", "write"} /\ Refreshing(c)
    /\ c.at # "seed" => c.list # <<>> /\ c.job = Head(c.list) /\ StillTheSeeders(c, c.job[1])
EndStep(c) == c.at = "record" /\ Owned(c.entries, c.by, Pins(c))

InStep(c) ==
    /\ UsersStep(c) \/ LookStep(c) \/ RecordStep(c) \/ SeedStep(c) \/ EndStep(c)
    /\ c.at = "write" => c.map = manifest

StoreInv ==
    /\ StoreTyped
    /\ Calm => /\ \A p, q \in Busy : p = q
               /\ \A p \in Busy : InStep(cmd[p])
               /\ Busy = {} => Rested

\* The names of a bundle and their objects.
LEMMA BundleNames ==
    ASSUME NEW b \in Binaries
    PROVE  /\ Bundle[b] \in Seq(Pairs)
           /\ \A k \in DOMAIN Bundle[b] : /\ Bundle[b][k][1] \in Carried(b)
                                          /\ Bundle[b][k][2] = ObjectOf(b, Bundle[b][k][1])
           /\ \A k, l \in DOMAIN Bundle[b] : Bundle[b][k][1] = Bundle[b][l][1] => k = l
           /\ \A n \in Carried(b) : ObjectOf(b, n) \in StoreObjects /\ ObjectOf(b, n) # Unbound
           /\ Carried(b) = {Bundle[b][k][1] : k \in DOMAIN Bundle[b]}
<1>1. PICK s : s = Bundle[b]
  OBVIOUS
<1>2. /\ s \in Seq(Pairs) /\ \A k, l \in DOMAIN s : s[k][1] = s[l][1] => k = l
      /\ Unbound \notin StoreObjects
  BY <1>1, StoreAssumption DEF Pairs
<1>3. \A k \in DOMAIN s : s[k] \in Pairs
  BY <1>2
<1>4. Carried(b) = {s[k][1] : k \in DOMAIN s} /\ ToSet(Bundle[b]) = {s[k] : k \in DOMAIN s}
  BY <1>1 DEF Carried, ToSet
<1>5. ASSUME NEW k \in DOMAIN s PROVE s[k][1] \in Carried(b) /\ s[k][2] = ObjectOf(b, s[k][1])
  <2>1. PICK q : q = CHOOSE pair \in ToSet(Bundle[b]) : pair[1] = s[k][1]
    OBVIOUS
  <2>2. q \in ToSet(Bundle[b]) /\ q[1] = s[k][1]
    BY <1>4, <2>1
  <2>3. q = s[k]
    BY <1>2, <1>4, <2>2
  <2> QED
    BY <1>4, <2>1, <2>3 DEF ObjectOf
<1>6. ASSUME NEW n \in Carried(b) PROVE ObjectOf(b, n) \in StoreObjects /\ ObjectOf(b, n) # Unbound
  <2>1. PICK k \in DOMAIN s : n = s[k][1]
    BY <1>4
  <2>2. s[k] \in Pairs /\ ObjectOf(b, n) = s[k][2]
    BY <1>3, <1>5, <2>1
  <2> QED
    BY <1>2, <2>2 DEF Pairs
<1> QED
  BY <1>1, <1>2, <1>4, <1>5, <1>6

\* One command moves on.
LEMMA CommandSteps ==
    ASSUME StoreInv, NEW p \in Commands, NEW c \in Command, cmd' = [cmd EXCEPT ![p] = c],
           c.at \in {"add", "bind", "write"} => c.job \in Pairs /\ (c.by = "user" \/ c.list # <<>>),
           c.at \in {"look", "readRecord", "seed", "record"} => c.by \in Binaries,
           manifest' \in Bindings, pinned' \in Bindings, handmade' \in Bindings,
           record' \in SeedRecord \cup {NoRecord}, seeded' \in Binaries \cup {NoRecord},
           overlap' \in BOOLEAN, stops' \in Nat,
           Calm' => Calm /\ (p \in Busy \/ Busy = {}),
           Calm' => IF c.at = "idle" THEN Rested' ELSE InStep(c)'
    PROVE  StoreInv'
<1>1. cmd \in [Commands -> Command]
  BY DEF StoreInv, StoreTyped
<1>2. cmd' \in [Commands -> Command] /\ cmd'[p] = c /\ \A q \in Commands : q # p => cmd'[q] = cmd[q]
  BY <1>1
<1>3. StoreTyped'
  BY <1>2 DEF StoreInv, StoreTyped
<1>4. ASSUME Calm' PROVE Busy' = IF c.at = "idle" THEN {} ELSE {p}
  <2>1. \A q \in Commands : q # p => q \notin Busy
    BY <1>4 DEF StoreInv
  <2> QED
    BY <1>2, <2>1 DEF Busy
<1>5. ASSUME Calm' PROVE /\ \A q, r \in Busy' : q = r
                         /\ \A q \in Busy' : InStep(cmd[q])'
                         /\ Busy' = {} => Rested'
  <2>1. c.at # "idle" => InStep(cmd[p])'
    BY <1>2, <1>5
  <2> QED
    BY <1>4, <1>5, <2>1
<1> QED
  BY <1>3, <1>5 DEF StoreInv

\* What is known of a command under way.
LEMMA CommandKnown ==
    ASSUME StoreInv, NEW p \in Commands, cmd[p].at # "idle"
    PROVE  /\ p \in Busy /\ cmd[p] \in Command
           /\ cmd[p].at \in {"add", "bind", "write"} => cmd[p].job \in Pairs /\ (cmd[p].by = "user" \/ cmd[p].list # <<>>)
           /\ cmd[p].at \in {"look", "readRecord", "seed", "record"} => cmd[p].by \in Binaries
           /\ Calm => InStep(cmd[p])
BY DEF StoreInv, StoreTyped, Busy

LEMMA StoreTypes ==
    ASSUME StoreInv
    PROVE  /\ manifest \in Bindings /\ pinned \in Bindings /\ handmade \in Bindings /\ Unnamed \in Bindings
           /\ record \in SeedRecord \cup {NoRecord} /\ seeded \in Binaries \cup {NoRecord}
           /\ overlap \in BOOLEAN /\ stops \in Nat /\ NoRecord \notin SeedRecord
           /\ Resting \in Command /\ "user" \notin Binaries
<1>1. Unnamed \in Bindings
  BY DEF Unnamed, Bindings
<1>2. <<>> \in Seq(Pairs)
  OBVIOUS
<1>3. Resting \in Command
  BY <1>1, <1>2 DEF Resting, Command
<1> QED
  BY <1>1, <1>3, StoreAssumption DEF StoreInv, StoreTyped, SeedRecord, Bindings

\* A step that leaves bindings, record and history alone.
LEMMA StoreLeft ==
    ASSUME UNCHANGED <<manifest, record, pinned, handmade, seeded>>
    PROVE  /\ Rested' <=> Rested
           /\ \A c : /\ Refreshing(c)' <=> Refreshing(c)
                     /\ Owned(c.entries, c.by, Pins(c))' <=> Owned(c.entries, c.by, Pins(c))
<1>1. Rested' <=> Rested
  BY DEF Rested, Owned, NameOwned
<1>2. ASSUME NEW c PROVE Refreshing(c)' <=> Refreshing(c)
  BY DEF Refreshing, NameKnown, NameDone
<1>3. ASSUME NEW c PROVE Owned(c.entries, c.by, Pins(c))' <=> Owned(c.entries, c.by, Pins(c))
  BY DEF Owned, NameOwned, Pins
<1> QED
  BY <1>1, <1>2, <1>3

\* A command begins; alone, it finds the store at rest.
LEMMA IssueKeeps ==
    ASSUME StoreInv, NEW p \in Commands, NEW c \in Command, Issue(p, c),
           \/ c.by = "user" /\ c.at = "add" /\ c.job \in Pairs
           \/ c.by \in Binaries /\ c.at = "look" /\ c.owns = "all" /\ c.old = Unnamed /\ c.entries = Unnamed
    PROVE  StoreInv'
<1>1. UNCHANGED <<manifest, record, pinned, handmade, seeded>> /\ UNCHANGED stops
      /\ overlap' = (overlap \/ Busy # {}) /\ cmd' = [cmd EXCEPT ![p] = c]
  BY DEF Issue, storeHistory
<1>2. overlap' \in BOOLEAN /\ (overlap' <=> overlap \/ Busy # {})
  BY <1>1, StoreTypes
<1>3. ASSUME Calm' PROVE Calm /\ Busy = {} /\ InStep(c)'
  <2>1. Calm /\ Busy = {}
    BY <1>1, <1>2, <1>3 DEF Calm
  <2>2. Rested'
    BY <1>1, <2>1, StoreLeft DEF StoreInv
  <2> QED
    BY <2>1, <2>2 DEF InStep, UsersStep, LookStep
<1> QED
  BY <1>1, <1>2, <1>3, StoreTypes, CommandSteps

LEMMA BeginKeeps == ASSUME StoreInv, NEW p \in Commands, UserAdds(p) \/ Starts(p) PROVE StoreInv'
<1>1. CASE UserAdds(p)
  <2>1. PICK n \in UserNames, o \in UserObjects : Issue(p, [Resting EXCEPT !.at = "add", !.job = <<n, o>>])
    BY <1>1 DEF UserAdds
  <2>2. PICK c : c = [Resting EXCEPT !.at = "add", !.job = <<n, o>>]
    OBVIOUS
  <2>3. <<n, o>> \in Pairs
    BY DEF Pairs, BindNames, StoreObjects
  <2>4. c \in Command
    BY <2>2, <2>3, StoreTypes DEF Command
  <2>5. c.by = "user" /\ c.at = "add" /\ c.job \in Pairs
    BY <2>2, <2>3 DEF Resting
  <2> QED
    BY <2>1, <2>2, <2>4, <2>5, IssueKeeps
<1>2. CASE Starts(p)
  <2>1. PICK b \in Binaries, forced \in BOOLEAN :
          Issue(p, [Resting EXCEPT !.at = "look", !.by = b, !.forced = forced])
    BY <1>2 DEF Starts
  <2>2. PICK c : c = [Resting EXCEPT !.at = "look", !.by = b, !.forced = forced]
    OBVIOUS
  <2>3. c \in Command
    BY <2>2, StoreTypes DEF Command
  <2>4. c.by \in Binaries /\ c.at = "look" /\ c.owns = "all" /\ c.old = Unnamed /\ c.entries = Unnamed
    BY <2>2 DEF Resting
  <2> QED
    BY <2>1, <2>2, <2>3, <2>4, IssueKeeps
<1> QED
  BY <1>1, <1>2

\* A refresh that begins: all of its bundle is before it.
LEMMA BeginsRefresh ==
    ASSUME StoreTyped, NEW c \in Command, c.by \in Binaries, c.list = Bundle[c.by],
           c.existing = manifest, c.entries = Unnamed, \A n \in BindNames : NameKnown(c, n)
    PROVE  Refreshing(c)
<1>1. InBundle(c) /\ Pending(c) = Carried(c.by)
  BY BundleNames DEF InBundle, Pending
<1>2. \A n \in BindNames : NameDone(c, n)
  BY <1>1 DEF NameDone, Unnamed
<1> QED
  BY <1>1, <1>2 DEF Refreshing

LEMMA LookKeeps == ASSUME StoreInv, NEW p \in Commands, Look(p) PROVE StoreInv'
<1>1. PICK c, first : c = cmd[p] /\ first \in BOOLEAN /\ (first <=> manifest = Unnamed)
  OBVIOUS
<1>2. PICK d : d = [c EXCEPT !.at = IF first THEN "seed" ELSE "readRecord", !.existing = manifest, !.list = Bundle[c.by]]
  OBVIOUS
<1>3. /\ cmd' = [cmd EXCEPT ![p] = d] /\ c.at = "look"
      /\ UNCHANGED <<manifest, record, pinned, handmade, seeded, overlap, stops>>
  BY <1>1, <1>2 DEF Look, storeHistory, limits
<1>4. c \in Command /\ c.by \in Binaries /\ p \in Busy /\ (Calm => InStep(c))
  BY <1>1, <1>3, CommandKnown
<1>5. /\ d \in Command /\ d.by = c.by /\ d.at = (IF first THEN "seed" ELSE "readRecord")
      /\ d.existing = manifest /\ d.list = Bundle[c.by] /\ d.owns = c.owns /\ d.old = c.old /\ d.entries = c.entries
  <2>1. Bundle[c.by] \in Seq(Pairs) /\ manifest \in Bindings
    BY <1>4, BundleNames, StoreTypes
  <2> QED
    BY <1>1, <1>2, <1>4, <2>1 DEF Command
<1>6. ASSUME Calm' PROVE Calm /\ InStep(d)'
  <2>1. Calm /\ LookStep(c)
    BY <1>3, <1>4, <1>6 DEF Calm, InStep, UsersStep, LookStep, RecordStep, SeedStep, EndStep
  <2>2. Rested'
    BY <1>3, <2>1, StoreLeft DEF LookStep
  <2>3. CASE ~first
    BY <1>3, <1>5, <2>1, <2>2, <2>3 DEF InStep, LookStep, RecordStep
  <2>4. CASE first
    <3>1. \A n \in BindNames : manifest[n] = Unbound /\ pinned[n] = Unbound /\ handmade[n] = Unbound
      BY <1>1, <2>1, <2>4 DEF LookStep, Rested, Owned, NameOwned, Unnamed
    <3>2. \A n \in BindNames : NameKnown(d, n)
      BY <1>5, <3>1 DEF NameKnown
    <3>3. Refreshing(d)
      BY <1>4, <1>5, <2>1, <3>2, BeginsRefresh DEF LookStep, StoreInv
    <3>4. Refreshing(d)'
      BY <1>3, <3>3, StoreLeft
    <3>5. d.at = "seed" /\ d.by \in Binaries
      BY <1>4, <1>5, <2>4
    <3>6. SeedStep(d)'
      BY <3>4, <3>5 DEF SeedStep
    <3> QED
      BY <2>1, <3>5, <3>6 DEF InStep
  <2> QED
    BY <1>1, <2>1, <2>3, <2>4
<1> QED
  BY <1>1, <1>3, <1>4, <1>5, <1>6, StoreTypes, CommandSteps

\* A refresh is decided on the record, or on its absence.
LEMMA ReadRecordKeeps == ASSUME StoreInv, NEW p \in Commands, ReadRecord(p) PROVE StoreInv'
<1>1. PICK c, d : c = cmd[p] /\ d = cmd'[p]
  OBVIOUS
<1>2. /\ c.at = "readRecord" /\ UNCHANGED <<manifest, record, pinned, seeded, overlap, stops>>
      /\ \/ d = Resting
         \/ /\ record # NoRecord /\ d = [c EXCEPT !.at = "seed", !.owns = "recorded", !.old = record.entries]
         \/ record = NoRecord /\ d = [c EXCEPT !.at = "seed"]
      /\ d = Resting => handmade' = handmade
      /\ \/ handmade' = handmade
         \/ /\ record = NoRecord
            /\ handmade' = [n \in BindNames |-> IF n \in Carried(c.by) THEN Unbound ELSE handmade[n]]
      /\ cmd' = [cmd EXCEPT ![p] = d]
  <2>1. cmd \in [Commands -> Command]
    BY DEF StoreInv, StoreTyped
  <2>2. /\ c.at = "readRecord" /\ UNCHANGED <<manifest, record, pinned, seeded, overlap, stops>>
        /\ \/ handmade' = handmade
           \/ /\ record = NoRecord
              /\ handmade' = [n \in BindNames |-> IF n \in Carried(c.by) THEN Unbound ELSE handmade[n]]
    BY <1>1 DEF ReadRecord, limits
  <2>3. PICK e : /\ cmd' = [cmd EXCEPT ![p] = e]
                 /\ e = IF record # NoRecord
                        THEN IF ~c.forced /\ record.fingerprint = c.by THEN Resting
                             ELSE [c EXCEPT !.at = "seed", !.owns = "recorded", !.old = record.entries]
                        ELSE IF c.forced \/ c.existing[Eosh] # Unbound THEN [c EXCEPT !.at = "seed"] ELSE Resting
    BY <1>1 DEF ReadRecord
  <2>4. e = d
    BY <1>1, <2>1, <2>3
  <2>5. d = Resting => handmade' = handmade
    <3>1. Resting.at = "idle"
      BY DEF Resting
    <3>2. d = Resting => d.at # "seed"
      BY <3>1
    <3>3. [c EXCEPT !.at = "seed"].at = "seed"
      BY <1>1, <2>1 DEF Command
    <3>4. ASSUME c.forced, record = NoRecord PROVE d # Resting
      BY <2>3, <2>4, <3>2, <3>3, <3>4
    <3>5. handmade' # handmade => c.forced /\ record = NoRecord
      BY <1>1 DEF ReadRecord
    <3> QED
      BY <3>4, <3>5
  <2> QED
    BY <2>2, <2>3, <2>4, <2>5
<1>3. c \in Command /\ c.by \in Binaries /\ p \in Busy /\ (Calm => InStep(c))
  BY <1>1, <1>2, CommandKnown
<1>4. handmade' \in Bindings
  BY <1>2, StoreTypes DEF Bindings
<1>5. ASSUME Calm' PROVE Calm /\ RecordStep(c)
  BY <1>2, <1>3, <1>5 DEF Calm, InStep, UsersStep, LookStep, RecordStep, SeedStep, EndStep
<1>6. CASE d = Resting
  <2>1. d.at = "idle" /\ d \in Command
    BY <1>6, StoreTypes DEF Resting
  <2>2. ASSUME Calm' PROVE Rested'
    BY <1>2, <1>5, <1>6, <2>2, StoreLeft DEF RecordStep
  <2> QED
    BY <1>2, <1>3, <1>4, <1>5, <2>1, <2>2, StoreTypes, CommandSteps
<1>7. CASE record # NoRecord /\ d = [c EXCEPT !.at = "seed", !.owns = "recorded", !.old = record.entries]
  <2>1. record.entries \in Bindings
    BY <1>7, StoreTypes DEF SeedRecord
  <2>2. /\ d \in Command /\ d.at = "seed" /\ d.by = c.by /\ d.owns = "recorded" /\ d.old = record.entries
        /\ d.list = c.list /\ d.entries = c.entries /\ d.existing = c.existing
    BY <1>3, <1>7, <2>1 DEF Command
  <2>3. ASSUME Calm' PROVE InStep(d)'
    <3>1. RecordStep(c) /\ handmade' = handmade
      BY <1>2, <1>5, <1>7, <2>3
    <3>2. \A n \in BindNames : NameOwned(n, record.entries, seeded, pinned)
      BY <1>7, <3>1 DEF RecordStep, Rested, Owned
    <3>3. \A n \in BindNames : NameKnown(d, n)
      BY <2>2, <3>1, <3>2 DEF NameKnown, NameOwned, RecordStep
    <3>4. Refreshing(d)
      BY <1>3, <2>2, <3>1, <3>3, BeginsRefresh DEF RecordStep, StoreInv
    <3>5. Refreshing(d)'
      BY <1>2, <3>1, <3>4, StoreLeft
    <3>6. SeedStep(d)'
      BY <1>3, <2>2, <3>5 DEF SeedStep
    <3> QED
      BY <2>2, <3>6 DEF InStep
  <2> QED
    BY <1>2, <1>3, <1>4, <1>5, <2>2, <2>3, StoreTypes, CommandSteps
<1>8. CASE record = NoRecord /\ d = [c EXCEPT !.at = "seed"]
  <2>1. /\ d \in Command /\ d.at = "seed" /\ d.by = c.by /\ d.owns = c.owns /\ d.old = c.old
        /\ d.list = c.list /\ d.entries = c.entries /\ d.existing = c.existing
    BY <1>3, <1>8 DEF Command
  <2>2. ASSUME Calm' PROVE InStep(d)'
    <3>1. RecordStep(c)
      BY <1>5, <2>2
    <3>2. \A n \in BindNames : NameOwned(n, Unnamed, NoRecord, pinned) /\ pinned[n] = Unbound /\ Unnamed[n] = Unbound
      BY <1>8, <3>1 DEF RecordStep, Rested, Owned, Unnamed
    <3>3. \A n \in BindNames : handmade[n] = manifest[n]
      BY <3>2 DEF NameOwned
    <3>4. \A n \in BindNames : n \notin Carried(c.by) => handmade'[n] = handmade[n]
      BY <1>2
    <3>5. \A n \in BindNames : NameKnown(d, n)'
      BY <1>2, <2>1, <3>1, <3>2, <3>3, <3>4 DEF NameKnown, RecordStep
    <3>6. StoreTyped' /\ UNCHANGED manifest
      <4>1. d.by \in Binaries
        BY <1>3, <2>1
      <4> QED
        BY <1>2, <1>4, <2>1, <4>1 DEF StoreInv, StoreTyped
    <3>7. InBundle(d) /\ Pending(d) = Carried(d.by)
      BY <1>3, <2>1, <3>1, BundleNames DEF InBundle, Pending, RecordStep
    <3>8. \A n \in BindNames : NameDone(d, n)'
      BY <1>2, <2>1, <3>1, <3>7 DEF NameDone, Unnamed, RecordStep
    <3>9. Refreshing(d)'
      BY <3>5, <3>7, <3>8 DEF Refreshing
    <3>10. SeedStep(d)'
      BY <1>3, <2>1, <3>9 DEF SeedStep
    <3> QED
      BY <2>1, <3>10 DEF InStep
  <2> QED
    BY <1>2, <1>3, <1>4, <1>5, <2>1, <2>2, StoreTypes, CommandSteps
<1> QED
  BY <1>2, <1>6, <1>7, <1>8

\* The object of a binding is stored, and the manifest read.
LEMMA AddKeeps == ASSUME StoreInv, NEW p \in Commands, AddObject(p) \/ ReadManifest(p) PROVE StoreInv'
<1>1. PICK c : c = cmd[p]
  OBVIOUS
<1>2. PICK d : /\ cmd' = [cmd EXCEPT ![p] = d]
               /\ \/ c.at = "add" /\ d = [c EXCEPT !.at = "bind"]
                  \/ c.at = "bind" /\ d = [c EXCEPT !.at = "write", !.map = manifest]
  BY <1>1 DEF AddObject, ReadManifest
<1>3. UNCHANGED <<manifest, record, pinned, handmade, seeded, overlap, stops>>
  BY DEF AddObject, ReadManifest, storeHistory, limits
<1>4. c \in Command /\ c.job \in Pairs /\ (c.by = "user" \/ c.list # <<>>) /\ p \in Busy /\ (Calm => InStep(c))
  BY <1>1, <1>2, CommandKnown
<1>5. /\ d \in Command /\ d.at \in {"bind", "write"} /\ d.by = c.by /\ d.owns = c.owns /\ d.old = c.old /\ d.job = c.job
      /\ d.list = c.list /\ d.entries = c.entries /\ d.existing = c.existing
      /\ d.at = "write" => d.map = manifest
  BY <1>2, <1>4, StoreTypes DEF Command
<1>6. ASSUME Calm' PROVE Calm /\ InStep(d)'
  <2>1. Calm /\ (UsersStep(c) \/ SeedStep(c))
    BY <1>2, <1>3, <1>4, <1>6 DEF Calm, InStep, UsersStep, LookStep, RecordStep, SeedStep, EndStep
  <2>2. CASE UsersStep(c)
    <3>1. Rested'
      BY <1>3, <2>2, StoreLeft DEF UsersStep
    <3> QED
      BY <1>3, <1>5, <2>1, <2>2, <3>1 DEF UsersStep, InStep
  <2>3. CASE SeedStep(c)
    <3>1. Refreshing(d)
      BY <1>5, <2>3 DEF SeedStep, Refreshing, NameKnown, NameDone, InBundle, Pending, StillTheSeeders
    <3>2. Refreshing(d)'
      BY <1>3, <3>1, StoreLeft
    <3>3. d.list # <<>> /\ d.job = Head(d.list) /\ StillTheSeeders(d, d.job[1])
      BY <1>2, <1>5, <2>3 DEF SeedStep, StillTheSeeders
    <3>4. SeedStep(d)'
      BY <1>5, <2>3, <3>2, <3>3 DEF SeedStep
    <3> QED
      BY <1>3, <1>5, <2>1, <3>4 DEF InStep
  <2> QED
    BY <2>1, <2>2, <2>3
<1> QED
  BY <1>3, <1>2, <1>4, <1>5, <1>6, StoreTypes, CommandSteps

\* A command that stops ends the calm.
LEMMA StopsKeeps == ASSUME StoreInv, NEW p \in Commands, Stops(p) PROVE StoreInv'
<1>1. /\ cmd' = [cmd EXCEPT ![p] = Resting] /\ stops' = stops + 1
      /\ UNCHANGED <<manifest, record, pinned, handmade, seeded, overlap>>
  BY DEF Stops, storeHistory
<1>2. stops' \in Nat /\ ~Calm'
  BY <1>1, StoreTypes DEF Calm
<1>3. Resting.at = "idle"
  BY DEF Resting
<1> QED
  BY <1>1, <1>2, <1>3, StoreTypes, CommandSteps

\* The head of what is left, and the rest.
LEMMA ListHead ==
    ASSUME NEW c \in Command, InBundle(c), c.list # <<>>, NEW d, d.list = Tail(c.list), d.by = c.by
    PROVE  /\ Head(c.list) \in Pairs /\ Head(c.list)[1] \in Carried(c.by) /\ Head(c.list)[1] \in BindNames
           /\ Head(c.list)[2] = ObjectOf(c.by, Head(c.list)[1]) /\ Head(c.list)[2] \in StoreObjects
           /\ d.list \in Seq(Pairs) /\ InBundle(d)
           /\ Pending(d) = Pending(c) \ {Head(c.list)[1]} /\ Head(c.list)[1] \in Pending(c)
<1>1. PICK s, t, m : s = c.list /\ t = d.list /\ m = Len(s)
  OBVIOUS
<1>2. s \in Seq(Pairs) /\ s # <<>> /\ t = Tail(s)
  BY <1>1 DEF Command
<1>3. /\ m \in Nat /\ m >= 1 /\ DOMAIN s = 1..m /\ Head(s) = s[1]
      /\ t \in Seq(Pairs) /\ Len(t) = m - 1 /\ \A k \in 1..(m - 1) : t[k] = s[k + 1]
  BY <1>1, <1>2
<1>4. DOMAIN t = 1..(m - 1)
  BY <1>3
<1>5. /\ \A k \in 1..m : s[k][1] \in Carried(c.by) /\ s[k][2] = ObjectOf(c.by, s[k][1])
      /\ \A k, l \in 1..m : s[k][1] = s[l][1] => k = l
  BY <1>1, <1>3 DEF InBundle
<1>6. s[1] \in Pairs /\ s[1][1] \in BindNames /\ s[1][2] \in StoreObjects
  BY <1>2, <1>3 DEF Pairs
<1>7. \A k \in 1..(m - 1) : k + 1 \in 1..m /\ k + 1 # 1
  BY <1>3
<1>8. InBundle(d)
  <2>1. ASSUME NEW k \in 1..(m - 1), NEW l \in 1..(m - 1), t[k][1] = t[l][1] PROVE k = l
    <3>1. k + 1 = l + 1
      BY <1>3, <1>5, <1>7, <2>1
    <3> QED
      BY <3>1
  <2>2. \A k \in 1..(m - 1) : t[k][1] \in Carried(d.by) /\ t[k][2] = ObjectOf(d.by, t[k][1])
    BY <1>3, <1>5, <1>7
  <2> QED
    BY <1>1, <1>4, <2>1, <2>2 DEF InBundle
<1>9. Pending(d) = Pending(c) \ {s[1][1]} /\ s[1][1] \in Pending(c)
  <2>1. Pending(c) = {s[k][1] : k \in 1..m} /\ Pending(d) = {t[k][1] : k \in 1..(m - 1)}
    BY <1>1, <1>3, <1>4 DEF Pending
  <2>2. ASSUME NEW k \in 1..(m - 1) PROVE t[k][1] \in {s[l][1] : l \in 1..m} /\ t[k][1] # s[1][1]
    <3>1. t[k] = s[k + 1] /\ k + 1 \in 1..m /\ k + 1 # 1 /\ 1 \in 1..m
      BY <1>3, <1>7
    <3> QED
      BY <1>5, <3>1
  <2>3. ASSUME NEW k \in 1..m, s[k][1] # s[1][1] PROVE s[k][1] \in {t[l][1] : l \in 1..(m - 1)}
    <3>1. k - 1 \in 1..(m - 1) /\ (k - 1) + 1 = k
      BY <1>3, <2>3
    <3>2. t[k - 1] = s[k]
      BY <1>3, <3>1
    <3> QED
      BY <3>1, <3>2
  <2>4. 1 \in 1..m
    BY <1>3
  <2> QED
    BY <2>1, <2>2, <2>3, <2>4
<1> QED
  BY <1>1, <1>3, <1>5, <1>6, <1>8, <1>9

\* A name is left to the user, found current, or about to be bound.
LEMMA SeedNextKeeps == ASSUME StoreInv, NEW p \in Commands, SeedNext(p) PROVE StoreInv'
<1>1. PICK c, n, o, d :
        /\ c = cmd[p] /\ n = Head(c.list)[1] /\ o = Head(c.list)[2] /\ cmd' = [cmd EXCEPT ![p] = d]
        /\ d = IF ~StillTheSeeders(c, n) THEN [c EXCEPT !.list = Tail(c.list)]
               ELSE IF c.existing[n] = o THEN [c EXCEPT !.list = Tail(c.list), !.entries[n] = o]
               ELSE [c EXCEPT !.at = "add", !.job = Head(c.list)]
  <2> DEFINE c == cmd[p]
             n == Head(c.list)[1]
             o == Head(c.list)[2]
             d == IF ~StillTheSeeders(c, n) THEN [c EXCEPT !.list = Tail(c.list)]
                  ELSE IF c.existing[n] = o THEN [c EXCEPT !.list = Tail(c.list), !.entries[n] = o]
                  ELSE [c EXCEPT !.at = "add", !.job = Head(c.list)]
  <2>1. cmd' = [cmd EXCEPT ![p] = d]
    BY DEF SeedNext
  <2> QED
    BY <2>1
<1>2. c.at = "seed" /\ c.list # <<>> /\ UNCHANGED <<manifest, record, pinned, handmade, seeded, overlap, stops>>
  BY <1>1 DEF SeedNext, storeHistory, limits
<1>3. c \in Command /\ c.by \in Binaries /\ p \in Busy /\ (Calm => InStep(c))
  BY <1>1, <1>2, CommandKnown
<1>4. Head(c.list) \in Pairs /\ Tail(c.list) \in Seq(Pairs) /\ n \in BindNames /\ o \in StoreObjects
  <2>1. c.list \in Seq(Pairs)
    BY <1>3 DEF Command
  <2>2. Head(c.list) \in Pairs /\ Tail(c.list) \in Seq(Pairs)
    BY <1>2, <2>1
  <2> QED
    BY <1>1, <2>2 DEF Pairs
<1>5. ASSUME Calm PROVE Refreshing(c)
  BY <1>2, <1>3, <1>5 DEF InStep, UsersStep, LookStep, RecordStep, SeedStep, EndStep
<1>6. ASSUME NEW entries \in Bindings, d = [c EXCEPT !.list = Tail(c.list), !.entries = entries],
             IF StillTheSeeders(c, n) THEN c.existing[n] = o /\ entries = [c.entries EXCEPT ![n] = o]
             ELSE entries = c.entries
      PROVE  StoreInv'
  <2>1. /\ d \in Command /\ d.at = "seed" /\ d.by = c.by /\ d.owns = c.owns /\ d.old = c.old
        /\ d.list = Tail(c.list) /\ d.entries = entries /\ d.existing = c.existing
    BY <1>2, <1>3, <1>4, <1>6 DEF Command
  <2>2. ASSUME Calm PROVE InStep(d)'
    <3>1. Refreshing(c)
      BY <1>5, <2>2
    <3>2. /\ n \in Carried(c.by) /\ n \in Pending(c) /\ o = ObjectOf(c.by, n)
          /\ InBundle(d) /\ Pending(d) = Pending(c) \ {n}
      <4>1. InBundle(c) /\ c.list # <<>> /\ d.list = Tail(c.list) /\ d.by = c.by
        BY <1>2, <2>1, <3>1 DEF Refreshing
      <4>2. /\ Head(c.list)[1] \in Carried(c.by) /\ Head(c.list)[2] = ObjectOf(c.by, Head(c.list)[1])
            /\ InBundle(d) /\ Pending(d) = Pending(c) \ {Head(c.list)[1]} /\ Head(c.list)[1] \in Pending(c)
        BY <1>3, <4>1, ListHead
      <4> QED
        BY <1>1, <4>2
    <3>3. \A m \in BindNames : StillTheSeeders(d, m) <=> StillTheSeeders(c, m)
      BY <2>1 DEF StillTheSeeders
    <3>4. ASSUME NEW m \in BindNames PROVE NameKnown(d, m)
      BY <2>1, <3>1 DEF Refreshing, NameKnown
    <3>5. ASSUME NEW m \in BindNames PROVE NameDone(d, m)
      <4>1. CASE m # n
        BY <1>3, <1>6, <2>1, <3>1, <3>2, <3>3, <4>1 DEF Refreshing, NameDone, Command, Bindings
      <4>2. CASE m = n
        <5>1. c.entries[n] = Unbound /\ manifest[n] = c.existing[n]
          BY <3>1, <3>2, <4>2 DEF Refreshing, NameDone
        <5>2. StillTheSeeders(c, n) => entries[n] = o
          BY <1>3, <1>6, <4>2 DEF Command, Bindings
        <5> QED
          BY <1>6, <2>1, <3>2, <3>3, <4>2, <5>1, <5>2 DEF NameDone
      <4> QED
        BY <4>1, <4>2
    <3>6. Refreshing(d)'
      BY <1>2, <3>2, <3>4, <3>5, StoreLeft DEF Refreshing
    <3>7. SeedStep(d)'
      BY <1>3, <2>1, <3>6 DEF SeedStep
    <3> QED
      BY <2>1, <3>7 DEF InStep
  <2>3. ASSUME Calm' PROVE Calm /\ InStep(d)'
    BY <1>2, <2>2, <2>3 DEF Calm
  <2> QED
    BY <1>1, <1>2, <1>3, <2>1, <2>3, StoreTypes, CommandSteps
<1>7. CASE ~StillTheSeeders(c, n)
  <2>1. c.entries \in Bindings /\ d = [c EXCEPT !.list = Tail(c.list), !.entries = c.entries]
    BY <1>1, <1>3, <1>7 DEF Command
  <2> QED
    BY <1>6, <1>7, <2>1
<1>8. CASE StillTheSeeders(c, n) /\ c.existing[n] = o
  <2>1. PICK entries : entries = [c.entries EXCEPT ![n] = o]
    OBVIOUS
  <2>2. entries \in Bindings
    BY <1>3, <1>4, <2>1 DEF Command, Bindings
  <2>3. d = [c EXCEPT !.list = Tail(c.list), !.entries = entries]
    BY <1>1, <1>8, <2>1
  <2> QED
    BY <1>6, <1>8, <2>1, <2>2, <2>3
<1>9. CASE StillTheSeeders(c, n) /\ c.existing[n] # o
  <2>1. d = [c EXCEPT !.at = "add", !.job = Head(c.list)]
    BY <1>1, <1>9
  <2>2. /\ d \in Command /\ d.at = "add" /\ d.by = c.by /\ d.owns = c.owns /\ d.old = c.old
        /\ d.list = c.list /\ d.entries = c.entries /\ d.existing = c.existing /\ d.job = Head(c.list)
    BY <1>3, <1>4, <2>1 DEF Command
  <2>3. ASSUME Calm' PROVE Calm /\ InStep(d)'
    <3>1. Calm /\ Refreshing(c)
      BY <1>2, <1>5, <2>3 DEF Calm
    <3>2. Refreshing(d)
      BY <2>2, <3>1 DEF Refreshing, NameKnown, NameDone, InBundle, Pending, StillTheSeeders
    <3>3. Refreshing(d)'
      BY <1>2, <3>2, StoreLeft
    <3>4. d.list # <<>> /\ d.job = Head(d.list) /\ StillTheSeeders(d, d.job[1])
      BY <1>1, <1>2, <1>9, <2>2 DEF StillTheSeeders
    <3>5. SeedStep(d)'
      BY <1>3, <2>2, <3>3, <3>4 DEF SeedStep
    <3> QED
      BY <2>2, <3>1, <3>5 DEF InStep
  <2> QED
    BY <1>1, <1>2, <1>3, <1>4, <2>2, <2>3, StoreTypes, CommandSteps
<1> QED
  BY <1>7, <1>8, <1>9

\* The record of what was bound, and of what an older binary seeded.
LEMMA SeedEndsKeeps == ASSUME StoreInv, NEW p \in Commands, SeedEnds(p) PROVE StoreInv'
<1>1. PICK c, kept, d :
        /\ c = cmd[p] /\ cmd' = [cmd EXCEPT ![p] = d] /\ d = [c EXCEPT !.at = "record", !.entries = kept]
        /\ kept = [n \in BindNames |->
                     IF c.entries[n] = Unbound /\ c.owns = "recorded" /\ c.old[n] = c.existing[n]
                     THEN c.existing[n] ELSE c.entries[n]]
  BY DEF SeedEnds
<1>2. /\ c.at = "seed" /\ c.list = <<>> /\ record' = NoRecord
      /\ UNCHANGED <<manifest, pinned, handmade, seeded, overlap, stops>>
  BY <1>1 DEF SeedEnds, storeHistory, limits
<1>3. c \in Command /\ c.by \in Binaries /\ p \in Busy /\ (Calm => InStep(c))
  BY <1>1, <1>2, CommandKnown
<1>4. kept \in Bindings
  BY <1>1, <1>3 DEF Command, Bindings
<1>5. d \in Command /\ d.at = "record" /\ d.by = c.by /\ d.entries = kept
  BY <1>1, <1>3, <1>4 DEF Command
<1>6. ASSUME Calm' PROVE Calm /\ InStep(d)'
  <2>1. Calm /\ Refreshing(c)
    BY <1>2, <1>3, <1>6 DEF Calm, InStep, UsersStep, LookStep, RecordStep, SeedStep, EndStep
  <2>2. Pending(c) = {}
    BY <1>2 DEF Pending
  <2>3. PICK pins : pins = [n \in BindNames |-> IF kept[n] = Unbound THEN handmade[n] ELSE pinned[n]]
    OBVIOUS
  <2>4. ASSUME NEW n \in BindNames PROVE NameOwned(n, kept, c.by, pins)
    <3>1. /\ kept[n] = IF c.entries[n] = Unbound /\ c.owns = "recorded" /\ c.old[n] = c.existing[n]
                       THEN c.existing[n] ELSE c.entries[n]
          /\ pins[n] = IF kept[n] = Unbound THEN handmade[n] ELSE pinned[n]
      BY <1>1, <2>3
    <3>2. NameKnown(c, n) /\ NameDone(c, n)
      BY <2>1 DEF Refreshing
    <3>3. c.owns \in {"all", "recorded"}
      BY <1>3 DEF Command
    <3>4. CASE n \in Carried(c.by) /\ StillTheSeeders(c, n)
      <4>1. c.entries[n] = ObjectOf(c.by, n) /\ manifest[n] = ObjectOf(c.by, n) /\ ObjectOf(c.by, n) # Unbound
        BY <1>3, <2>2, <3>2, <3>4, BundleNames DEF NameDone
      <4>2. pinned[n] = Unbound
        BY <3>2, <3>4 DEF NameKnown, StillTheSeeders
      <4> QED
        BY <3>1, <4>1, <4>2 DEF NameOwned
    <3>5. CASE ~(n \in Carried(c.by) /\ StillTheSeeders(c, n))
      <4>1. c.entries[n] = Unbound /\ manifest[n] = c.existing[n]
        BY <2>2, <3>2, <3>5 DEF NameDone
      <4>2. n \in Carried(c.by) => c.existing[n] # Unbound /\ c.owns = "recorded" /\ c.old[n] # c.existing[n]
        BY <3>3, <3>5 DEF StillTheSeeders
      <4> QED
        BY <3>1, <3>2, <4>1, <4>2 DEF NameOwned, NameKnown
    <3> QED
      BY <3>4, <3>5
  <2>5. Owned(kept, c.by, pins)
    BY <2>4 DEF Owned
  <2>6. Owned(kept, c.by, pins)'
    BY <1>2, <2>5 DEF Owned, NameOwned
  <2>7. Pins(d)' = pins
    BY <1>2, <1>5, <2>3 DEF Pins
  <2>8. EndStep(d)'
    BY <1>5, <2>6, <2>7 DEF EndStep
  <2> QED
    BY <1>5, <2>1, <2>8 DEF InStep
<1> QED
  BY <1>1, <1>2, <1>3, <1>5, <1>6, StoreTypes, CommandSteps

LEMMA WriteRecordKeeps == ASSUME StoreInv, NEW p \in Commands, WriteRecord(p) PROVE StoreInv'
<1>1. PICK c : c = cmd[p]
  OBVIOUS
<1>2. /\ c.at = "record" /\ record' = [fingerprint |-> c.by, entries |-> c.entries]
      /\ cmd' = [cmd EXCEPT ![p] = Resting] /\ seeded' = c.by /\ pinned' = Pins(c)
      /\ UNCHANGED <<manifest, handmade, overlap, stops>>
  BY <1>1 DEF WriteRecord, limits, Pins
<1>3. c \in Command /\ c.by \in Binaries /\ p \in Busy /\ (Calm => InStep(c)) /\ c.entries \in Bindings
  BY <1>1, <1>2, CommandKnown DEF Command
<1>4. record' \in SeedRecord /\ record' # NoRecord
  BY <1>2, <1>3, StoreTypes DEF SeedRecord
<1>5. pinned' \in Bindings
  BY <1>2, StoreTypes DEF Pins, Bindings
<1>6. ASSUME Calm' PROVE Calm /\ Rested'
  <2>1. Calm /\ EndStep(c)
    BY <1>2, <1>3, <1>6 DEF Calm, InStep, UsersStep, LookStep, RecordStep, SeedStep, EndStep
  <2>2. PICK pins : pins = Pins(c)
    OBVIOUS
  <2>3. Owned(c.entries, c.by, pins)
    BY <2>1, <2>2 DEF EndStep
  <2>4. record'.fingerprint = c.by /\ record'.entries = c.entries
    BY <1>2
  <2>5. Owned(record.entries, seeded, pinned)'
    BY <1>2, <2>2, <2>3, <2>4 DEF Owned, NameOwned
  <2> QED
    BY <1>2, <1>4, <2>1, <2>4, <2>5 DEF Rested
<1>7. Resting.at = "idle"
  BY DEF Resting
<1> QED
  BY <1>2, <1>3, <1>4, <1>5, <1>6, <1>7, StoreTypes, CommandSteps

\* A binding is made: the user's, which the record tells from the seeder's, or
\* the next one of a refresh.
LEMMA WriteManifestKeeps == ASSUME StoreInv, NEW p \in Commands, WriteManifest(p) PROVE StoreInv'
<1>1. PICK c, n, o : c = cmd[p] /\ n = c.job[1] /\ o = c.job[2]
  OBVIOUS
<1>2. /\ c.at = "write" /\ manifest' = [c.map EXCEPT ![n] = o]
      /\ UNCHANGED <<record, seeded, overlap, stops>>
  BY <1>1 DEF WriteManifest, limits
<1>3. c \in Command /\ c.job \in Pairs /\ (c.by = "user" \/ c.list # <<>>) /\ p \in Busy /\ (Calm => InStep(c))
  BY <1>1, <1>2, CommandKnown
<1>4. n \in BindNames /\ o \in StoreObjects /\ o # Unbound /\ manifest' \in Bindings
  <2>1. n \in BindNames /\ o \in StoreObjects /\ o # Unbound
    BY <1>1, <1>3, StoreAssumption DEF Pairs
  <2>2. c.map \in Bindings
    BY <1>3 DEF Command
  <2> QED
    BY <1>2, <2>1, <2>2 DEF Bindings
<1>5. ASSUME Calm' PROVE Calm /\ (UsersStep(c) \/ SeedStep(c)) /\ manifest' = [manifest EXCEPT ![n] = o]
  BY <1>2, <1>3, <1>5 DEF Calm, InStep, UsersStep, LookStep, RecordStep, SeedStep, EndStep
<1>6. CASE c.by = "user"
  <2>1. /\ cmd' = [cmd EXCEPT ![p] = Resting] /\ handmade' = [handmade EXCEPT ![n] = o]
        /\ pinned' = [pinned EXCEPT ![n] = IF record # NoRecord /\ record.entries[n] # o THEN o ELSE Unbound]
    BY <1>1, <1>6 DEF WriteManifest
  <2>2. handmade' \in Bindings /\ pinned' \in Bindings
    BY <1>4, <2>1, StoreTypes DEF Bindings
  <2>3. ASSUME Calm' PROVE Calm /\ Rested'
    <3>1. Calm /\ Rested /\ manifest' = [manifest EXCEPT ![n] = o]
      BY <1>5, <1>6, <2>3, StoreTypes DEF UsersStep, SeedStep
    <3>2. /\ manifest'[n] = o /\ handmade'[n] = o
          /\ pinned'[n] = IF record # NoRecord /\ record.entries[n] # o THEN o ELSE Unbound
          /\ \A m \in BindNames : m # n => /\ manifest'[m] = manifest[m] /\ handmade'[m] = handmade[m]
                                           /\ pinned'[m] = pinned[m]
      BY <1>4, <2>1, <3>1, StoreTypes DEF Bindings
    <3>3. CASE record = NoRecord
      <4>1. pinned = Unnamed /\ seeded = NoRecord /\ Owned(Unnamed, NoRecord, pinned)
        BY <3>1, <3>3 DEF Rested
      <4>2. pinned' = Unnamed
        <5>1. pinned' \in Bindings /\ \A m \in BindNames : pinned'[m] = Unbound
          BY <2>2, <3>2, <3>3, <4>1 DEF Unnamed
        <5> QED
          BY <5>1 DEF Unnamed, Bindings
      <4>3. ASSUME NEW m \in BindNames PROVE NameOwned(m, Unnamed, NoRecord, pinned)'
        BY <1>4, <3>2, <4>1, <4>2, <4>3 DEF Owned, NameOwned, Unnamed
      <4> QED
        BY <1>2, <3>1, <3>3, <4>1, <4>2, <4>3 DEF Rested, Owned
    <3>4. CASE record # NoRecord
      <4>1. record.fingerprint = seeded /\ Owned(record.entries, seeded, pinned) /\ seeded # NoRecord
        <5>1. record \in SeedRecord /\ NoRecord \notin Binaries
          BY <3>4, StoreTypes, StoreAssumption
        <5> QED
          BY <3>1, <3>4, <5>1 DEF Rested, SeedRecord
      <4>2. ASSUME NEW m \in BindNames PROVE NameOwned(m, record.entries, seeded, pinned)'
        <5>1. NameOwned(m, record.entries, seeded, pinned)
          BY <4>1 DEF Owned
        <5>2. CASE m = n
          BY <1>2, <1>4, <3>2, <3>4, <5>1, <5>2 DEF NameOwned
        <5>3. CASE m # n
          BY <1>2, <3>2, <5>1, <5>3 DEF NameOwned
        <5> QED
          BY <5>2, <5>3
      <4> QED
        BY <1>2, <3>1, <3>4, <4>1, <4>2 DEF Rested, Owned
    <3> QED
      BY <3>1, <3>3, <3>4
  <2>4. Resting.at = "idle"
    BY DEF Resting
  <2> QED
    BY <1>2, <1>3, <1>4, <2>1, <2>2, <2>3, <2>4, StoreTypes, CommandSteps
<1>7. CASE c.by # "user"
  <2>1. PICK d : /\ cmd' = [cmd EXCEPT ![p] = d]
                 /\ d = [c EXCEPT !.at = "seed", !.list = Tail(c.list), !.entries[n] = o, !.job = <<>>, !.map = Unnamed]
    BY <1>1, <1>7 DEF WriteManifest
  <2>2. UNCHANGED <<handmade, pinned>> /\ c.by \in Binaries
    BY <1>1, <1>3, <1>7 DEF WriteManifest, Command
  <2>3. PICK entries : entries = [c.entries EXCEPT ![n] = o]
    OBVIOUS
  <2>4. entries \in Bindings /\ entries[n] = o /\ \A m \in BindNames : m # n => entries[m] = c.entries[m]
    BY <1>3, <1>4, <2>3 DEF Command, Bindings
  <2>5. c = [f \in DOMAIN c |-> c[f]]
        /\ d = [c EXCEPT !.at = "seed", !.list = Tail(c.list), !.entries = entries, !.job = <<>>, !.map = Unnamed]
    BY <1>3, <2>1, <2>3 DEF Command
  <2>6. /\ d.at = "seed" /\ d.by = c.by /\ d.owns = c.owns /\ d.old = c.old
        /\ d.list = Tail(c.list) /\ d.entries = entries /\ d.existing = c.existing
    BY <1>3, <2>5 DEF Command
  <2>7. d \in Command
    <3>1. c.list \in Seq(Pairs) /\ c.list # <<>>
      BY <1>3, <1>7 DEF Command
    <3>2. Tail(c.list) \in Seq(Pairs)
      BY <3>1
    <3> QED
      BY <1>3, <2>4, <2>5, <3>2, StoreTypes DEF Command
  <2>8. ASSUME Calm' PROVE Calm /\ InStep(d)'
    <3>1. Calm /\ SeedStep(c) /\ manifest' = [manifest EXCEPT ![n] = o]
      BY <1>5, <1>7, <2>8 DEF UsersStep
    <3>2. Refreshing(c) /\ c.list # <<>> /\ c.job = Head(c.list) /\ StillTheSeeders(c, n)
      BY <1>1, <1>2, <3>1 DEF SeedStep
    <3>3. /\ n \in Carried(c.by) /\ n \in Pending(c) /\ o = ObjectOf(c.by, n)
          /\ InBundle(d) /\ Pending(d) = Pending(c) \ {n}
      <4>1. InBundle(c) /\ c.list # <<>> /\ d.list = Tail(c.list) /\ d.by = c.by
        BY <2>6, <3>2 DEF Refreshing
      <4>2. /\ Head(c.list)[1] \in Carried(c.by) /\ Head(c.list)[2] = ObjectOf(c.by, Head(c.list)[1])
            /\ InBundle(d) /\ Pending(d) = Pending(c) \ {Head(c.list)[1]} /\ Head(c.list)[1] \in Pending(c)
        BY <1>3, <4>1, ListHead
      <4> QED
        BY <1>1, <3>2, <4>2
    <3>4. \A m \in BindNames : StillTheSeeders(d, m) <=> StillTheSeeders(c, m)
      BY <2>6 DEF StillTheSeeders
    <3>5. manifest'[n] = o /\ \A m \in BindNames : m # n => manifest'[m] = manifest[m]
      BY <1>4, <3>1, StoreTypes DEF Bindings
    <3>6. ASSUME NEW m \in BindNames PROVE NameKnown(d, m)'
      BY <2>2, <2>6, <3>2 DEF Refreshing, NameKnown
    <3>7. ASSUME NEW m \in BindNames PROVE NameDone(d, m)'
      <4>1. CASE m # n
        BY <2>4, <2>6, <3>2, <3>3, <3>4, <3>5, <4>1 DEF Refreshing, NameDone
      <4>2. CASE m = n
        BY <2>4, <2>6, <3>2, <3>3, <3>4, <3>5, <4>2 DEF NameDone
      <4> QED
        BY <4>1, <4>2
    <3>8. Refreshing(d)'
      BY <3>3, <3>6, <3>7 DEF Refreshing
    <3>9. SeedStep(d)'
      BY <2>2, <2>6, <3>8 DEF SeedStep
    <3> QED
      BY <2>6, <3>1, <3>9 DEF InStep
  <2> QED
    BY <1>2, <1>3, <1>4, <2>1, <2>2, <2>6, <2>7, <2>8, StoreTypes, CommandSteps
<1> QED
  BY <1>6, <1>7

\* A store that nobody has used is at rest.
LEMMA InitStoreInv == StoreInit => StoreInv
<1> SUFFICES ASSUME StoreInit PROVE StoreInv
  OBVIOUS
<1>1. Unnamed \in Bindings /\ <<>> \in Seq(Pairs)
  BY DEF Unnamed, Bindings
<1>2. Resting \in Command /\ Resting.at = "idle"
  BY <1>1 DEF Resting, Command
<1>3. cmd \in [Commands -> Command] /\ Busy = {} /\ \A p \in Commands : cmd[p].at = "idle"
  BY <1>2 DEF StoreInit, Busy
<1>4. StoreTyped
  BY <1>1, <1>3 DEF StoreInit, StoreTyped
<1>5. Rested
  BY DEF StoreInit, Rested, Owned, NameOwned, Unnamed
<1> QED
  BY <1>3, <1>4, <1>5 DEF StoreInv

\* NamesKeepTheirOwner for any binaries, programs and names, any number of
\* commands and any order of upgrades, downgrades, reseeds and bindings.
THEOREM NamesStayWithTheirOwner == StoreSpec => []NamesKeepTheirOwner
<1>1. StoreInv /\ [StoreNext]_storeVars => StoreInv'
  <2> SUFFICES ASSUME StoreInv, [StoreNext]_storeVars PROVE StoreInv'
    OBVIOUS
  <2>1. ASSUME NEW p \in Commands,
               \/ UserAdds(p) \/ Starts(p) \/ Look(p) \/ ReadRecord(p) \/ SeedNext(p) \/ SeedEnds(p)
               \/ WriteRecord(p) \/ AddObject(p) \/ ReadManifest(p) \/ WriteManifest(p) \/ Stops(p)
        PROVE  StoreInv'
    BY <2>1, BeginKeeps, LookKeeps, ReadRecordKeeps, SeedNextKeeps, SeedEndsKeeps, WriteRecordKeeps, AddKeeps,
       WriteManifestKeeps, StopsKeeps
  <2>2. CASE UNCHANGED storeVars
    <3>1. UNCHANGED <<manifest, record, pinned, handmade, seeded>> /\ UNCHANGED <<cmd, overlap, stops>>
      BY <2>2 DEF storeVars, storeHistory, limits
    <3>2. StoreTyped' /\ Busy' = Busy /\ (Calm' <=> Calm)
      BY <3>1 DEF StoreInv, StoreTyped, Busy, Calm
    <3>3. ASSUME NEW p \in Commands, InStep(cmd[p]) PROVE InStep(cmd[p])'
      BY <3>1, <3>3, StoreLeft DEF InStep, UsersStep, LookStep, RecordStep, SeedStep, EndStep
    <3>4. Busy \subseteq Commands
      BY DEF Busy
    <3> QED
      BY <3>1, <3>2, <3>3, <3>4, StoreLeft DEF StoreInv
  <2> QED
    BY <2>1, <2>2 DEF StoreNext
<1>2. StoreInv => NamesKeepTheirOwner
  <2> SUFFICES ASSUME StoreInv, Calm, Busy = {}, NEW n \in BindNames
               PROVE  IF pinned[n] # Unbound THEN manifest[n] = pinned[n]
                      ELSE seeded # NoRecord /\ n \in Carried(seeded) => manifest[n] = ObjectOf(seeded, n)
    BY DEF NamesKeepTheirOwner
  <2>1. Rested
    BY DEF StoreInv
  <2> QED
    BY <2>1 DEF Rested, Owned, NameOwned
<1> QED
  BY <1>1, <1>2, InitStoreInv, PTL DEF StoreSpec

(***************************************************************************)
(* The shell sessions: no sweep, crash or reused pid takes the lock file   *)
(* or the directory from under a live session (LiveSessionsStay). Alone    *)
(* that is not inductive: the proof needs what the two kinds of guard      *)
(* exclude, whose file a lock file on its way is, and why a victim stays a *)
(* victim until it has been removed.                                       *)
(***************************************************************************)

\* .sessions.lock: its holders are where they must be, and shared excludes
\* exclusive.
GuardHeld ==
    /\ \A p \in Procs : stage[p] \in Sweeping <=> sweeping = p
    /\ \A p \in Procs : stage[p] \in Establishing <=> p \in sharing
    /\ sweeping # Nobody => sharing = {}

\* The operating system's part.
PidsDiffer == \A p, q \in Procs : Live(p) /\ Live(q) /\ PidOf[p] = PidOf[q] => p = q

\* A lock file under its temporary name is its maker's, and locked before it
\* is renamed.
LockOnItsWay ==
    \A p \in Procs :
        /\ stage[p] \in {"lock", "rename"} => tmpLock[PidOf[p]] = inode[p] /\ inode[p] \in Procs
        /\ stage[p] = "rename" => lockedBy[inode[p]] = p

\* What a sweep has found dead is not a live session's, until it is gone, or
\* its lock file could not be opened.
VictimIsDead ==
    \A p \in Procs : stage[p] \in {"victimDir", "victimLock"} =>
        /\ victim \in Pids
        /\ \A q \in Procs \ misread : stage[q] \in Locked => PidOf[q] # victim

SessionsInv ==
    SessionsTypeOK /\ GuardHeld /\ PidsDiffer /\ LockOnItsWay /\ VictimIsDead /\ LiveSessionsStay

\* The directory as old versions left it.
LEMMA InitSessionsInv == SessionsInit => SessionsInv
BY SessionsAssumption
   DEF SessionsInit, SessionsInv, SessionsTypeOK, GuardHeld, PidsDiffer, LockOnItsWay, VictimIsDead,
       LiveSessionsStay, Sweeping, Establishing, Locked, Built, Stages, Live

\* A new process has a pid that no live process has.
LEMMA StartKeeps ==
    ASSUME SessionsInv, NEW p \in Procs, StartSession(p)
    PROVE  SessionsInv'
<1> USE SessionsAssumption DEF SessionsInv, StartSession, To, shared, sweep, failed
<1>1. SessionsTypeOK' /\ GuardHeld' /\ PidsDiffer'
  BY DEF SessionsTypeOK, GuardHeld, PidsDiffer, Live, Stages, Establishing, Locked, Sweeping
<1>2. LockOnItsWay'
  BY DEF SessionsTypeOK, LockOnItsWay, PidsDiffer, Live, GuardHeld, Establishing, Sweeping
<1>3. VictimIsDead'
  BY DEF SessionsTypeOK, VictimIsDead, GuardHeld, Establishing, Sweeping, Locked
<1>4. LiveSessionsStay'
  BY DEF SessionsTypeOK, LiveSessionsStay, LockOnItsWay, PidsDiffer, Live, Locked, Built, Sweeping
<1> QED
  BY <1>1, <1>2, <1>3, <1>4

\* It shares the guard only while nobody sweeps.
LEMMA ShareKeeps ==
    ASSUME SessionsInv, NEW p \in Procs, ShareGuard(p)
    PROVE  SessionsInv'
<1> USE SessionsAssumption DEF SessionsInv, ShareGuard, To, shared, sweep, failed
<1>1. SessionsTypeOK' /\ GuardHeld' /\ PidsDiffer'
  BY DEF SessionsTypeOK, GuardHeld, PidsDiffer, Live, Stages, Establishing, Locked, Sweeping
<1>2. LockOnItsWay'
  BY DEF SessionsTypeOK, LockOnItsWay, PidsDiffer, Live, GuardHeld, Establishing, Sweeping
<1>3. VictimIsDead'
  BY DEF SessionsTypeOK, VictimIsDead, GuardHeld, Establishing, Sweeping, Locked
<1>4. LiveSessionsStay'
  BY DEF SessionsTypeOK, LiveSessionsStay, LockOnItsWay, PidsDiffer, Live, Locked, Built, Sweeping
<1> QED
  BY <1>1, <1>2, <1>3, <1>4

\* Its temporary lock file is its own: nobody else alive has this pid.
LEMMA CreateTmpKeeps ==
    ASSUME SessionsInv, NEW p \in Procs, CreateTmp(p)
    PROVE  SessionsInv'
<1> USE SessionsAssumption DEF SessionsInv, CreateTmp, To, shared, sweep, failed
<1>1. SessionsTypeOK' /\ GuardHeld' /\ PidsDiffer'
  BY DEF SessionsTypeOK, GuardHeld, PidsDiffer, Live, Stages, Establishing, Locked, Sweeping
<1>2. LockOnItsWay'
  <2>1. ASSUME NEW q \in Procs, q # p, Live(q) PROVE PidOf[q] # PidOf[p]
    BY <2>1 DEF PidsDiffer, Live
  <2>2. inode'[p] \in Procs /\ tmpLock'[PidOf[p]] = inode'[p] /\ stage'[p] = "lock"
    BY DEF SessionsTypeOK
  <2>3. ASSUME NEW q \in Procs, q # p
        PROVE  /\ stage'[q] = stage[q] /\ inode'[q] = inode[q]
               /\ Live(q) => tmpLock'[PidOf[q]] = tmpLock[PidOf[q]]
    BY <2>1, <2>3 DEF SessionsTypeOK
  <2> QED
    BY <2>2, <2>3 DEF LockOnItsWay, Live
<1>3. VictimIsDead'
  BY DEF SessionsTypeOK, VictimIsDead, GuardHeld, Establishing, Sweeping, Locked
<1>4. LiveSessionsStay'
  BY DEF SessionsTypeOK, LiveSessionsStay, LockOnItsWay, PidsDiffer, Live, Locked, Built, Sweeping
<1> QED
  BY <1>1, <1>2, <1>3, <1>4

\* A lock that is free is no live session's.
LEMMA LockTmpKeeps ==
    ASSUME SessionsInv, NEW p \in Procs, LockTmp(p)
    PROVE  SessionsInv'
<1> USE SessionsAssumption DEF SessionsInv, LockTmp, To, shared, sweep, failed
<1>1. SessionsTypeOK' /\ GuardHeld' /\ PidsDiffer'
  <2>1. SessionsTypeOK'
    BY DEF SessionsTypeOK, Stages, Establishing, Locked, Sweeping
  <2>2. GuardHeld'
    BY DEF SessionsTypeOK, GuardHeld, Establishing, Sweeping
  <2>3. PidsDiffer'
    BY DEF SessionsTypeOK, PidsDiffer, Live
  <2> QED
    BY <2>1, <2>2, <2>3
<1>2. LockOnItsWay'
  BY DEF SessionsTypeOK, LockOnItsWay, PidsDiffer, Live, GuardHeld, Establishing, Sweeping
<1>3. VictimIsDead'
  BY DEF SessionsTypeOK, VictimIsDead, GuardHeld, Establishing, Sweeping, Locked
<1>4. LiveSessionsStay'
  BY DEF SessionsTypeOK, LiveSessionsStay, LockOnItsWay, PidsDiffer, Live, Locked, Built, Sweeping
<1> QED
  BY <1>1, <1>2, <1>3, <1>4

\* The file renamed is the one locked, and nobody is sweeping.
LEMMA RenameLockKeeps ==
    ASSUME SessionsInv, NEW p \in Procs, RenameLock(p)
    PROVE  SessionsInv'
<1> USE SessionsAssumption DEF SessionsInv, RenameLock, To, shared, sweep, failed
<1>1. SessionsTypeOK' /\ GuardHeld' /\ PidsDiffer'
  BY DEF SessionsTypeOK, GuardHeld, PidsDiffer, Live, Stages, Establishing, Locked, Sweeping
<1>2. LockOnItsWay'
  BY DEF SessionsTypeOK, LockOnItsWay, PidsDiffer, Live, GuardHeld, Establishing, Sweeping
<1>3. VictimIsDead'
  BY DEF SessionsTypeOK, VictimIsDead, GuardHeld, Establishing, Sweeping, Locked
<1>4. LiveSessionsStay'
  <2>1. ASSUME NEW q \in Procs, q # p, Live(q) PROVE PidOf[q] # PidOf[p]
    BY <2>1 DEF PidsDiffer, Live
  <2>2. /\ sesLock'[PidOf[p]] = inode[p] /\ inode[p] \in Procs /\ lockedBy[inode[p]] = p
        /\ stage'[p] = "clear"
    BY DEF SessionsTypeOK, LockOnItsWay
  <2>3. ASSUME NEW q \in Procs, q # p
        PROVE  /\ stage'[q] = stage[q]
               /\ Live(q) => sesLock'[PidOf[q]] = sesLock[PidOf[q]]
    BY <2>1, <2>3 DEF SessionsTypeOK
  <2>4. "clear" \notin Built /\ \A q \in Procs : stage[q] \in Locked \cup Built => Live(q)
    BY DEF Live, Locked, Built, Sweeping
  <2> QED
    BY <2>2, <2>3, <2>4 DEF LiveSessionsStay
<1> QED
  BY <1>1, <1>2, <1>3, <1>4

\* The directory cleared is no live session's.
LEMMA ClearDirKeeps ==
    ASSUME SessionsInv, NEW p \in Procs, ClearDir(p)
    PROVE  SessionsInv'
<1> USE SessionsAssumption DEF SessionsInv, ClearDir, To, shared, sweep, failed
<1>1. SessionsTypeOK' /\ GuardHeld' /\ PidsDiffer'
  BY DEF SessionsTypeOK, GuardHeld, PidsDiffer, Live, Stages, Establishing, Locked, Sweeping
<1>2. LockOnItsWay'
  BY DEF SessionsTypeOK, LockOnItsWay, PidsDiffer, Live, GuardHeld, Establishing, Sweeping
<1>3. VictimIsDead'
  BY DEF SessionsTypeOK, VictimIsDead, GuardHeld, Establishing, Sweeping, Locked
<1>4. LiveSessionsStay'
  BY DEF SessionsTypeOK, LiveSessionsStay, LockOnItsWay, PidsDiffer, Live, Locked, Built, Sweeping
<1> QED
  BY <1>1, <1>2, <1>3, <1>4

\* From here on the session has its directory.
LEMMA MakeDirKeeps ==
    ASSUME SessionsInv, NEW p \in Procs, MakeDir(p)
    PROVE  SessionsInv'
<1> USE SessionsAssumption DEF SessionsInv, MakeDir, To, shared, sweep, failed
<1>1. SessionsTypeOK' /\ GuardHeld' /\ PidsDiffer'
  BY DEF SessionsTypeOK, GuardHeld, PidsDiffer, Live, Stages, Establishing, Locked, Sweeping
<1>2. LockOnItsWay'
  BY DEF SessionsTypeOK, LockOnItsWay, PidsDiffer, Live, GuardHeld, Establishing, Sweeping
<1>3. VictimIsDead'
  BY DEF SessionsTypeOK, VictimIsDead, GuardHeld, Establishing, Sweeping, Locked
<1>4. LiveSessionsStay'
  <2>1. ASSUME NEW q \in Procs, q # p, Live(q) PROVE PidOf[q] # PidOf[p]
    BY <2>1 DEF PidsDiffer, Live
  <2>2. sesDir'[PidOf[p]] = p /\ stage'[p] = "built" /\ stage[p] \in Locked
    BY DEF SessionsTypeOK, Locked
  <2>3. ASSUME NEW q \in Procs, q # p
        PROVE  /\ stage'[q] = stage[q]
               /\ Live(q) => sesDir'[PidOf[q]] = sesDir[PidOf[q]]
    BY <2>1, <2>3 DEF SessionsTypeOK
  <2>4. \A q \in Procs : stage[q] \in Built => Live(q)
    BY DEF Live, Built, Sweeping
  <2> QED
    BY <2>2, <2>3, <2>4 DEF LiveSessionsStay
<1> QED
  BY <1>1, <1>2, <1>3, <1>4

\* The guard is released once the session is in place.
LEMMA DropGuardKeeps ==
    ASSUME SessionsInv, NEW p \in Procs, DropGuard(p)
    PROVE  SessionsInv'
<1> USE SessionsAssumption DEF SessionsInv, DropGuard, To, shared, sweep, failed
<1>1. SessionsTypeOK' /\ GuardHeld' /\ PidsDiffer'
  BY DEF SessionsTypeOK, GuardHeld, PidsDiffer, Live, Stages, Establishing, Locked, Sweeping
<1>2. LockOnItsWay'
  BY DEF SessionsTypeOK, LockOnItsWay, PidsDiffer, Live, GuardHeld, Establishing, Sweeping
<1>3. VictimIsDead'
  BY DEF SessionsTypeOK, VictimIsDead, GuardHeld, Establishing, Sweeping, Locked
<1>4. LiveSessionsStay'
  BY DEF SessionsTypeOK, LiveSessionsStay, LockOnItsWay, PidsDiffer, Live, Locked, Built, Sweeping
<1> QED
  BY <1>1, <1>2, <1>3, <1>4

\* A sweep begins when nobody is establishing a session.
LEMMA BeginSweepKeeps ==
    ASSUME SessionsInv, NEW p \in Procs, BeginSweep(p)
    PROVE  SessionsInv'
<1> USE SessionsAssumption DEF SessionsInv, BeginSweep, To, shared, sweep, failed
<1>1. SessionsTypeOK' /\ GuardHeld' /\ PidsDiffer'
  <2>1. todo' \subseteq {"tmp", "lock", "dir"} \X Pids
    OBVIOUS
  <2>2. doomed' \subseteq Pids
    OBVIOUS
  <2> QED
    BY <2>1, <2>2 DEF SessionsTypeOK, GuardHeld, PidsDiffer, Live, Stages, Establishing, Locked,
           Sweeping
<1>2. LockOnItsWay'
  BY DEF SessionsTypeOK, LockOnItsWay, PidsDiffer, Live, GuardHeld, Establishing, Sweeping
<1>3. VictimIsDead'
  BY DEF SessionsTypeOK, VictimIsDead, GuardHeld, Establishing, Sweeping, Locked
<1>4. LiveSessionsStay'
  BY DEF SessionsTypeOK, LiveSessionsStay, LockOnItsWay, PidsDiffer, Live, Locked, Built, Sweeping
<1> QED
  BY <1>1, <1>2, <1>3, <1>4

\* No temporary lock file is on its way during a sweep.
LEMMA SweepTmpKeeps ==
    ASSUME SessionsInv, NEW p \in Procs, NEW i \in Pids, SweepTmp(p, i)
    PROVE  SessionsInv'
<1> USE SessionsAssumption DEF SessionsInv, SweepTmp, To, shared, sweep, failed
<1>1. SessionsTypeOK' /\ GuardHeld' /\ PidsDiffer'
  BY DEF SessionsTypeOK, GuardHeld, PidsDiffer, Live, Stages, Establishing, Locked, Sweeping
<1>2. LockOnItsWay'
  BY DEF SessionsTypeOK, LockOnItsWay, PidsDiffer, Live, GuardHeld, Establishing, Sweeping
<1>3. VictimIsDead'
  BY DEF SessionsTypeOK, VictimIsDead, GuardHeld, Establishing, Sweeping, Locked
<1>4. LiveSessionsStay'
  BY DEF SessionsTypeOK, LiveSessionsStay, LockOnItsWay, PidsDiffer, Live, Locked, Built, Sweeping
<1> QED
  BY <1>1, <1>2, <1>3, <1>4

\* A live session's lock is held, so one that is not found held is a dead
\* session's, or it was not opened.
LEMMA SweepDeadKeeps ==
    ASSUME SessionsInv, NEW p \in Procs, NEW i \in Pids, SweepDead(p, i)
    PROVE  SessionsInv'
<1> USE SessionsAssumption DEF SessionsInv, SweepDead, To, shared, sweep, failed
<1>1. SessionsTypeOK' /\ GuardHeld' /\ PidsDiffer'
  <2>1. SessionsTypeOK'
    BY DEF SessionsTypeOK, Stages, Establishing, Locked, Sweeping, Holder
  <2>2. GuardHeld'
    BY DEF SessionsTypeOK, GuardHeld, Establishing, Sweeping
  <2>3. PidsDiffer'
    BY DEF SessionsTypeOK, PidsDiffer, Live
  <2> QED
    BY <2>1, <2>2, <2>3
<1>2. LockOnItsWay'
  BY DEF SessionsTypeOK, LockOnItsWay, PidsDiffer, Live, GuardHeld, Establishing, Sweeping
<1>3. VictimIsDead'
  BY DEF SessionsTypeOK, VictimIsDead, LiveSessionsStay, Holder, GuardHeld, Sweeping, Locked
<1>4. LiveSessionsStay'
  BY DEF SessionsTypeOK, LiveSessionsStay, LockOnItsWay, PidsDiffer, Live, Locked, Built, Sweeping
<1> QED
  BY <1>1, <1>2, <1>3, <1>4

\* The directory removed is a dead session's.
LEMMA VictimDirKeeps ==
    ASSUME SessionsInv, NEW p \in Procs, RemoveVictimDir(p)
    PROVE  SessionsInv'
<1> USE SessionsAssumption DEF SessionsInv, RemoveVictimDir, To, shared, sweep, failed
<1>1. SessionsTypeOK' /\ GuardHeld' /\ PidsDiffer'
  BY DEF SessionsTypeOK, GuardHeld, PidsDiffer, Live, Stages, Establishing, Locked, Sweeping
<1>2. LockOnItsWay'
  BY DEF SessionsTypeOK, LockOnItsWay, PidsDiffer, Live, GuardHeld, Establishing, Sweeping
<1>3. VictimIsDead'
  BY DEF SessionsTypeOK, VictimIsDead, GuardHeld, Establishing, Sweeping, Locked
<1>4. LiveSessionsStay'
  BY DEF SessionsTypeOK, LiveSessionsStay, VictimIsDead, Locked, Built, Sweeping
<1> QED
  BY <1>1, <1>2, <1>3, <1>4

\* And so is the lock file.
LEMMA VictimLockKeeps ==
    ASSUME SessionsInv, NEW p \in Procs, RemoveVictimLock(p)
    PROVE  SessionsInv'
<1> USE SessionsAssumption DEF SessionsInv, RemoveVictimLock, To, shared, sweep, failed
<1>1. SessionsTypeOK' /\ GuardHeld' /\ PidsDiffer'
  BY DEF SessionsTypeOK, GuardHeld, PidsDiffer, Live, Stages, Establishing, Locked, Sweeping
<1>2. LockOnItsWay'
  BY DEF SessionsTypeOK, LockOnItsWay, PidsDiffer, Live, GuardHeld, Establishing, Sweeping
<1>3. VictimIsDead'
  BY DEF SessionsTypeOK, VictimIsDead, GuardHeld, Establishing, Sweeping, Locked
<1>4. LiveSessionsStay'
  BY DEF SessionsTypeOK, LiveSessionsStay, VictimIsDead, Locked, Built, Sweeping
<1> QED
  BY <1>1, <1>2, <1>3, <1>4

\* A directory without a lock file is no live session's; one whose lock file
\* could not be looked up is, if somebody holds that.
LEMMA SweepDirKeeps ==
    ASSUME SessionsInv, NEW p \in Procs, NEW i \in Pids, SweepDir(p, i)
    PROVE  SessionsInv'
<1> USE SessionsAssumption DEF SessionsInv, SweepDir, To, shared, sweep, failed
<1>0. sesDir' \in {sesDir, [sesDir EXCEPT ![i] = Nobody]} /\ misread' \in {misread, misread \cup Holder(i)}
      /\ Holder(i) \subseteq Procs
  BY DEF Holder
<1>1. SessionsTypeOK' /\ GuardHeld' /\ PidsDiffer'
  <2>1. SessionsTypeOK'
    BY <1>0 DEF SessionsTypeOK, Stages, Establishing, Locked, Sweeping
  <2>2. GuardHeld'
    BY DEF SessionsTypeOK, GuardHeld, Establishing, Sweeping
  <2>3. PidsDiffer'
    BY DEF SessionsTypeOK, PidsDiffer, Live
  <2> QED
    BY <2>1, <2>2, <2>3
<1>2. LockOnItsWay'
  BY DEF SessionsTypeOK, LockOnItsWay, PidsDiffer, Live, GuardHeld, Establishing, Sweeping
<1>3. VictimIsDead'
  BY DEF SessionsTypeOK, VictimIsDead, GuardHeld, Establishing, Sweeping, Locked
<1>4. LiveSessionsStay'
  <2>1. CASE UNCHANGED <<sesDir, misread>>
    BY <2>1 DEF LiveSessionsStay
  <2>2. CASE sesDir' = [sesDir EXCEPT ![i] = Nobody] /\ misread' = misread \cup Holder(i)
    <3>1. ASSUME NEW q \in Procs \ misread', stage[q] \in Locked
          PROVE  q \in Procs \ misread /\ PidOf[q] # i
      BY <2>2, <3>1 DEF LiveSessionsStay, Holder
    <3>2. ASSUME NEW q \in Procs, PidOf[q] # i PROVE sesDir'[PidOf[q]] = sesDir[PidOf[q]]
      BY <2>2, <3>2 DEF SessionsTypeOK
    <3>3. Built \subseteq Locked
      BY DEF Built, Locked
    <3> QED
      BY <2>2, <3>1, <3>2, <3>3 DEF LiveSessionsStay
  <2> QED
    BY <2>1, <2>2
<1> QED
  BY <1>1, <1>2, <1>3, <1>4

\* A process that ends takes its own locks with it and no others.
LEMMA DieKeeps ==
    ASSUME SessionsInv, NEW p \in Procs, Die(p)
    PROVE  SessionsInv'
<1> USE SessionsAssumption DEF SessionsInv, Die, To, shared, sweep, failed
<1>1. SessionsTypeOK' /\ GuardHeld' /\ PidsDiffer'
  BY DEF SessionsTypeOK, GuardHeld, PidsDiffer, Live, Stages, Establishing, Locked, Sweeping
<1>2. LockOnItsWay'
  BY DEF SessionsTypeOK, LockOnItsWay, PidsDiffer, Live, GuardHeld, Establishing, Sweeping
<1>3. VictimIsDead'
  BY DEF SessionsTypeOK, VictimIsDead, GuardHeld, Establishing, Sweeping, Locked
<1>4. LiveSessionsStay'
  BY DEF SessionsTypeOK, LiveSessionsStay, LockOnItsWay, PidsDiffer, Live, Locked, Built, Sweeping
<1> QED
  BY <1>1, <1>2, <1>3, <1>4

\* Steps that touch neither lock files nor directories.
LEMMA HousekeepingKeeps ==
    ASSUME SessionsInv, NEW p \in Procs, NEW i \in Pids,
           SkipSweep(p) \/ SweepHeld(p, i) \/ ListDirs(p) \/ EndSweep(p) \/ AbandonSweep(p)
    PROVE  SessionsInv'
<1> USE SessionsAssumption DEF SessionsInv
<1>1. CASE SkipSweep(p)
  <2> USE <1>1 DEF SkipSweep, To, shared, sweep, failed
  <2>1. SessionsTypeOK' /\ GuardHeld' /\ PidsDiffer'
    BY DEF SessionsTypeOK, GuardHeld, PidsDiffer, Live, Stages, Establishing, Locked, Sweeping
  <2> QED
    BY <2>1 DEF SessionsTypeOK, LockOnItsWay, VictimIsDead, LiveSessionsStay, Locked, Built
<1>2. CASE SweepHeld(p, i)
  <2>1. SessionsTypeOK'
    BY <1>2 DEF SweepHeld, SessionsTypeOK, shared, failed
  <2> QED
    BY <1>2, <2>1 DEF SweepHeld, shared, failed, GuardHeld, PidsDiffer, Live, LockOnItsWay, VictimIsDead,
           LiveSessionsStay
<1>3. CASE ListDirs(p)
  <2> USE <1>3 DEF ListDirs, To, shared, sweep, failed
  <2>1. SessionsTypeOK'
    BY DEF SessionsTypeOK, Stages, Locked, Sweeping
  <2>2. GuardHeld' /\ PidsDiffer'
    BY DEF SessionsTypeOK, GuardHeld, PidsDiffer, Live, Establishing, Sweeping
  <2> QED
    BY <2>1, <2>2 DEF SessionsTypeOK, LockOnItsWay, VictimIsDead, LiveSessionsStay, Locked, Built, Sweeping
<1>4. CASE EndSweep(p) \/ AbandonSweep(p)
  <2> USE <1>4 DEF EndSweep, AbandonSweep, To, shared, sweep, failed
  <2>0. stage[p] \in {"sweepLocks", "sweepDirs"} /\ stage' = [stage EXCEPT ![p] = "serve"]
        /\ sweeping' = Nobody /\ todo' \in {todo, {}}
        /\ UNCHANGED <<inode, lockedBy, tmpLock, sesLock, sesDir, sharing, victim, legacy, doomed,
                      unopened, misread>>
    OBVIOUS
  <2>1. SessionsTypeOK'
    BY <2>0 DEF SessionsTypeOK, Stages, Locked
  <2>2. GuardHeld' /\ PidsDiffer'
    BY <2>0 DEF SessionsTypeOK, GuardHeld, PidsDiffer, Live, Establishing, Sweeping
  <2> QED
    BY <2>0, <2>1, <2>2
       DEF SessionsTypeOK, LockOnItsWay, VictimIsDead, LiveSessionsStay, Locked, Built, Sweeping
<1> QED
  BY <1>1, <1>2, <1>3, <1>4

\* Every step keeps the invariant.
LEMMA StepKeeps == SessionsInv /\ [SessionsNext]_sesVars => SessionsInv'
<1> SUFFICES ASSUME SessionsInv, [SessionsNext]_sesVars PROVE SessionsInv'
  OBVIOUS
<1>1. CASE UNCHANGED sesVars
  BY <1>1 DEF sesVars, shared, sweep, failed, SessionsInv, SessionsTypeOK, GuardHeld, PidsDiffer, Live,
              LockOnItsWay, VictimIsDead, LiveSessionsStay
<1>2. ASSUME NEW p \in Procs, StartSession(p) \/ Proceed(p) \/ Die(p) PROVE SessionsInv'
  <2>1. CASE \E i \in Pids : SweepTmp(p, i) \/ SweepHeld(p, i) \/ SweepDead(p, i) \/ SweepDir(p, i)
    BY <2>1, SweepTmpKeeps, HousekeepingKeeps, SweepDeadKeeps, SweepDirKeeps
  <2>2. PidOf[p] \in Pids
    BY SessionsAssumption
  <2>3. CASE SkipSweep(p) \/ ListDirs(p) \/ EndSweep(p) \/ AbandonSweep(p)
    BY <2>2, <2>3, HousekeepingKeeps
  <2> QED
    BY <1>2, <2>1, <2>3, StartKeeps, ShareKeeps, CreateTmpKeeps, LockTmpKeeps, RenameLockKeeps,
       ClearDirKeeps, MakeDirKeeps, DropGuardKeeps, BeginSweepKeeps, VictimDirKeeps,
       VictimLockKeeps, DieKeeps
       DEF Proceed
<1> QED
  BY <1>1, <1>2 DEF SessionsNext

\* "A session is alive exactly while its session-<pid>.lock sibling is held":
\* for any number of processes that start, sweep and die at any point, and any
\* reuse of pids, an established session keeps its lock file and its directory,
\* unless a sweep could not open its lock file.
THEOREM LiveSessionsStayAlive == SessionsSpec => []LiveSessionsStay
<1>1. SessionsInv => LiveSessionsStay
  BY DEF SessionsInv
<1> QED
  BY <1>1, InitSessionsInv, StepKeeps, PTL DEF SessionsSpec

-----------------------------------------------------------------------------
(* A sweep that reads both listings finds everything a dead process left.  *)

\* A lock file stays with the pid it was made for.
FilesKeepTheirPid ==
    /\ \A i \in Pids : /\ tmpLock[i] # Nobody => PidOf[tmpLock[i]] = i
                       /\ sesLock[i] # Nobody => PidOf[sesLock[i]] = i
    /\ \A p \in Procs : inode[p] # Nobody => PidOf[inode[p]] = PidOf[p]

\* A lock that is held is held by a live process, on the file it has open.
HoldersLive ==
    \A f \in Procs : lockedBy[f] # Nobody =>
        stage[lockedBy[f]] \in Locked \cup {"rename"} /\ inode[lockedBy[f]] = f

\* While a sweep runs, what it has not dealt with yet of a session that was
\* dead as it began is still on its list.
SweepFinds ==
    \A p \in Procs : stage[p] \in Sweeping => \A i \in doomed :
        /\ \A q \in Procs : PidOf[q] = i => stage[q] \in {"off", "dead", "guard"}
        /\ IF stage[p] = "sweepDirs"
           THEN /\ tmpLock[i] = Nobody \/ i \in unopened
                /\ sesLock[i] = Nobody
                /\ sesDir[i] # Nobody => <<"dir", i>> \in todo
           ELSE /\ tmpLock[i] # Nobody => <<"tmp", i>> \in todo \/ i \in unopened
                /\ sesLock[i] # Nobody =>
                      <<"lock", i>> \in todo \/ (victim = i /\ stage[p] # "sweepLocks")

SweepInv == SessionsInv /\ FilesKeepTheirPid /\ HoldersLive /\ SweepFinds

\* A step of p, with i for what a sweep is looking at.
SessionStep(p, i) ==
    \/ StartSession(p) \/ ShareGuard(p) \/ CreateTmp(p) \/ LockTmp(p) \/ RenameLock(p)
    \/ ClearDir(p) \/ MakeDir(p) \/ DropGuard(p) \/ Die(p)
    \/ SkipSweep(p) \/ BeginSweep(p) \/ SweepTmp(p, i) \/ SweepHeld(p, i) \/ SweepDead(p, i)
        \/ RemoveVictimDir(p)
    \/ RemoveVictimLock(p) \/ ListDirs(p) \/ SweepDir(p, i) \/ EndSweep(p) \/ AbandonSweep(p)

\* Lock files are made for a pid and renamed within it.
LEMMA FilesStep ==
    ASSUME SweepInv, NEW p \in Procs, NEW i \in Pids, SessionStep(p, i)
    PROVE  FilesKeepTheirPid'
<1> USE SessionsAssumption DEF SweepInv, SessionsInv, SessionsTypeOK, FilesKeepTheirPid, To,
    shared, sweep, failed
<1>1. CASE CreateTmp(p)
  BY <1>1 DEF CreateTmp
<1>2. CASE RenameLock(p)
  BY <1>2 DEF RenameLock
<1>3. CASE SweepTmp(p, i) \/ RemoveVictimLock(p)
  BY <1>3 DEF SweepTmp, RemoveVictimLock
<1>4. CASE StartSession(p) \/ ShareGuard(p) \/ LockTmp(p) \/ ClearDir(p) \/ MakeDir(p)
           \/ DropGuard(p) \/ Die(p) \/ SkipSweep(p) \/ BeginSweep(p) \/ SweepHeld(p, i)
           \/ SweepDead(p, i) \/ RemoveVictimDir(p) \/ ListDirs(p) \/ SweepDir(p, i)
           \/ EndSweep(p) \/ AbandonSweep(p)
  BY <1>4 DEF StartSession, ShareGuard, LockTmp, ClearDir, MakeDir, DropGuard, Die, SkipSweep,
         BeginSweep, SweepHeld, SweepDead, RemoveVictimDir, ListDirs, SweepDir, EndSweep,
         AbandonSweep
<1> QED
  BY <1>1, <1>2, <1>3, <1>4 DEF SessionStep

\* Only a process that goes on living takes a lock; one that dies gives it up.
LEMMA HoldersStep ==
    ASSUME SweepInv, NEW p \in Procs, NEW i \in Pids, SessionStep(p, i)
    PROVE  HoldersLive'
<1> USE SessionsAssumption DEF SweepInv, SessionsInv, SessionsTypeOK, HoldersLive, To, shared, sweep, failed
<1>1. CASE StartSession(p) \/ ShareGuard(p) \/ CreateTmp(p)
  BY <1>1 DEF StartSession, ShareGuard, CreateTmp, Locked, Sweeping
<1>2. CASE LockTmp(p)
  BY <1>2 DEF LockTmp, LockOnItsWay, Locked, Sweeping
<1>3. CASE RenameLock(p) \/ ClearDir(p) \/ MakeDir(p) \/ DropGuard(p)
  BY <1>3 DEF RenameLock, ClearDir, MakeDir, DropGuard, Locked, Sweeping
<1>4. CASE Die(p)
  BY <1>4 DEF Die, Locked, Sweeping
<1>5. CASE SkipSweep(p) \/ BeginSweep(p) \/ SweepTmp(p, i) \/ SweepHeld(p, i) \/ SweepDead(p, i)
           \/ RemoveVictimDir(p) \/ RemoveVictimLock(p) \/ ListDirs(p) \/ SweepDir(p, i)
           \/ EndSweep(p) \/ AbandonSweep(p)
  <2>1. lockedBy' = lockedBy /\ inode' = inode
    BY <1>5 DEF SkipSweep, BeginSweep, SweepTmp, SweepHeld, SweepDead, RemoveVictimDir,
           RemoveVictimLock, ListDirs, SweepDir, EndSweep, AbandonSweep
  <2>2. stage[p] \in Locked
    BY <1>5 DEF SkipSweep, BeginSweep, SweepTmp, SweepHeld, SweepDead, RemoveVictimDir,
           RemoveVictimLock, ListDirs, SweepDir, EndSweep, AbandonSweep, Locked, Sweeping
  <2>3. stage' = stage \/ \E s \in Locked : stage' = [stage EXCEPT ![p] = s]
    BY <1>5 DEF SkipSweep, BeginSweep, SweepTmp, SweepHeld, SweepDead, RemoveVictimDir,
           RemoveVictimLock, ListDirs, SweepDir, EndSweep, AbandonSweep, Locked, Sweeping
  <2> QED
    BY <2>1, <2>2, <2>3
<1> QED
  BY <1>1, <1>2, <1>3, <1>4, <1>5 DEF SessionStep

\* Nobody holds a lock file of a pid whose owner was dead as the sweep began,
\* and it is not the sweeping process's own pid.
LEMMA DoomedAreUnheld ==
    ASSUME SweepInv, NEW p \in Procs, stage[p] \in Sweeping, NEW i \in doomed
    PROVE  i # PidOf[p] /\ \A f \in Procs : PidOf[f] = i => lockedBy[f] = Nobody
<1> USE SessionsAssumption DEF SweepInv, SessionsInv, SessionsTypeOK
<1>1. \A q \in Procs : PidOf[q] = i => stage[q] \in {"off", "dead", "guard"}
  BY DEF SweepFinds
<1>2. i # PidOf[p]
  BY <1>1 DEF Sweeping
<1>3. ASSUME NEW f \in Procs, PidOf[f] = i, lockedBy[f] # Nobody PROVE FALSE
  <2>1. lockedBy[f] \in Procs /\ inode[lockedBy[f]] = f
        /\ stage[lockedBy[f]] \in Locked \cup {"rename"}
    BY <1>3 DEF HoldersLive
  <2>2. PidOf[lockedBy[f]] = i
    BY <1>3, <2>1 DEF FilesKeepTheirPid
  <2> QED
    BY <1>1, <2>1, <2>2 DEF Locked, Sweeping
<1> QED
  BY <1>2, <1>3

\* There is one sweep at a time.
LEMMA OneSweeper ==
    ASSUME SweepInv, NEW p \in Procs, stage[p] \in Sweeping, NEW q \in Procs, stage[q] \in Sweeping
    PROVE  q = p
BY DEF SweepInv, SessionsInv, GuardHeld

\* A sweep strikes an item off its list when it has dealt with it, and nobody else adds one.
LEMMA FindsStep ==
    ASSUME SweepInv, NEW p \in Procs, NEW i \in Pids, SessionStep(p, i)
    PROVE  SweepFinds'
<1> USE SessionsAssumption DEF SweepInv, SessionsInv, SessionsTypeOK, SweepFinds, To, shared, sweep, failed
<1>1. CASE StartSession(p)
  <2>1. ASSUME NEW q \in Procs, stage'[q] \in Sweeping PROVE q # p /\ stage[q] \in Sweeping
    BY <1>1, <2>1 DEF StartSession, Sweeping
  <2>2. \A q \in Procs : stage'[q] # stage[q] => stage'[q] = "guard"
    BY <1>1 DEF StartSession
  <2> QED
    BY <1>1, <2>1, <2>2 DEF StartSession
<1>2. CASE ShareGuard(p)
  <2>1. ASSUME NEW q \in Procs PROVE stage'[q] \notin Sweeping
    <3>1. stage[q] \notin Sweeping
      BY <1>2 DEF ShareGuard, GuardHeld
    <3> QED
      BY <1>2, <3>1 DEF ShareGuard, Sweeping
  <2> QED
    BY <2>1
<1>3. CASE CreateTmp(p) \/ LockTmp(p) \/ RenameLock(p) \/ ClearDir(p) \/ MakeDir(p) \/ DropGuard(p)
  <2>1. p \in sharing /\ sweeping = Nobody
    BY <1>3 DEF CreateTmp, LockTmp, RenameLock, ClearDir, MakeDir, DropGuard, GuardHeld,
           Establishing
  <2>2. ASSUME NEW q \in Procs PROVE stage'[q] \notin Sweeping
    <3>1. stage[q] \notin Sweeping
      BY <2>1 DEF GuardHeld
    <3> QED
      BY <1>3, <3>1 DEF CreateTmp, LockTmp, RenameLock, ClearDir, MakeDir, DropGuard, Sweeping
  <2> QED
    BY <2>2
<1>4. CASE Die(p)
  <2>1. ASSUME NEW q \in Procs, stage'[q] \in Sweeping
        PROVE  /\ q # p /\ stage[q] \in Sweeping /\ stage'[q] = stage[q]
               /\ todo' = todo /\ victim' = victim
    <3>1. q # p /\ stage[q] \in Sweeping /\ stage'[q] = stage[q]
      BY <1>4, <2>1 DEF Die, Sweeping
    <3>2. sweeping # p
      BY <3>1 DEF GuardHeld
    <3> QED
      BY <1>4, <3>1, <3>2 DEF Die
  <2>2. \A q \in Procs : stage'[q] # stage[q] => stage'[q] = "dead"
    BY <1>4 DEF Die
  <2>3. UNCHANGED <<tmpLock, sesLock, sesDir, doomed, unopened>>
    BY <1>4 DEF Die
  <2> QED
    BY <2>1, <2>2, <2>3
<1>5. CASE BeginSweep(p)
  <2>1. /\ stage'[p] = "sweepLocks"
        /\ \A q \in Procs : stage'[q] \in Sweeping => q = p
    BY <1>5 DEF BeginSweep, GuardHeld, Sweeping
  <2>2. ASSUME NEW j \in doomed'
        PROVE  /\ j \in Pids
               /\ \A q \in Procs : PidOf[q] = j => stage'[q] \in {"off", "dead"}
    BY <1>5, <2>2 DEF BeginSweep, Live
  <2>3. ASSUME NEW j \in Pids
        PROVE  /\ tmpLock'[j] # Nobody => <<"tmp", j>> \in todo'
               /\ sesLock'[j] # Nobody => <<"lock", j>> \in todo'
    BY <1>5, <2>3 DEF BeginSweep
  <2> QED
    BY <2>1, <2>2, <2>3
<1>6. CASE SkipSweep(p)
  <2>1. ASSUME NEW q \in Procs, stage'[q] \in Sweeping PROVE q # p /\ stage[q] \in Sweeping
    BY <1>6, <2>1 DEF SkipSweep, Sweeping
  <2>2. ASSUME NEW q \in Procs, stage'[q] \in Sweeping, NEW j \in doomed PROVE PidOf[p] # j
    BY <1>6, <2>1, <2>2 DEF SkipSweep
  <2> QED
    BY <1>6, <2>1, <2>2 DEF SkipSweep
<1>7. CASE EndSweep(p) \/ AbandonSweep(p)
  <2>1. ASSUME NEW q \in Procs PROVE stage'[q] \notin Sweeping
    <3>1. stage[q] \in Sweeping => q = p
      BY <1>7, OneSweeper DEF EndSweep, AbandonSweep, Sweeping
    <3> QED
      BY <1>7, <3>1 DEF EndSweep, AbandonSweep, Sweeping
  <2> QED
    BY <2>1
<1>8. CASE SweepTmp(p, i)
  <2>1. stage[p] \in Sweeping /\ doomed' = doomed
        /\ \A q \in Procs : stage'[q] \in Sweeping => q = p
    BY <1>8, OneSweeper DEF SweepTmp, Sweeping
  <2>2. ASSUME NEW j \in doomed PROVE j = i => tmpLock'[i] = Nobody \/ i \in unopened'
    <3>1. CASE i \in unopened'
      BY <3>1
    <3>2. CASE tmpLock' = [tmpLock EXCEPT ![i] =
              IF i # PidOf[p] /\ @ # Nobody /\ lockedBy[@] = Nobody THEN Nobody ELSE @]
      BY <2>1, <2>2, <3>2, DoomedAreUnheld DEF FilesKeepTheirPid
    <3> QED
      BY <1>8, <3>1, <3>2 DEF SweepTmp
  <2>3. /\ stage' = stage /\ stage[p] = "sweepLocks" /\ victim' = victim /\ sesLock' = sesLock
        /\ todo' = todo \ {<<"tmp", i>>} /\ unopened \subseteq unopened'
        /\ \A j \in Pids : tmpLock'[j] \in {tmpLock[j], Nobody}
    BY <1>8 DEF SweepTmp
  <2> QED
    BY <2>1, <2>2, <2>3 DEF Sweeping
<1>9. CASE SweepHeld(p, i)
  <2>1. stage[p] \in Sweeping /\ doomed' = doomed
        /\ \A q \in Procs : stage'[q] \in Sweeping => q = p
    BY <1>9, OneSweeper DEF SweepHeld, Sweeping
  <2>2. ASSUME NEW j \in doomed PROVE j # i
    BY <1>9, <2>1, <2>2, DoomedAreUnheld DEF SweepHeld, Held, Holder, FilesKeepTheirPid
  <2> QED
    BY <1>9, <2>1, <2>2 DEF SweepHeld, Sweeping
<1>10. CASE SweepDead(p, i)
  <2>1. stage[p] \in Sweeping /\ doomed' = doomed
        /\ \A q \in Procs : stage'[q] \in Sweeping => q = p
    BY <1>10, OneSweeper DEF SweepDead, Sweeping
  <2>2. /\ stage[p] = "sweepLocks" /\ stage'[p] = "victimDir" /\ victim' = i
        /\ \A q \in Procs : q # p => stage'[q] = stage[q]
        /\ UNCHANGED <<tmpLock, sesLock, sesDir>>
    BY <1>10 DEF SweepDead
  <2>3. ASSUME NEW j \in doomed
        PROVE  \A q \in Procs : PidOf[q] = j => stage'[q] \in {"off", "dead", "guard"}
    BY <2>1, <2>2, <2>3 DEF Sweeping
  <2>4. ASSUME NEW j \in doomed
        PROVE  /\ tmpLock[j] # Nobody => <<"tmp", j>> \in todo' \/ j \in unopened'
               /\ sesLock[j] # Nobody => <<"lock", j>> \in todo' \/ victim' = j
    <3>1. /\ tmpLock[j] # Nobody => <<"tmp", j>> \in todo \/ j \in unopened
          /\ sesLock[j] # Nobody => <<"lock", j>> \in todo
      BY <2>1, <2>2
    <3>2. todo' = todo \ {<<"lock", i>>} /\ unopened' = unopened
      BY <1>10 DEF SweepDead
    <3> QED
      BY <2>2, <3>1, <3>2
  <2> QED
    BY <2>1, <2>2, <2>3, <2>4
<1>11. CASE RemoveVictimDir(p)
  <2>1. stage[p] \in Sweeping /\ doomed' = doomed
        /\ \A q \in Procs : stage'[q] \in Sweeping => q = p
    BY <1>11, OneSweeper DEF RemoveVictimDir, Sweeping
  <2>2. ASSUME NEW j \in doomed PROVE sesLock'[j] = sesLock[j] /\ tmpLock'[j] = tmpLock[j]
    BY <1>11, <2>1, <2>2 DEF RemoveVictimDir
  <2> QED
    BY <1>11, <2>1, <2>2 DEF RemoveVictimDir, Sweeping
<1>12. CASE RemoveVictimLock(p)
  <2>1. stage[p] \in Sweeping /\ doomed' = doomed
        /\ \A q \in Procs : stage'[q] \in Sweeping => q = p
    BY <1>12, OneSweeper DEF RemoveVictimLock, Sweeping
  <2>2. ASSUME NEW j \in doomed PROVE sesLock'[j] = (IF j = victim THEN Nobody ELSE sesLock[j])
               /\ tmpLock'[j] = tmpLock[j]
    BY <1>12, <2>1, <2>2 DEF RemoveVictimLock
  <2>3. /\ stage[p] = "victimLock" /\ stage' = [stage EXCEPT ![p] = "sweepLocks"]
        /\ todo' = todo /\ unopened' = unopened
    BY <1>12 DEF RemoveVictimLock
  <2>4. ASSUME NEW j \in doomed
        PROVE  \A q \in Procs : PidOf[q] = j => stage'[q] \in {"off", "dead", "guard"}
    BY <2>1, <2>3, <2>4 DEF Sweeping
  <2>5. ASSUME NEW j \in doomed
        PROVE  /\ tmpLock'[j] # Nobody => <<"tmp", j>> \in todo' \/ j \in unopened'
               /\ sesLock'[j] # Nobody => <<"lock", j>> \in todo'
    BY <2>1, <2>2, <2>3, <2>5
  <2>6. stage'[p] = "sweepLocks"
    BY <2>3
  <2> QED
    BY <2>1, <2>4, <2>5, <2>6
<1>13. CASE ListDirs(p)
  <2>1. stage[p] \in Sweeping /\ doomed' = doomed
        /\ \A q \in Procs : stage'[q] \in Sweeping => q = p
    BY <1>13, OneSweeper DEF ListDirs, Sweeping
  <2>2. /\ stage[p] = "sweepLocks" /\ stage'[p] = "sweepDirs" /\ todo = {}
        /\ \A q \in Procs : q # p => stage'[q] = stage[q]
        /\ UNCHANGED <<tmpLock, sesLock, sesDir, unopened>>
    BY <1>13 DEF ListDirs
  <2>3. ASSUME NEW j \in doomed
        PROVE  \A q \in Procs : PidOf[q] = j => stage'[q] \in {"off", "dead", "guard"}
    BY <2>1, <2>2, <2>3 DEF Sweeping
  <2>4. ASSUME NEW j \in doomed PROVE (tmpLock[j] = Nobody \/ j \in unopened') /\ sesLock[j] = Nobody
    BY <2>1, <2>2, <2>4
  <2>5. ASSUME NEW j \in doomed PROVE sesDir[j] # Nobody => <<"dir", j>> \in todo'
    <3>1. j \in Pids /\ j # PidOf[p]
      BY <2>1, <2>5, DoomedAreUnheld
    <3> QED
      BY <1>13, <3>1 DEF ListDirs
  <2> QED
    BY <2>1, <2>2, <2>3, <2>4, <2>5
<1>14. CASE SweepDir(p, i)
  <2>1. stage[p] \in Sweeping /\ doomed' = doomed
        /\ \A q \in Procs : stage'[q] \in Sweeping => q = p
    BY <1>14, OneSweeper DEF SweepDir, Sweeping
  <2>2. ASSUME NEW j \in doomed PROVE /\ (tmpLock'[j] = Nobody \/ j \in unopened') /\ sesLock'[j] = Nobody
                                         /\ sesDir'[j] # Nobody => j # i /\ sesDir[j] # Nobody
    BY <1>14, <2>1, <2>2 DEF SweepDir
  <2> QED
    BY <1>14, <2>1, <2>2 DEF SweepDir, Sweeping
<1> QED
  BY <1>1, <1>2, <1>3, <1>4, <1>5, <1>6, <1>7, <1>8, <1>9, <1>10, <1>11, <1>12, <1>13,
         <1>14 DEF SessionStep

\* At the start nothing is locked and nobody sweeps.
LEMMA InitSweepInv == SessionsInit => SweepInv
<1> SUFFICES ASSUME SessionsInit PROVE SweepInv
  OBVIOUS
<1>1. FilesKeepTheirPid /\ HoldersLive /\ SweepFinds
  BY SessionsAssumption DEF SessionsInit, FilesKeepTheirPid, HoldersLive, SweepFinds, Sweeping
<1> QED
  BY <1>1, InitSessionsInv DEF SweepInv

\* Every step keeps the invariant of the sweeps.
LEMMA SweepStepKeeps == SweepInv /\ [SessionsNext]_sesVars => SweepInv'
<1> SUFFICES ASSUME SweepInv, [SessionsNext]_sesVars PROVE SweepInv'
  OBVIOUS
<1>1. SessionsInv'
  BY StepKeeps DEF SweepInv
<1>2. CASE UNCHANGED sesVars
  BY <1>1, <1>2 DEF sesVars, shared, sweep, failed, SweepInv, FilesKeepTheirPid, HoldersLive, SweepFinds
<1>3. ASSUME NEW p \in Procs, StartSession(p) \/ Proceed(p) \/ Die(p) PROVE SweepInv'
  <2>1. PidOf[p] \in Pids
    BY SessionsAssumption
  <2>2. PICK i \in Pids : SessionStep(p, i)
    BY <1>3, <2>1 DEF Proceed, SessionStep
  <2> QED
    BY <1>1, <2>2, FilesStep, HoldersStep, FindsStep DEF SweepInv
<1> QED
  BY <1>2, <1>3 DEF SessionsNext

\* For any number of processes and any points at which they died: a sweep that
\* reads both listings leaves nothing of a session whose process was dead when
\* the sweep began, save a temporary lock file it could not open.
THEOREM SweepsFindEverything == SessionsSpec => SweepsAreThorough
<1> DEFINE A == \A p \in Procs : stage[p] = "sweepDirs" /\ stage'[p] = "serve" =>
                  \A i \in doomed : /\ tmpLock'[i] = Nobody \/ i \in unopened
                                   /\ sesLock'[i] = Nobody /\ sesDir'[i] = Nobody
<1>1. SweepInv /\ [SessionsNext]_sesVars => [A]_sesVars
  <2> SUFFICES ASSUME SweepInv, SessionsNext, NEW p \in Procs, stage[p] = "sweepDirs",
      stage'[p] = "serve"
               PROVE  \A i \in doomed : /\ tmpLock'[i] = Nobody \/ i \in unopened
                                /\ sesLock'[i] = Nobody /\ sesDir'[i] = Nobody
    OBVIOUS
  <2> USE SessionsAssumption DEF SweepInv, SessionsInv, SessionsTypeOK
  <2>1. PICK q \in Procs : StartSession(q) \/ Proceed(q) \/ Die(q)
    BY DEF SessionsNext
  <2>2. EndSweep(p)
    <3>1. q = p
      BY <2>1 DEF StartSession, Proceed, Die, ShareGuard, CreateTmp, LockTmp, RenameLock, ClearDir,
             MakeDir,
                  DropGuard, SkipSweep, BeginSweep, SweepTmp, SweepHeld, SweepDead, SweepDir,
                      RemoveVictimDir,
                  RemoveVictimLock, ListDirs, EndSweep, AbandonSweep, To
    <3> QED
      BY <2>1, <3>1 DEF StartSession, Proceed, Die, ShareGuard, CreateTmp, LockTmp, RenameLock,
             ClearDir, MakeDir,
                  DropGuard, SkipSweep, BeginSweep, SweepTmp, SweepHeld, SweepDead, SweepDir,
                      RemoveVictimDir,
                  RemoveVictimLock, ListDirs, AbandonSweep, To
  <2>3. todo = {} /\ tmpLock' = tmpLock /\ sesLock' = sesLock /\ sesDir' = sesDir
    BY <2>2 DEF EndSweep, shared
  <2>4. stage[p] \in Sweeping
    BY DEF Sweeping
  <2> QED
    BY <2>3, <2>4 DEF SweepFinds
<1> QED
  BY <1>1, InitSweepInv, SweepStepKeeps, PTL DEF SessionsSpec, SweepsAreThorough

----------------------------------------------------------------------------
(***************************************************************************)
(* The file provider over eofs: one call owns the engine (OneOwner of      *)
(* FsEofs), and the device moves from one whole operation to the next      *)
(* (WholeOperations). Neither is inductive: the proof says what is pending *)
(* at each await of a call.                                                *)
(***************************************************************************)

Handles == [path : Paths, writable : BOOLEAN, trunc : BOOLEAN]

Typed ==
    /\ disk \in [Paths -> Node] /\ pending \in [Paths -> Node]
    /\ op \in [Clients -> {Idle} \cup Ops]
    /\ handle \in [Clients -> {NoHandle} \cup Handles]

\* The one that took the engine out of the slot.
EngineOwned ==
    /\ \A c, d \in Clients : op[c] # Idle /\ op[d] # Idle => c = d
    /\ slot = "Busy" <=> \E c \in Clients : op[c] # Idle
    /\ slot # "Busy" => pending = disk

\* Only a write truncates or takes more than one engine call, and it goes
\* through an open handle.
Sound(c, o) ==
    /\ o.call.kind = "write" => handle[c] \in Handles
    /\ o.truncating => o.call.kind = "write"
    /\ o.at \in {"create", "splice"} => o.truncating
    /\ o.call.kind = "read" => o.at # "commit"

\* What the call in flight has pending, by where it is. Only a rewrite may
\* start over with its changes half made.
HasPending(o) ==
    /\ o.at \in {"mount", "return"} => pending = disk
    /\ o.at = "body" /\ ~o.truncating => pending = disk
    /\ o.at = "body" => \E node \in Node : pending = [disk EXCEPT ![o.path] = node]
    /\ o.at = "create" => pending = [disk EXCEPT ![o.path] = Absent]
    /\ o.at = "splice" => pending = [disk EXCEPT ![o.path] = <<>>]
    /\ o.at = "commit" => pending = Effect(o)

CallsInFlight == \A c \in Clients : op[c] # Idle => Sound(c, op[c]) /\ HasPending(op[c])

FsInv == Typed /\ EngineOwned /\ CallsInFlight

\* The nodes a call puts in place.
LEMMA NodesOfCalls == Absent \in Node /\ Dir \in Node /\ <<>> \in Node
<1>1. <<>> \in [1 .. 0 -> Cells \cup {Hole}] /\ 0 \in 0 .. (MaxOffset + 1)
  BY OffsetBound
<1> QED
  BY <1>1 DEF Node

\* A file stays a file, no longer than the last write allows.
LEMMA SpliceIsNode ==
    ASSUME NEW file \in Node, IsFile(file), NEW offset \in 0 .. MaxOffset, NEW cell \in Cells
    PROVE  Splice(file, offset, cell) \in Node
<1>1. PICK n \in 0 .. (MaxOffset + 1) : file \in [1 .. n -> Cells \cup {Hole}]
  BY DEF Node, IsFile
<1>2. file \in Seq(Cells \cup {Hole}) /\ Len(file) = n
  BY <1>1, OffsetBound
<1> DEFINE m == IF offset >= n THEN offset + 1 ELSE n
<1>3. m \in 0 .. (MaxOffset + 1)
  BY OffsetBound
<1>4. Splice(file, offset, cell) \in [1 .. m -> Cells \cup {Hole}]
  BY <1>1, <1>2, OffsetBound DEF Splice
<1> QED
  BY <1>3, <1>4 DEF Node

LEMMA InitFsInv == Init => FsInv
BY NodesOfCalls DEF Init, FsInv, Typed, EngineOwned, CallsInFlight, NoFiles

\* A call in flight is alone.
LEMMA Alone ==
    ASSUME FsInv, NEW c \in Clients, op[c] # Idle
    PROVE  /\ op[c] \in Ops /\ Sound(c, op[c]) /\ HasPending(op[c]) /\ slot = "Busy"
           /\ \A d \in Clients \ {c} : op[d] = Idle
BY DEF FsInv, Typed, EngineOwned, CallsInFlight

\* It moves on to o: what is left to show is what o has pending.
LEMMA MovesKeep ==
    ASSUME FsInv, NEW c \in Clients, op[c] # Idle, NEW o \in Ops, op' = [op EXCEPT ![c] = o],
           slot' = slot, handle' = handle, disk' \in [Paths -> Node], pending' \in [Paths -> Node],
           Sound(c, o), HasPending(o)'
    PROVE  FsInv'
<1>1. o # Idle /\ op' \in [Clients -> {Idle} \cup Ops] /\ op'[c] = o /\ \A d \in Clients \ {c} : op'[d] = Idle
  BY Alone, IdleIsNoCall DEF FsInv, Typed
<1>2. Typed'
  BY <1>1 DEF FsInv, Typed
<1>3. EngineOwned'
  BY <1>1, Alone DEF EngineOwned
<1>4. Sound(c, o)'
  BY DEF Sound
<1>5. CallsInFlight'
  BY <1>1, <1>4 DEF CallsInFlight
<1> QED
  BY <1>2, <1>3, <1>5 DEF FsInv

\* It ends, and leaves nothing pending.
LEMMA EndsKeep ==
    ASSUME FsInv, NEW c \in Clients, op[c] # Idle, op' = [op EXCEPT ![c] = Idle],
           slot' \in {"Empty", "Ready"}, handle' \in [Clients -> {NoHandle} \cup Handles],
           disk' \in [Paths -> Node], pending' = disk'
    PROVE  FsInv'
<1>1. op' \in [Clients -> {Idle} \cup Ops] /\ \A d \in Clients : op'[d] = Idle
  BY Alone DEF FsInv, Typed
<1> QED
  BY <1>1 DEF FsInv, Typed, EngineOwned, CallsInFlight

\* What a call carries, by its kind.
LEMMA CallFields ==
    ASSUME NEW call \in Calls
    PROVE  /\ call.kind \in {"read", "mkdir", "remove", "open", "write"}
           /\ call.kind = "write" => call.offset \in 0 .. MaxOffset /\ call.cell \in Cells
           /\ call.kind # "write" => call.path \in Paths
           /\ call.kind = "open" => call.create \in BOOLEAN /\ call.truncate \in BOOLEAN
                                    /\ call.writable \in BOOLEAN
BY DEF Calls

\* A call finds the engine at rest, with nothing pending.
LEMMA CallKeeps ==
    ASSUME FsInv, NEW c \in Clients, NEW call \in Calls, Call(c, call)
    PROVE  FsInv'
<1> PICK o : o = Started(call, c)
  OBVIOUS
<1>1. \A d \in Clients : op[d] = Idle
  BY DEF FsInv, EngineOwned, Call
<1>2. pending = disk /\ disk \in [Paths -> Node] /\ pending' = pending /\ disk' = disk
  BY DEF FsInv, Typed, EngineOwned, Call
<1>3. call.kind = "write" => handle[c] \in Handles
  BY DEF FsInv, Typed, Call
<1>4. o \in Ops
  BY <1>3, CallFields DEF Started, Ops, Handles
<1>5. op' \in [Clients -> {Idle} \cup Ops] /\ op'[c] = o /\ o # Idle /\ \A d \in Clients \ {c} : op'[d] = Idle
  BY <1>1, <1>4, IdleIsNoCall DEF FsInv, Typed, Call
<1>6. Typed' /\ EngineOwned'
  BY <1>2, <1>5 DEF Call, EngineOwned, FsInv, Typed
<1>7. Sound(c, o)'
  BY <1>3, CallFields DEF Sound, Started, Call, Handles
<1>8. o.path \in Paths /\ o.at \in {"mount", "body"}
  BY <1>4 DEF Started, Ops
<1>9. HasPending(o)'
  <2>1. disk = [disk EXCEPT ![o.path] = disk[o.path]] /\ disk[o.path] \in Node
    BY <1>2, <1>8
  <2> QED
    BY <1>2, <1>8, <2>1 DEF HasPending
<1>10. CallsInFlight'
  BY <1>5, <1>7, <1>9 DEF CallsInFlight
<1> QED
  BY <1>6, <1>10 DEF FsInv

\* The first use: the engine is mounted with nothing pending, or is not.
LEMMA MountKeeps ==
    ASSUME FsInv, NEW c \in Clients, MountOrFormat(c) \/ BringUpFails(c)
    PROVE  FsInv'
<1> PICK o : o = [op[c] EXCEPT !.at = "body"]
  OBVIOUS
<1>1. op[c] # Idle /\ op[c] \in Ops /\ op[c].at = "mount" /\ pending = disk /\ disk \in [Paths -> Node]
  BY Alone DEF MountOrFormat, BringUpFails, At, HasPending, FsInv, Typed
<1>2. CASE MountOrFormat(c)
  <2>1. o \in Ops /\ op' = [op EXCEPT ![c] = o] /\ o.path \in Paths /\ o.at = "body"
    BY <1>1, <1>2 DEF MountOrFormat, Goto, Ops, FsInv, Typed
  <2>2. disk = [disk EXCEPT ![o.path] = disk[o.path]] /\ disk[o.path] \in Node
    BY <1>1, <2>1
  <2>3. HasPending(o)'
    BY <1>1, <1>2, <2>1, <2>2 DEF MountOrFormat, HasPending
  <2>4. Sound(c, o)
    BY <1>1, Alone DEF Sound, Ops
  <2> QED
    BY <1>1, <1>2, <2>1, <2>3, <2>4, MovesKeep DEF MountOrFormat
<1>3. CASE BringUpFails(c)
  BY <1>1, <1>3, EndsKeep DEF BringUpFails, FsInv, Typed
<1> QED
  BY <1>2, <1>3

\* One engine call that leads on: what it puts at its path, and where it goes.
LEMMA ChangeKeeps ==
    ASSUME FsInv, NEW c \in Clients, op[c] # Idle, NEW node \in Node,
           NEW where \in {"create", "splice", "commit", "return"}, Change(c, node, where),
           NEW o, o = [op[c] EXCEPT !.at = where], Sound(c, o), HasPending(o)'
    PROVE  FsInv'
<1>1. op[c] \in Ops /\ pending \in [Paths -> Node] /\ disk \in [Paths -> Node]
  BY Alone DEF FsInv, Typed
<1>2. o \in Ops /\ op' = [op EXCEPT ![c] = o]
  BY <1>1 DEF Change, Goto, Ops, FsInv, Typed
<1>3. pending' \in [Paths -> Node]
  BY <1>1 DEF Change, Ops
<1> QED
  BY <1>1, <1>2, <1>3, MovesKeep DEF Change

\* open, mkdir, remove and reads: one engine call makes the whole effect.
LEMMA BodyKeeps ==
    ASSUME FsInv, NEW c \in Clients, Body(c)
    PROVE  FsInv'
<1> DEFINE path == op[c].path
           kind == op[c].call.kind
<1>1. /\ op[c] # Idle /\ op[c] \in Ops /\ op[c].at = "body" /\ kind # "write" /\ path \in Paths
      /\ ~op[c].truncating /\ pending = disk /\ disk \in [Paths -> Node] /\ disk' = disk
  BY Alone DEF Body, At, Sound, HasPending, Ops, Change, FsInv, Typed
<1>2. ASSUME Change(c, pending[path], "return") PROVE FsInv'
  <2> PICK o : o = [op[c] EXCEPT !.at = "return"]
    OBVIOUS
  <2>1. o \in Ops /\ o.at = "return" /\ o.call = op[c].call /\ o.truncating = op[c].truncating
    BY <1>1 DEF Ops
  <2>2. pending' = disk'
    BY <1>1, <1>2 DEF Change
  <2>3. Sound(c, o) /\ HasPending(o)'
    BY <1>1, <2>1, <2>2, Alone DEF Sound, HasPending
  <2>4. pending[path] \in Node
    BY <1>1
  <2> QED
    BY <1>1, <1>2, <2>3, <2>4, ChangeKeeps
<1>3. ASSUME NEW node \in Node, Change(c, node, "commit"), kind # "read",
             node = CASE kind = "open" -> <<>> [] kind = "mkdir" -> Dir [] kind = "remove" -> Absent
      PROVE  FsInv'
  <2> PICK o : o = [op[c] EXCEPT !.at = "commit"]
    OBVIOUS
  <2>1. /\ o.at = "commit" /\ o.call = op[c].call /\ o.path = path
        /\ o.truncating = op[c].truncating /\ kind \in {"open", "mkdir", "remove"}
    BY <1>1, <1>3, CallFields DEF Ops
  <2>2. pending' = [disk EXCEPT ![path] = node]
    BY <1>1, <1>3 DEF Change
  <2>3. Effect(o)' = [disk EXCEPT ![path] = node]
    BY <1>1, <1>3, <2>1 DEF Effect
  <2>4. Sound(c, o) /\ HasPending(o)'
    BY <1>1, <1>3, <2>1, <2>2, <2>3, Alone DEF Sound, HasPending
  <2> QED
    BY <1>1, <1>3, <2>4, ChangeKeeps
<1> QED
  BY <1>1, <1>2, <1>3, NodesOfCalls DEF Body

\* A rewrite removes the file, and creates it anew.
LEMMA RewriteKeeps ==
    ASSUME FsInv, NEW c \in Clients, Truncate(c) \/ Recreate(c)
    PROVE  FsInv'
<1> DEFINE path == op[c].path
<1>1. /\ op[c] # Idle /\ op[c] \in Ops /\ path \in Paths /\ op[c].truncating
      /\ disk \in [Paths -> Node] /\ pending \in [Paths -> Node] /\ disk' = disk
      /\ \E node \in Node : pending = [disk EXCEPT ![path] = node]
  BY Alone, NodesOfCalls DEF Truncate, Recreate, At, Sound, HasPending, Ops, Change, FsInv, Typed
<1>2. CASE Truncate(c)
  <2> PICK o : o = [op[c] EXCEPT !.at = "create"]
    OBVIOUS
  <2>1. o.at = "create" /\ o.call = op[c].call /\ o.path = path /\ o.truncating = op[c].truncating
    BY <1>1 DEF Ops
  <2>2. pending' = [disk EXCEPT ![path] = Absent]
    BY <1>1, <1>2 DEF Truncate, Change
  <2>3. Sound(c, o) /\ HasPending(o)'
    BY <1>1, <2>1, <2>2, Alone DEF Sound, HasPending
  <2> QED
    BY <1>1, <1>2, <2>3, ChangeKeeps, NodesOfCalls DEF Truncate
<1>3. CASE Recreate(c)
  <2> PICK o : o = [op[c] EXCEPT !.at = "splice"]
    OBVIOUS
  <2>1. o.at = "splice" /\ o.call = op[c].call /\ o.path = path /\ o.truncating = op[c].truncating
    BY <1>1 DEF Ops
  <2>2. pending' = [disk EXCEPT ![path] = <<>>]
    BY <1>1, <1>3 DEF Recreate, Change
  <2>3. Sound(c, o) /\ HasPending(o)'
    BY <1>1, <2>1, <2>2, Alone DEF Sound, HasPending
  <2> QED
    BY <1>1, <1>3, <2>3, ChangeKeeps, NodesOfCalls DEF Recreate
<1> QED
  BY <1>2, <1>3

\* The splice is the last engine call of a write: over the new file of a
\* rewrite, or over the committed one.
LEMMA WriteKeeps ==
    ASSUME FsInv, NEW c \in Clients, WriteRange(c)
    PROVE  FsInv'
<1> DEFINE path == op[c].path
           call == op[c].call
           file == pending[path]
           node == Splice(file, call.offset, call.cell)
<1>1. /\ op[c] # Idle /\ op[c] \in Ops /\ path \in Paths /\ call \in Calls /\ call.kind = "write"
      /\ disk \in [Paths -> Node] /\ file \in Node /\ IsFile(file) /\ disk' = disk
  BY Alone DEF WriteRange, At, Sound, Ops, Change, FsInv, Typed
<1>2. /\ pending = [disk EXCEPT ![path] = file]
      /\ file = IF op[c].truncating THEN <<>> ELSE disk[path]
  BY <1>1, Alone DEF WriteRange, At, Sound, HasPending
<1>3. node \in Node
  BY <1>1, CallFields, SpliceIsNode
<1>4. PICK o : o = [op[c] EXCEPT !.at = "commit"]
  OBVIOUS
<1>5. o.at = "commit" /\ o.call = call /\ o.path = path /\ o.truncating = op[c].truncating
  BY <1>1, <1>4 DEF Ops
<1>6. pending' = [disk EXCEPT ![path] = node]
  BY <1>1, <1>2 DEF WriteRange, Change
<1>7. Effect(o)' = [disk EXCEPT ![path] = node]
  BY <1>1, <1>2, <1>5 DEF Effect
<1>8. Sound(c, o) /\ HasPending(o)'
  BY <1>1, <1>5, <1>6, <1>7, Alone DEF Sound, HasPending
<1>9. Change(c, node, "commit")
  BY DEF WriteRange
<1> QED
  BY <1>1, <1>3, <1>4, <1>8, <1>9, ChangeKeeps

\* The root flip publishes what is pending, all of it.
LEMMA CommitKeeps ==
    ASSUME FsInv, NEW c \in Clients, Commit(c)
    PROVE  FsInv'
<1>1. op[c] # Idle /\ op[c] \in Ops /\ op[c].at = "commit" /\ pending \in [Paths -> Node]
  BY Alone DEF Commit, At, FsInv, Typed
<1>2. PICK o : o = [op[c] EXCEPT !.at = "return"]
  OBVIOUS
<1>3. /\ o \in Ops /\ op' = [op EXCEPT ![c] = o] /\ o.at = "return" /\ o.call = op[c].call
      /\ o.truncating = op[c].truncating
  BY <1>1, <1>2 DEF Ops, Commit, Goto, FsInv, Typed
<1>4. Sound(c, o) /\ HasPending(o)'
  BY <1>1, <1>3, Alone DEF Sound, HasPending, Commit
<1> QED
  BY <1>1, <1>3, <1>4, MovesKeep DEF Commit

\* Only a rewrite starts over with changes of its own.
LEMMA RetryKeeps ==
    ASSUME FsInv, NEW c \in Clients, NoSpaceRetry(c)
    PROVE  FsInv'
<1>1. /\ op[c] # Idle /\ op[c] \in Ops /\ op[c].path \in Paths /\ op[c].at \in {"body", "create", "splice"}
      /\ pending \in [Paths -> Node] /\ disk \in [Paths -> Node]
  BY Alone DEF NoSpaceRetry, FsInv, Typed, Ops
<1>2. PICK o : o = [op[c] EXCEPT !.at = "body", !.retried = TRUE]
  OBVIOUS
<1>3. /\ o \in Ops /\ op' = [op EXCEPT ![c] = o] /\ o.at = "body" /\ o.call = op[c].call
      /\ o.truncating = op[c].truncating /\ o.path = op[c].path
  BY <1>1, <1>2 DEF Ops, NoSpaceRetry, FsInv, Typed
<1>4. Sound(c, o)
  BY <1>1, <1>3, Alone DEF Sound
<1>5. ~op[c].truncating => pending = disk
  BY <1>1, Alone DEF Sound, HasPending
<1>6. \E node \in Node : pending = [disk EXCEPT ![op[c].path] = node]
  BY <1>1, Alone, NodesOfCalls DEF HasPending
<1>7. HasPending(o)'
  BY <1>3, <1>5, <1>6 DEF HasPending, NoSpaceRetry
<1> QED
  BY <1>1, <1>3, <1>4, <1>7, MovesKeep DEF NoSpaceRetry

\* The ends of a call: an error, a cancellation, a return.
LEMMA EndKeeps ==
    ASSUME FsInv, NEW c \in Clients, Fail(c) \/ Return(c)
    PROVE  FsInv'
<1>1. CASE Fail(c)
  BY <1>1, EndsKeep DEF Fail, Discard, FsInv, Typed
<1>2. CASE Return(c)
  <2>1. /\ op[c] # Idle /\ op[c] \in Ops /\ op[c].call \in Calls /\ op[c].path \in Paths
        /\ handle \in [Clients -> {NoHandle} \cup Handles] /\ disk \in [Paths -> Node]
    BY <1>2, Alone DEF Return, At, Ops, FsInv, Typed
  <2>2. op[c].call.kind = "write" => handle[c] \in Handles
    BY <2>1, Alone DEF Sound
  <2>3. handle' \in [Clients -> {NoHandle} \cup Handles]
    BY <1>2, <2>1, <2>2, CallFields DEF Return, Handles
  <2> QED
    BY <1>2, <2>1, <2>3, EndsKeep DEF Return
<1> QED
  BY <1>1, <1>2

\* A handle is closed between calls; a crash leaves the disk as it was, or as
\* the commit it interrupted made it.
LEMMA OutsideKeeps ==
    ASSUME FsInv, (\E c \in Clients : CloseHandle(c)) \/ Crash
    PROVE  FsInv'
<1>1. CASE Crash
  BY <1>1 DEF Crash, FsInv, Typed, EngineOwned, CallsInFlight
<1>2. ASSUME NEW c \in Clients, CloseHandle(c) PROVE FsInv'
  <2>1. Typed' /\ EngineOwned'
    BY <1>2 DEF CloseHandle, FsInv, Typed, EngineOwned
  <2>2. ASSUME NEW d \in Clients, op'[d] # Idle PROVE Sound(d, op[d])' /\ HasPending(op[d])'
    <3>1. d # c /\ op[d] # Idle /\ handle'[d] = handle[d]
      BY <1>2, <2>2 DEF CloseHandle, FsInv, Typed
    <3> QED
      BY <1>2, <3>1, Alone DEF CloseHandle, Sound, HasPending, Effect
  <2> QED
    BY <2>1, <2>2 DEF FsInv, CallsInFlight
<1> QED
  BY <1>1, <1>2

\* Every step.
LEMMA FsInvKept == FsInv /\ [Next]_vars => FsInv'
<1> SUFFICES ASSUME FsInv, [Next]_vars PROVE FsInv'
  OBVIOUS
<1>1. CASE UNCHANGED vars
  BY <1>1 DEF vars, FsInv, Typed, EngineOwned, CallsInFlight, Sound, HasPending, Effect
<1> QED
  BY <1>1, CallKeeps, MountKeeps, BodyKeeps, RewriteKeeps, WriteKeeps, CommitKeeps, RetryKeeps, EndKeeps,
     OutsideKeeps DEF Next, Step

THEOREM FsInvariant == Spec => []FsInv
BY InitFsInv, FsInvKept, PTL DEF Spec

\* TypeOK: in particular a file never grows past the last cell a write may name.
THEOREM FsTypeCorrect == Spec => []TypeOK
<1> DEFINE Rest == image \in {"blank", "foreign", "eofs", "unmountable"} /\ slot \in {"Empty", "Busy", "Ready"}
<1>1. Init => Rest
  BY DEF Init
<1>2. Rest /\ [Next]_vars => Rest'
  BY DEF Next, Step, vars, Call, MountOrFormat, BringUpFails, Body, Truncate, Recreate, WriteRange, Change,
         Commit, NoSpaceRetry, Fail, Discard, Return, CloseHandle, Crash
<1>3. FsInv /\ Rest => TypeOK
  BY DEF FsInv, Typed, TypeOK, Handles
<1> QED
  BY <1>1, <1>2, <1>3, FsInvariant, PTL DEF Spec

\* OneOwner for any number of clients: the slot is Busy exactly while one call
\* has the engine, and nothing is pending while it is not.
THEOREM OneOwnerHolds == Spec => []OneOwner
<1>1. FsInv => OneOwner
  <2> SUFFICES ASSUME FsInv PROVE OneOwner
    OBVIOUS
  <2> DEFINE InFlight == {c \in Clients : op[c] # Idle}
  <2>1. Cardinality(InFlight) <= 1
    <3>1. CASE InFlight = {}
      BY <3>1, FS_EmptySet
    <3>2. ASSUME NEW c \in InFlight PROVE Cardinality(InFlight) <= 1
      <4>1. InFlight = {c}
        BY <3>2 DEF FsInv, EngineOwned
      <4>2. Cardinality({c}) = 1
        BY FS_Singleton
      <4> HIDE DEF InFlight
      <4> QED
        BY <4>1, <4>2
    <3> QED
      BY <3>1, <3>2
  <2> QED
    BY <2>1 DEF FsInv, EngineOwned, OneOwner
<1> QED
  BY <1>1, FsInvariant, PTL

\* WholeOperations for any number of clients, paths and cells, with every
\* failure, retry, cancellation and crash: what the device changes to is the
\* whole effect of one call on what it held.
THEOREM WholeOperationsHold == Spec => WholeOperations
<1>1. FsInv /\ [Next]_vars =>
        [disk' # disk => \E c \in Clients : op[c] # Idle /\ op[c].call.kind # "read" /\ disk' = Effect(op[c])]_vars
  <2> SUFFICES ASSUME FsInv, Next, disk' # disk
               PROVE  \E c \in Clients : op[c] # Idle /\ op[c].call.kind # "read" /\ disk' = Effect(op[c])
    BY DEF vars
  <2>1. \E c \in Clients : At(c, "commit") /\ disk' = pending
    BY DEF Next, Step, Call, MountOrFormat, BringUpFails, Body, Truncate, Recreate, WriteRange, Change,
           Commit, NoSpaceRetry, Fail, Discard, Return, CloseHandle, Crash
  <2>2. PICK c \in Clients : At(c, "commit") /\ disk' = pending
    BY <2>1
  <2> QED
    BY <2>2, Alone DEF At, Sound, HasPending
<1> QED
  BY <1>1, FsInvariant, PTL DEF Spec, WholeOperations
=============================================================================
