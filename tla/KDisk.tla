------------------------------- MODULE KDisk -------------------------------
(***************************************************************************)
(* The kernel's store disk: wasm/diskcache.rs (cached compile artifacts    *)
(* and saved programs on an eofs disk), wasm/shellfs.rs (the shell's file  *)
(* system over the baked image and that disk) and the compile host         *)
(* function of wasm/shellexec.rs.                                          *)
(*                                                                         *)
(* The eofs engine is its contract here (module TxnFs): a working state    *)
(* that a commit publishes as a whole.  An entry is the path its keyed tag *)
(* was computed for and a payload.  Between boots the disk may have been   *)
(* changed by something else, and the kernel may be another build.  The    *)
(* disk's flush does nothing: what a commit wrote is the host's, which     *)
(* keeps it while the host has power and writes it back when it likes.     *)
(***************************************************************************)
EXTENDS Naturals, Sequences, FiniteSets, SequencesExt

CONSTANTS SavedNames,    \* names of programs a user may save
          BakedNames,    \* names of the baked store image
          Compositions,  \* fused compositions a user compiles
          Builds,        \* kernel builds, each with its compiler fingerprint
          Chunks,        \* contents of one write call
          MaxChunks,     \* bound: writes' worth of content in a program
          CacheEntries,  \* COMPILE_CACHE_ENTRIES
          MaxHandles,    \* bound: handles open at a time
          MaxFaults,     \* bound: failing disk operations
          MaxBoots       \* bound: boots

ASSUME KDiskAssumption ==
    /\ CacheEntries \in Nat \ {0} /\ MaxChunks \in Nat /\ MaxHandles \in Nat
    /\ MaxFaults \in Nat /\ MaxBoots \in Nat
    /\ Builds # {}

BinNames == SavedNames \cup BakedNames
\* bin_path with bin_tag_key, and the path of key(executable_bytes).
Bin(n) == [dir |-> "bin", name |-> n, build |-> "any"]
\* Variant: a key without the compiler that made the artifact.
Cache_NoFingerprint(b, c) == [dir |-> "cache", name |-> c, build |-> "any"]

\* The compiler fingerprint is part of the key.
Cache(b, c) == [dir |-> "cache", name |-> c, build |-> b]
Paths == {Bin(n) : n \in BinNames} \cup {Cache(b, c) : b \in Builds, c \in Compositions}
Absent == [is |-> "absent"]
Hollow == [is |-> "hollow"]   \* created and not written, or cut short
Artifact(b, c) == <<b, c>>

VARIABLES power,      \* off, up (store disk mounted), nodisk
          kernel, boots,
          disk, work, \* what is committed, what the mounted engine sees
          stable,     \* what the host has written back of the commits
          files,      \* ShellFs::files and ::execs: open handles, by order of opening
          images,     \* ShellExec::compiled, least recently used first
          compiling,  \* compositions whose codegen is in progress
          faults,
          tried,      \* history: payloads a store was attempted with, by path
          acked       \* history: the payload last acknowledged and not touched since
diskVars == <<power, kernel, boots, disk, work, stable, files, images, compiling, faults, tried, acked>>
session == <<files, images, compiling>>

\* encode_entry.
Tagged(p, payload) == [is |-> "entry", tag |-> p, payload |-> payload]

DiskInit ==
    /\ power = "off" /\ kernel = (CHOOSE b \in Builds : TRUE) /\ boots = 0
    /\ disk = [p \in Paths |-> Absent] /\ work = disk /\ stable = disk
    /\ files = <<>> /\ images = <<>> /\ compiling = {} /\ faults = 0
    /\ tried = [p \in Paths |-> {}] /\ acked = [p \in Paths |-> Absent]

----------------------------------------------------------------------------
(* Boots.                                                                  *)

\* init: a blank disk is formatted, an eofs disk mounted; anything else, or a
\* boot without the token, leaves the kernel without a store disk.
PowerOn ==
    /\ power = "off" /\ boots < MaxBoots
    /\ power' \in {"up", "nodisk"} /\ boots' = boots + 1
    /\ kernel' \in Builds
    /\ UNCHANGED <<disk, work, stable, session, faults, tried, acked>>

\* The machine stops: a reset, a crash, its own power. What it had written stays
\* with its host.
PowerGoes ==
    /\ power # "off" /\ power' = "off"
    /\ work' = disk /\ files' = <<>> /\ images' = <<>> /\ compiling' = {}
    /\ UNCHANGED <<kernel, boots, disk, stable, faults, tried, acked>>

\* StoreDevice::flush asks for nothing: the host chooses the time.
HostWritesBack ==
    /\ stable # disk /\ stable' = disk
    /\ UNCHANGED <<power, kernel, boots, disk, work, session, faults, tried, acked>>

\* The host loses power and the machine with it: the commits it had not written
\* back are lost, or they are there and blocks of some entries are missing.
HostLosesPower ==
    /\ faults < MaxFaults /\ faults' = faults + 1
    /\ \/ disk' = stable
       \/ /\ disk # stable
          /\ \E lost \in SUBSET {p \in Paths : disk[p] # Absent} :
                disk' = [p \in Paths |-> IF p \in lost THEN Hollow ELSE disk[p]]
    /\ power' = "off" /\ work' = disk' /\ stable' = disk'
    /\ files' = <<>> /\ images' = <<>> /\ compiling' = {}
    /\ acked' = [p \in Paths |-> IF disk'[p] = acked[p] THEN acked[p] ELSE Absent]
    /\ UNCHANGED <<kernel, boots, tried>>

\* Another system rewrites an entry: a copy of some other file, or a cut.
DiskIsEdited(p, q) ==
    /\ power = "off" /\ faults < MaxFaults
    /\ disk[p] # Absent /\ disk[q] # Absent
    /\ disk' = [disk EXCEPT ![p] = IF q = p THEN Hollow ELSE disk[q]]
    /\ work' = disk' /\ stable' = disk' /\ faults' = faults + 1
    /\ acked' = [acked EXCEPT ![p] = Absent]
    /\ UNCHANGED <<power, kernel, boots, session, tried>>

----------------------------------------------------------------------------
(* Entries: write_entry, read_entry, bin_remove.                           *)

\* Variant: the tag is not bound to the entry's name.
Decodes_AnyPath(p) == work[p].is = "entry"

\* decode_entry: header, length and the tag for this very path.
Decodes(p) == work[p].is = "entry" /\ work[p].tag = p

\* read_entry: no payload unless the entry verifies.
Readable(p) == power = "up" /\ Decodes(p)

\* Variant: a store is acknowledged without its commit.
Stored_Uncommitted(p, payload) ==
    /\ work' = [work EXCEPT ![p] = Tagged(p, payload)] /\ UNCHANGED disk

\* write_entry: mkdir, remove the old file, create, write, commit; all of it has
\* reached the host when the commit returns.
Stored(p, payload) ==
    /\ work' = [work EXCEPT ![p] = Tagged(p, payload)] /\ disk' = work'

\* write_entry gives up at the step that fails and undoes nothing.  A commit that
\* reports an error may or may not have reached the disk.
StoreFails(p, payload) ==
    /\ faults < MaxFaults /\ faults' = faults + 1
    /\ work' \in {work} \cup {[work EXCEPT ![p] = c] : c \in {Absent, Hollow, Tagged(p, payload)}}
    /\ disk' \in {disk} \cup (IF work'[p] = Tagged(p, payload) THEN {work'} ELSE {})

\* A store by the compile or the shell: what it leaves, and what it reported. It
\* waits for nothing to be written back.
Store(p, payload) ==
    /\ tried' = [tried EXCEPT ![p] = @ \cup {payload}]
    /\ \/ Stored(p, payload) /\ UNCHANGED faults
          /\ acked' = [acked EXCEPT ![p] = Tagged(p, payload)]
       \/ StoreFails(p, payload) /\ acked' = [acked EXCEPT ![p] = Absent]
    /\ UNCHANGED stable

----------------------------------------------------------------------------
(* The shell's file system.                                                *)

\* resolve: baked names shadow disk names.
Resolve(n) == IF n \in BakedNames THEN "baked"
              ELSE IF power = "up" /\ work[Bin(n)] # Absent THEN "disk" ELSE "none"

\* open and open_exec for reading: the bytes are verified and copied out; an entry
\* that does not verify is an io error.
OpenForReading(n) ==
    /\ power # "off" /\ Len(files) < MaxHandles
    /\ \/ Resolve(n) = "baked"
          /\ files' = Append(files, [kind |-> "baked", name |-> n, bytes |-> <<>>])
       \/ Resolve(n) = "disk" /\ Readable(Bin(n))
          /\ files' = Append(files, [kind |-> "read", name |-> n, bytes |-> work[Bin(n)].payload])
    /\ UNCHANGED <<power, kernel, boots, disk, work, stable, images, compiling, faults, tried, acked>>

\* open for writing: the store disk, and never a baked name; nothing is written yet.
OpenForWriting(n) ==
    /\ power = "up" /\ n \notin BakedNames /\ Len(files) < MaxHandles
    /\ files' = Append(files, [kind |-> "pending", name |-> n, bytes |-> <<>>])
    /\ UNCHANGED <<power, kernel, boots, disk, work, stable, images, compiling, faults, tried, acked>>

\* write_pending: no sparse write; overlay, then store all that has accumulated.
Overlay(bytes, offset, c) == [i \in 1 .. (IF offset > Len(bytes) THEN offset ELSE Len(bytes)) |->
                                IF i = offset THEN c ELSE bytes[i]]
WritePending(h, offset, c) ==
    /\ power = "up" /\ h \in DOMAIN files /\ files[h].kind = "pending"
    /\ offset <= Len(files[h].bytes) + 1 /\ offset <= MaxChunks
    /\ files' = [files EXCEPT ![h].bytes = Overlay(@, offset, c)]
    /\ Store(Bin(files[h].name), files'[h].bytes)
    /\ UNCHANGED <<power, kernel, boots, images, compiling>>

Close(h) ==
    /\ h \in DOMAIN files /\ files' = RemoveAt(files, h)
    /\ UNCHANGED <<power, kernel, boots, disk, work, stable, images, compiling, faults, tried, acked>>

\* remove_path of a disk program: remove, then commit; the commit may fail.
RemoveProgram(n) ==
    /\ power = "up" /\ Resolve(n) = "disk"
    /\ \/ work' = [work EXCEPT ![Bin(n)] = Absent] /\ disk' = work' /\ UNCHANGED faults
       \/ /\ faults < MaxFaults /\ faults' = faults + 1
          /\ work' = [work EXCEPT ![Bin(n)] = Absent] /\ disk' \in {disk, work'}
    /\ acked' = [acked EXCEPT ![Bin(n)] = Absent]
    /\ UNCHANGED <<power, kernel, boots, stable, session, tried>>

----------------------------------------------------------------------------
(* The compile host function.                                              *)

InSession(c) == {i \in DOMAIN images : images[i].comp = c}
\* The session's cache without the one image of c.
Without(c) == IF InSession(c) = {} THEN images ELSE RemoveAt(images, CHOOSE i \in InSession(c) : TRUE)

\* cached_compile: a hit moves to the back.
SessionHit(c) ==
    /\ power # "off" /\ InSession(c) # {}
    /\ images' = Append(Without(c), images[CHOOSE i \in InSession(c) : TRUE])
    /\ UNCHANGED <<power, kernel, boots, disk, work, stable, files, compiling, faults, tried, acked>>

\* Variant: nothing is evicted.
Remember_Unbounded(c, artifact) ==
    images' = Append(Without(c), [comp |-> c, art |-> artifact])

\* cache_compile: replace, append, evict the least recently used.
Remember(c, artifact) ==
    LET kept == Append(Without(c), [comp |-> c, art |-> artifact])
    IN images' = SubSeq(kept, IF Len(kept) > CacheEntries THEN 2 ELSE 1, Len(kept))

\* A verified artifact that deserializes.
DiskHit(c) ==
    /\ power # "off" /\ InSession(c) = {} /\ c \notin compiling
    /\ Readable(Cache(kernel, c))
    /\ Remember(c, work[Cache(kernel, c)].payload)
    /\ UNCHANGED <<power, kernel, boots, disk, work, stable, files, compiling, faults, tried, acked>>

\* A miss: codegen begins; other tasks run between its slices.
CompileStarts(c) ==
    /\ power # "off" /\ InSession(c) = {} /\ c \notin compiling
    /\ ~Readable(Cache(kernel, c))
    /\ compiling' = compiling \cup {c}
    /\ UNCHANGED <<power, kernel, boots, disk, work, stable, files, images, faults, tried, acked>>

\* Codegen is done: the artifact goes to the disk, whatever comes of it, and into
\* the session's cache.
CompileEnds(c) ==
    /\ c \in compiling /\ compiling' = compiling \ {c}
    /\ Remember(c, Artifact(kernel, c))
    /\ IF power = "up" THEN Store(Cache(kernel, c), Artifact(kernel, c))
       ELSE UNCHANGED <<disk, work, stable, faults, tried, acked>>
    /\ UNCHANGED <<power, kernel, boots, files>>

DiskNext ==
    \/ PowerOn \/ PowerGoes \/ HostWritesBack \/ HostLosesPower
    \/ \E p, q \in Paths : DiskIsEdited(p, q)
    \/ \E n \in BinNames : OpenForReading(n) \/ OpenForWriting(n) \/ RemoveProgram(n)
    \/ \E h \in DOMAIN files : \/ Close(h)
                               \/ \E o \in 1 .. MaxChunks, c \in Chunks : WritePending(h, o, c)
    \/ \E c \in Compositions : SessionHit(c) \/ DiskHit(c) \/ CompileStarts(c) \/ CompileEnds(c)

DiskSpec == DiskInit /\ [][DiskNext]_diskVars

----------------------------------------------------------------------------
DiskTypeOK ==
    /\ power \in {"off", "up", "nodisk"} /\ kernel \in Builds /\ Len(images) <= CacheEntries
    /\ (power # "up" => work = disk) /\ compiling \subseteq Compositions
    /\ \A p \in Paths : disk[p].is \in {"absent", "hollow", "entry"}
    /\ \A i, j \in DOMAIN images : i # j => images[i].comp # images[j].comp

\* What is handed out for a name or a composition was stored for it, whatever
\* failed, was cut or was copied over: a program is one that was being saved under
\* that name, an image the output of this kernel's compiler for that composition,
\* and a baked name the baked program.
ServesWhatWasStored ==
    /\ \A h \in DOMAIN files :
          /\ files[h].kind = "read" => files[h].bytes \in tried[Bin(files[h].name)]
          /\ files[h].kind # "baked" => files[h].name \notin BakedNames
    /\ \A i \in DOMAIN images : images[i].art = Artifact(kernel, images[i].comp)

\* A store that was acknowledged outlives the machine: it is on the disk across
\* resets and crashes and across other stores that fail half way, until that very
\* entry is stored or removed again, something else edits it, or the host loses
\* power with commits it has not written back, which may take it.
AckedSurvivesReset == \A p \in Paths : acked[p] # Absent => disk[p] = acked[p]
=============================================================================
