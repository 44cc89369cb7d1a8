-------------------------------- MODULE Eofs --------------------------------
(***************************************************************************)
(* The eofs engine (crates/eo9-eofs): copy-on-write trees, two alternating *)
(* uberblock slots, an allocator whose free list lives in memory, over a   *)
(* device that promises ordering only across flush (device.rs).            *)
(*                                                                         *)
(* Data abstraction: a byte object is one block; a block pointer is its    *)
(* address and its hash, and the hash is modelled by the content it        *)
(* covers, so a pointer is intact iff the block still holds that content.  *)
(* A filesystem is one root directory of files plus the snapshot table.    *)
(* One call of the engine is one step except commit, whose device calls    *)
(* are separate steps: everything an unfinished call has written is        *)
(* unreachable, so a crash inside it is a crash after it that loses some   *)
(* of its writes.                                                          *)
(***************************************************************************)
EXTENDS Integers, Sequences, FiniteSetsExt

CONSTANTS Names, Values, SnapNames,
          Absent,      \* directory or snapshot table without that name
          Empty,       \* ObjRef::EMPTY
          Zero, Torn,  \* a cleared slot; bytes no checksum accepts
          NoFs,        \* no slot is valid
          NBlocks,     \* bound: device capacity in blocks
          MaxTxg,      \* bound on transaction numbers (u64)
          MaxFormats,  \* bound: how often the device is formatted
          WithGc,      \* whether this embedder ever calls gc
          TailFaults   \* whether commit's slot write and last flush may fail
                       \* (or be cancelled) with the filesystem staying mounted

\* The older image needs two blocks.
ASSUME EofsBounds == NBlocks \in Nat \ {0, 1} /\ MaxTxg \in Nat /\ MaxFormats \in Nat
ASSUME EofsSwitches == WithGc \in BOOLEAN /\ TailFaults \in BOOLEAN

Block == 1 .. NBlocks
Slot == {-1, 0}                 \* SLOT_OFFSETS, below DATA_START
Loc == (-1) .. NBlocks
\* Variant: every transaction uses the same slot.
SlotOf_Same(txg) == 0

SlotOf(txg) == -(txg % 2)

VARIABLES disk,      \* what a read returns now
          maybe,     \* loc -> older contents a crash may still leave there
          phase,     \* "down", "formatting" or "up"
          step,      \* commit's position: "idle", "flushed" or "written"
          committed, \* the root of the last commit: [txg, live, snaps]
          live, snaps,      \* the pending roots
          frontier, free,   \* the allocator
          dirty, formats

devVars == <<disk, maybe>>
rootVars == <<committed, live, snaps, dirty>>
allocVars == <<frontier, free>>
vars == <<devVars, rootVars, allocVars, phase, step, formats>>

Ref(b, c) == [addr |-> b, hash |-> c]
FileBlock(v) == [kind |-> "file", body |-> v]
DirBlock(d) == [kind |-> "dir", body |-> d]
SnapBlock(t) == [kind |-> "snap", body |-> t]

\* The pointers there are: to a file's data, to a directory, to a snapshot
\* table; and what an uberblock holds.
FileRefs == [addr : Block, hash : [kind : {"file"}, body : Values]]
DirRefs == [addr : Block, hash : [kind : {"dir"}, body : [Names -> FileRefs \cup {Absent, Empty}]]]
TreeRefs == DirRefs \cup {Empty}
SnapRefs == [addr : Block, hash : [kind : {"snap"}, body : [SnapNames -> TreeRefs \cup {Absent}]]]
TableRefs == SnapRefs \cup {Empty}
Ubs == [txg : 0 .. MaxTxg, frontier : 1 .. (NBlocks + 1), live : TreeRefs, snaps : TableRefs]

\* No mark can be mistaken for what it is a mark among.
ASSUME EofsMarks == /\ Values # {} /\ Absent # Empty
                    /\ {Absent, Empty} \cap (FileRefs \cup DirRefs \cup SnapRefs) = {}
                    /\ {Zero, Torn, NoFs} \cap Ubs = {}

NoEntries == [n \in Names |-> Absent]
Entries(root) == IF root = Empty THEN NoEntries ELSE root.hash.body
NoSnapshots == [s \in SnapNames |-> Absent]
Table(ref) == IF ref = Empty THEN NoSnapshots ELSE ref.hash.body

\* Every pointer reachable from an object, a directory tree, a snapshot table.
ObjPtrs(ref) == {ref} \ {Empty, Absent}
TreePtrs(root) == ObjPtrs(root) \cup UNION {ObjPtrs(Entries(root)[n]) : n \in Names}
TablePtrs(ref) == ObjPtrs(ref) \cup
    UNION {TreePtrs(Table(ref)[s]) : s \in {x \in SnapNames : Table(ref)[x] # Absent}}
Intact(ptrs) == \A p \in ptrs : disk[p.addr] = p.hash

\* Mount-time election: the valid slot with the highest transaction number.
Valid(d, s) == d[s] \notin {Zero, Torn}
Elected(d) ==
    IF \E s \in Slot : Valid(d, s)
    THEN d[CHOOSE s \in Slot : /\ Valid(d, s)
                               /\ \A o \in Slot : Valid(d, o) => d[o].txg <= d[s].txg]
    ELSE NoFs

UbPtrs(ub) == TreePtrs(ub.live) \cup TablePtrs(ub.snaps)
Reachable(d) == {p.addr : p \in UNION {UbPtrs(d[s]) : s \in {x \in Slot : Valid(d, x)}}}

----------------------------------------------------------------------------
(* The device.                                                             *)

\* The uberblocks a crash may leave, and what matters of the bytes at l: a
\* slot, or a block that one of those uberblocks points to.
Uberblocks == UNION {{disk[s]} \cup maybe[s] : s \in Slot} \ {Zero, Torn}
Matters(l) == IF l \in Slot \/ Ref(l, disk[l]) \in UNION {UbPtrs(ub) : ub \in Uberblocks}
              THEN disk[l] ELSE Torn

\* Writes w : loc -> content complete; until a flush, a crash may lose them.
WriteAll(w) ==
    /\ disk' = [l \in Loc |-> IF l \in DOMAIN w THEN w[l] ELSE disk[l]]
    /\ maybe' = [l \in Loc |-> IF l \in DOMAIN w THEN maybe[l] \cup {Matters(l)} ELSE maybe[l]]
Flush == maybe' = [l \in Loc |-> {}]

----------------------------------------------------------------------------
(* The allocator: first fit from the free list, otherwise the frontier.    *)

\* Variant: the block's address, not its end, is compared with the device size.
HasRoom_OffByOne(fr, fl) == fl # {} \/ fr <= NBlocks + 1

HasRoom(fr, fl) == fl # {} \/ fr <= NBlocks
Address(fr, fl) == IF fl # {} THEN Min(fl) ELSE fr
\* Variant: a reused extent stays on the free list.
Taken_KeepsExtent(fr, fl) == IF fl # {} THEN <<fr, fl>> ELSE <<fr + 1, fl>>

Taken(fr, fl) == IF fl # {} THEN <<fr, fl \ {Min(fl)}>> ELSE <<fr + 1, fl>>

\* Where a call that writes k blocks one after another puts them, and the
\* allocator it leaves; the call meets NoSpace when the first room[k] fails.
Alloc1 == Taken(frontier, free)
Alloc2 == Taken(Alloc1[1], Alloc1[2])
Addr1 == Address(frontier, free)
Addr2 == Address(Alloc1[1], Alloc1[2])
Room1 == HasRoom(frontier, free)
Room2 == Room1 /\ HasRoom(Alloc1[1], Alloc1[2])

----------------------------------------------------------------------------
StaleUb(txg) ==
    [txg |-> txg, frontier |-> 3, snaps |-> Empty,
     live |-> Ref(1, DirBlock([n \in Names |->
                                 Ref(2, FileBlock(CHOOSE v \in Values : TRUE))]))]
\* The device comes blank or with an older eofs image on it.
Init ==
    /\ \E old \in {Zero, StaleUb(MaxTxg)} :
         disk = [l \in Loc |-> IF l \in Slot
                               THEN IF l = SlotOf(MaxTxg) THEN old ELSE Zero
                               ELSE IF old = Zero THEN Torn
                               ELSE IF l = 1 THEN old.live.hash
                               ELSE FileBlock(CHOOSE v \in Values : TRUE)]
    /\ maybe = [l \in Loc |-> {}]
    /\ phase = "down" /\ step = "idle"
    /\ committed = [txg |-> 0, live |-> Empty, snaps |-> Empty]
    /\ live = Empty /\ snaps = Empty
    /\ frontier = 1 /\ free = {}
    /\ dirty = FALSE /\ formats = 0

\* format: clear both slots, then commit transaction 1.
Format ==
    /\ phase = "down" /\ formats < MaxFormats
    /\ WriteAll([s \in Slot |-> Zero])
    /\ phase' = "formatting" /\ formats' = formats + 1
    /\ committed' = [txg |-> 0, live |-> Empty, snaps |-> Empty]
    /\ live' = Empty /\ snaps' = Empty
    /\ frontier' = 1 /\ free' = {}
    /\ dirty' = TRUE
    /\ UNCHANGED step

\* mount_with_report.
Mount ==
    /\ phase = "down"
    /\ LET ub == Elected(disk) IN
         /\ ub # NoFs
         /\ committed' = [txg |-> ub.txg, live |-> ub.live, snaps |-> ub.snaps]
         /\ live' = ub.live /\ snaps' = ub.snaps
         /\ frontier' = ub.frontier
    /\ phase' = "up" /\ free' = {} /\ dirty' = FALSE
    /\ UNCHANGED <<devVars, step, formats>>

\* Power loss or unmount at any moment: each unflushed write is there, is
\* missing, or is torn.  Memory is gone, so bytes that no uberblock on the
\* device refers to are as good as torn.
After(l) == {disk[l]} \cup (IF maybe[l] = {} THEN {} ELSE maybe[l] \cup {Torn})
Left(locs) == {d \in [locs -> UNION {After(l) : l \in locs}] : \A l \in locs : d[l] \in After(l)}
Crash ==
    /\ phase # "down"
    /\ \E ubs \in Left(Slot) : \E blocks \in Left(Reachable(ubs)) :
         disk' = [l \in Loc |-> IF l \in Slot THEN ubs[l]
                                ELSE IF l \in DOMAIN blocks THEN blocks[l] ELSE Torn]
    /\ Flush
    /\ phase' = "down" /\ step' = "idle"
    /\ committed' = [txg |-> 0, live |-> Empty, snaps |-> Empty]
    /\ live' = Empty /\ snaps' = Empty
    /\ frontier' = 1 /\ free' = {} /\ dirty' = FALSE
    /\ UNCHANGED formats

----------------------------------------------------------------------------
(* Namespace operations.  Each reads the pending tree through its          *)
(* checksums, writes new blocks, and only then moves live_root.            *)

Ready == phase = "up" /\ step = "idle"
Allocator(al) == frontier' = al[1] /\ free' = al[2]
Unfinished == UNCHANGED <<committed, live, snaps, dirty, phase, step, formats>>

\* apply_in_dir rewrote the root directory as d; an empty one has no block.
NewDir(d) ==
    /\ IF d = NoEntries
       THEN live' = Empty /\ UNCHANGED <<devVars, allocVars>>
       ELSE /\ Room1
            /\ WriteAll([b \in {Addr1} |-> DirBlock(d)])
            /\ Allocator(Alloc1)
            /\ live' = Ref(Addr1, DirBlock(d))
    /\ dirty' = TRUE
    /\ UNCHANGED <<committed, snaps, phase, step, formats>>

\* create_file: the new entry refers to the empty object.
CreateFile(n) ==
    /\ Ready /\ Intact(ObjPtrs(live))
    /\ Entries(live)[n] = Absent
    /\ NewDir([Entries(live) EXCEPT ![n] = Empty])

\* remove.
Remove(n) ==
    /\ Ready /\ Intact(ObjPtrs(live))
    /\ Entries(live)[n] # Absent
    /\ NewDir([Entries(live) EXCEPT ![n] = Absent])

\* write: the data block first, then the directory that points to it.
Write(n, v) ==
    /\ Ready /\ Intact(ObjPtrs(live))
    /\ Entries(live)[n] # Absent
    /\ Intact(ObjPtrs(Entries(live)[n]))
    /\ Room2
    /\ LET dir == DirBlock([Entries(live) EXCEPT ![n] = Ref(Addr1, FileBlock(v))]) IN
         /\ WriteAll([b \in {Addr1, Addr2} |-> IF b = Addr1 THEN FileBlock(v) ELSE dir])
         /\ live' = Ref(Addr2, dir)
    /\ Allocator(Alloc2)
    /\ dirty' = TRUE
    /\ UNCHANGED <<committed, snaps, phase, step, formats>>

\* Variant: the last committed tree is retained instead of the pending one.
SnapshotCreate_Committed(s) ==
    /\ Ready /\ Intact(ObjPtrs(snaps))
    /\ Table(snaps)[s] = Absent
    /\ Room1
    /\ LET table == SnapBlock([Table(snaps) EXCEPT ![s] = committed.live]) IN
         /\ WriteAll([b \in {Addr1} |-> table])
         /\ snaps' = Ref(Addr1, table)
    /\ Allocator(Alloc1)
    /\ dirty' = TRUE
    /\ UNCHANGED <<committed, live, phase, step, formats>>

\* snapshot_create retains the pending tree under an unused name.
SnapshotCreate(s) ==
    /\ Ready /\ Intact(ObjPtrs(snaps))
    /\ Table(snaps)[s] = Absent
    /\ Room1
    /\ LET table == SnapBlock([Table(snaps) EXCEPT ![s] = live]) IN
         /\ WriteAll([b \in {Addr1} |-> table])
         /\ snaps' = Ref(Addr1, table)
    /\ Allocator(Alloc1)
    /\ dirty' = TRUE
    /\ UNCHANGED <<committed, live, phase, step, formats>>

\* Any of these fails (no space, an i/o error) or is cancelled part-way: the
\* blocks it took stay taken, the last write may be torn, no root moves.
OpFails ==
    /\ Ready
    /\ \/ Room1 /\ WriteAll([b \in {Addr1} |-> Torn]) /\ Allocator(Alloc1)
       \/ Room2 /\ WriteAll([b \in {Addr1, Addr2} |-> Torn]) /\ Allocator(Alloc2)
    /\ Unfinished

----------------------------------------------------------------------------
(* Transactions.                                                           *)

\* Variant: commit flushes only once, after the root flip.
CommitFlush_NoFlush ==
    /\ phase # "down" /\ step = "idle"
    /\ dirty /\ committed.txg < MaxTxg
    /\ step' = "flushed"
    /\ UNCHANGED <<devVars, rootVars, allocVars, phase, formats>>

\* commit, first flush: everything the new root references is durable.
CommitFlush ==
    /\ phase # "down" /\ step = "idle"
    /\ dirty /\ committed.txg < MaxTxg
    /\ Flush
    /\ step' = "flushed"
    /\ UNCHANGED <<disk, rootVars, allocVars, phase, formats>>

NextUb == [txg |-> committed.txg + 1, frontier |-> frontier, live |-> live, snaps |-> snaps]

\* commit, the root flip: the slot the previous commit did not use.
CommitWriteSlot ==
    /\ step = "flushed"
    /\ WriteAll([s \in {SlotOf(committed.txg + 1)} |-> NextUb])
    /\ step' = "written"
    /\ UNCHANGED <<rootVars, allocVars, phase, formats>>

\* commit, second flush.
CommitEnd ==
    /\ step = "written"
    /\ Flush
    /\ committed' = [txg |-> committed.txg + 1, live |-> live, snaps |-> snaps]
    /\ dirty' = FALSE
    /\ step' = "idle" /\ phase' = "up"
    /\ UNCHANGED <<disk, live, snaps, allocVars, formats>>

\* commit returns an error, or its future is dropped, before the slot write.
CommitFailsEarly ==
    /\ step = "flushed" /\ phase = "up"
    /\ step' = "idle"
    /\ UNCHANGED <<devVars, rootVars, allocVars, phase, formats>>

\* commit fails or is dropped in the slot write or in the last flush.
CommitFailsLate ==
    /\ TailFaults /\ phase = "up"
    /\ \/ /\ step = "flushed"
          /\ \E c \in {NextUb, Torn} : WriteAll([s \in {SlotOf(committed.txg + 1)} |-> c])
       \/ /\ step = "written" /\ UNCHANGED devVars
    /\ step' = "idle"
    /\ UNCHANGED <<rootVars, allocVars, phase, formats>>

\* Variant: rollback gives the discarded blocks back to the frontier.
Rollback_RewindsFrontier ==
    /\ Ready
    /\ live' = committed.live /\ snaps' = committed.snaps
    /\ frontier' = 1 + Max({0} \cup {p.addr : p \in TreePtrs(committed.live)
                                                    \cup TablePtrs(committed.snaps)})
    /\ dirty' = FALSE
    /\ UNCHANGED <<devVars, free, committed, phase, step, formats>>

\* rollback: the allocator keeps its frontier and free list.
Rollback ==
    /\ Ready
    /\ live' = committed.live /\ snaps' = committed.snaps
    /\ dirty' = FALSE
    /\ UNCHANGED <<devVars, allocVars, committed, phase, step, formats>>

\* gc: the gaps below the frontier that no retained root reaches.
Retained == TreePtrs(committed.live) \cup TreePtrs(live)
            \cup TablePtrs(committed.snaps) \cup TablePtrs(snaps)
\* The walk reads directories and tables through their checksums, not file data.
Walked == {p \in Retained : p.hash.kind # "file"}

\* Variants: gc forgets the committed roots, the pending roots, or that a
\* snapshot table refers to trees.
GcKeeping(ptrs) ==
    /\ WithGc /\ Ready
    /\ Intact({p \in ptrs : p.hash.kind # "file"})
    /\ free' = (1 .. (frontier - 1)) \ {p.addr : p \in ptrs}
    /\ UNCHANGED <<devVars, rootVars, frontier, phase, step, formats>>
Gc_ForgetsCommitted == GcKeeping(TreePtrs(live) \cup TablePtrs(snaps))
Gc_ForgetsPending == GcKeeping(TreePtrs(committed.live) \cup TablePtrs(committed.snaps))
Gc_ForgetsSnapshots == GcKeeping(TreePtrs(committed.live) \cup TreePtrs(live)
                                 \cup ObjPtrs(committed.snaps) \cup ObjPtrs(snaps))

Gc ==
    /\ WithGc /\ Ready
    /\ Intact(Walked)
    /\ free' = (1 .. (frontier - 1)) \ {p.addr : p \in Retained}
    /\ UNCHANGED <<devVars, rootVars, frontier, phase, step, formats>>

Next ==
    \/ Format \/ Mount \/ Crash
    \/ \E n \in Names : CreateFile(n) \/ Remove(n) \/ (\E v \in Values : Write(n, v))
    \/ \E s \in SnapNames : SnapshotCreate(s)
    \/ OpFails
    \/ CommitFlush \/ CommitWriteSlot \/ CommitEnd
    \/ CommitFailsEarly \/ CommitFailsLate
    \/ Rollback \/ Gc

Spec == Init /\ [][Next]_vars

----------------------------------------------------------------------------
(* Properties.                                                             *)

\* The type invariant: every address the allocator knows is on the device.
TypeOK ==
    /\ phase \in {"down", "formatting", "up"}
    /\ step \in {"idle", "flushed", "written"}
    /\ DOMAIN disk = Loc /\ DOMAIN maybe = Loc
    /\ frontier \in 1 .. (NBlocks + 1) /\ free \subseteq Block
    /\ committed.txg \in 0 .. MaxTxg /\ dirty \in BOOLEAN

\* "Never overwrite in place" (FORMAT.md, space.rs): whatever was flushed,
\* written, lost or torn, everything reachable from the committed and the
\* pending roots still matches its checksums, and the allocator will not hand
\* any of it out.
RootsIntact ==
    phase = "up" => /\ Intact(Retained)
                    /\ \A p \in Retained : p.addr \notin free /\ p.addr < frontier

\* The filesystem, as its users see it.
FilesOf(root) == [n \in Names |->
    IF Entries(root)[n] \in {Absent, Empty} THEN Entries(root)[n]
    ELSE Entries(root)[n].hash.body]
SnapsOf(ref) == [s \in SnapNames |->
    IF Table(ref)[s] = Absent THEN Absent ELSE FilesOf(Table(ref)[s])]
View(l, t) == [files |-> FilesOf(l), snaps |-> SnapsOf(t)]
Contents == [Names -> Values \cup {Absent, Empty}]
Views == [files : Contents, snaps : [SnapNames -> Contents \cup {Absent}]]
ASSUME EofsNoFs == NoFs \notin Views
OnDisk == IF Elected(disk) = NoFs THEN NoFs ELSE View(Elected(disk).live, Elected(disk).snaps)

\* What a mount would adopt, what the mounted filesystem shows, and what is
\* in the other slot for a commit that has not returned, or that failed late.
CommittedView == IF phase = "down" THEN OnDisk
                 ELSE IF phase = "formatting" THEN NoFs
                 ELSE View(committed.live, committed.snaps)
PendingView == IF phase = "down" THEN OnDisk ELSE View(live, snaps)
Doubtful == LET s == SlotOf(committed.txg + 1) IN
            {u \in ({disk[s]} \cup maybe[s]) \ {Zero, Torn} : u.txg = committed.txg + 1}
DoubtView == IF phase = "up" THEN {View(u.live, u.snaps) : u \in Doubtful}
             ELSE IF step = "written" THEN {View(live, snaps)} ELSE {}

Fs == INSTANCE TxnFs
    WITH Values <- Values \cup {Empty}, publishing <- step = "written",
         committed <- CommittedView, pending <- PendingView, doubt <- DoubtView

\* What the device held before the first format.
OldImage == View(StaleUb(MaxTxg).live, Empty)

\* A step of the atomic filesystem.
TxnStep == \E old \in {NoFs, OldImage} : Fs!Next(old)

\* Commits are atomic and durable: a crash keeps exactly the acknowledged
\* transactions, a commit that was half done or that failed late is all or
\* nothing, rollback and remount agree, snapshots keep their contents.
ImplementsTxnFs == Fs!Init /\ [][TxnStep]_(Fs!vars)

\* "Committed transactions are therefore always intact" (FORMAT.md): the tree
\* that mount_with_report would adopt after any crash matches its checksums.
MountsIntact ==
    (phase = "down" /\ Elected(disk) # NoFs) => Intact(UbPtrs(Elected(disk)))

\* Neither the running filesystem nor a mount ever meets a damaged tree.
TreesIntact == RootsIntact /\ MountsIntact

\* A crash of a mounted filesystem never loses an acknowledged commit: what
\* is elected afterwards is its root or that of a later, unacknowledged one.
AcknowledgedSurvives ==
    [][(phase = "up" /\ phase' = "down") =>
         /\ Elected(disk') # NoFs
         /\ Elected(disk').txg >= committed.txg
         /\ Elected(disk').txg = committed.txg =>
              Elected(disk').live = committed.live /\ Elected(disk').snaps = committed.snaps]_vars

=============================================================================
