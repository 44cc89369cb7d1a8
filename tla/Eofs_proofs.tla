---------------------------- MODULE Eofs_proofs -----------------------------
(***************************************************************************)
(* Proofs about Eofs for a device of any size, any names, contents and     *)
(* snapshots, and any number of transactions: what the committed and the   *)
(* pending roots reach is never overwritten, and a mount after any crash   *)
(* finds the last acknowledged commit, or a later one, whole.              *)
(***************************************************************************)
EXTENDS Eofs, WellFoundedInduction, TLAPS

\* What a crash may find valid in a slot.
OnSlot(d, m, s) == ({d[s]} \cup m[s]) \ {Zero, Torn}

\* Pointers whose blocks hold what they promise; which will not be handed
\* out either; and which no crash can change.
Whole(d, ptrs) == \A p \in ptrs : d[p.addr] = p.hash
Kept(fr, fl, ptrs) == \A p \in ptrs : p.addr < fr /\ p.addr \notin fl
Settled(m, ptrs) == \A p \in ptrs : m[p.addr] = {}
Below(fr, ptrs) == \A p \in ptrs : p.addr < fr

\* Uberblocks sit in the slot of their number and were written with a
\* frontier above their trees; the roots in memory are trees.
Shaped ==
    /\ \A s \in Slot : /\ disk[s] \in Ubs \cup {Zero, Torn}
                       /\ maybe[s] \subseteq Ubs \cup {Zero, Torn}
                       /\ \A u \in OnSlot(disk, maybe, s) :
                            s = SlotOf(u.txg) /\ Below(u.frontier, UbPtrs(u))
    /\ committed \in [txg : 0 .. MaxTxg, live : TreeRefs, snaps : TableRefs]
    /\ live \in TreeRefs /\ snaps \in TableRefs
    /\ formats \in Nat /\ \A b \in free : b < frontier

\* Before a mount nothing is in flight and what would be elected is whole;
\* until the first format there is nothing but the older image.
DownInv ==
    phase = "down" =>
        /\ step = "idle" /\ \A l \in Loc : maybe[l] = {}
        /\ MountsIntact
        /\ formats = 0 => \A s \in Slot : \A u \in OnSlot(disk, maybe, s) : u.txg = MaxTxg

\* A format writes slots only, so the older image stays whole until its
\* uberblocks are durably gone.
FormattingInv ==
    phase = "formatting" =>
        /\ formats # 0 /\ free = {}
        /\ committed = [txg |-> 0, live |-> Empty, snaps |-> Empty]
        /\ live = Empty /\ snaps = Empty
        /\ \A b \in Block : maybe[b] = {}
        /\ \A s \in Slot : \A u \in OnSlot(disk, maybe, s) : Whole(disk, UbPtrs(u))
        /\ disk[SlotOf(0)] = Zero
        /\ step # "idle" => maybe[SlotOf(0)] = {} /\ maybe[SlotOf(1)] \subseteq {Zero} /\ 0 < MaxTxg
        /\ step # "written" => disk[SlotOf(1)] = Zero
        /\ step = "flushed" => maybe[SlotOf(1)] = {}
        /\ step = "written" => disk[SlotOf(1)] = NextUb

\* The committed root is durable in its slot and its tree on the disk.
This == SlotOf(committed.txg)
CommittedPtrs == TreePtrs(committed.live) \cup TablePtrs(committed.snaps)
ThisSlot ==
    /\ maybe[This] = {} /\ disk[This] \in Ubs
    /\ disk[This].txg = committed.txg /\ disk[This].frontier <= frontier
    /\ disk[This].live = committed.live /\ disk[This].snaps = committed.snaps

\* The other slot holds an older uberblock, or one of the commit in progress,
\* or of one that failed late, with a tree as safe as the committed one.
Other == SlotOf(committed.txg + 1)
Later(u) == /\ u.txg = committed.txg + 1 /\ u.frontier <= frontier
            /\ TailFaults \/ step = "written"
            /\ Whole(disk, UbPtrs(u)) /\ Kept(frontier, free, UbPtrs(u)) /\ Settled(maybe, UbPtrs(u))
OtherSlot == \A u \in OnSlot(disk, maybe, Other) : u.txg < committed.txg \/ Later(u)

UpInv ==
    phase = "up" =>
        /\ Whole(disk, Retained) /\ Kept(frontier, free, Retained)
        /\ Settled(maybe, CommittedPtrs)
        /\ ThisSlot /\ OtherSlot
        /\ step # "idle" => (\A b \in Block : maybe[b] = {}) /\ committed.txg < MaxTxg
        /\ step = "flushed" => maybe[Other] = {}
        /\ step = "written" => disk[Other] = NextUb
        /\ formats = 0 => committed.txg = MaxTxg /\ OnSlot(disk, maybe, Other) = {}

\* An embedder that collects garbage does not go on after a commit that
\* failed late.
Careful == ~(WithGc /\ TailFaults)

\* A device is formatted again only when no uberblock on it is over a damaged
\* tree, an older transaction's after gc; or only when nothing on it mounts,
\* as the fs.eofs provider does. mkfs --force may do neither.
NoneDamaged == \A s \in Slot : Valid(disk, s) => Intact(UbPtrs(disk[s]))
FormatsNoneDamaged == [][Format => formats = 0 \/ NoneDamaged]_vars
FormatsUnmountable == [][Format => formats = 0 \/ Elected(disk) = NoFs]_vars

EofsInv == /\ TypeOK /\ Shaped /\ DownInv /\ FormattingInv /\ UpInv
           /\ Careful

-----------------------------------------------------------------------------
(* Slots, trees and the allocator.                                         *)

\* The two slots alternate.
LEMMA SlotFacts ==
    ASSUME NEW t \in Nat
    PROVE  /\ SlotOf(t) \in Slot /\ SlotOf(t + 1) \in Slot /\ SlotOf(t) # SlotOf(t + 1)
           /\ SlotOf((t + 1) + 1) = SlotOf(t)
           /\ \A s \in Slot : s = SlotOf(t) \/ s = SlotOf(t + 1)
<1>1. t % 2 \in {0, 1} /\ (t + 1) % 2 = 1 - (t % 2) /\ ((t + 1) + 1) % 2 = t % 2
  OBVIOUS
<1> QED
  BY <1>1 DEF SlotOf, Slot

LEMMA Places == Slot \cap Block = {} /\ Slot \subseteq Loc /\ Block \subseteq Loc
                /\ \A l \in Loc : l \in Slot \/ l \in Block
BY EofsBounds DEF Slot, Block, Loc

LEMMA EntriesType ==
    ASSUME NEW root \in TreeRefs
    PROVE  /\ Entries(root) \in [Names -> FileRefs \cup {Absent, Empty}]
           /\ \A n \in Names : \A p \in ObjPtrs(Entries(root)[n]) : p \in FileRefs /\ p \in TreePtrs(root)
           /\ TreePtrs(root) \subseteq DirRefs \cup FileRefs
<1>1. Entries(root) \in [Names -> FileRefs \cup {Absent, Empty}]
  <2>1. CASE root = Empty
    BY <2>1 DEF Entries, NoEntries
  <2>2. CASE root # Empty
    <3>1. root \in DirRefs
      BY <2>2 DEF TreeRefs
    <3> QED
      BY <2>2, <3>1 DEF Entries, DirRefs
  <2> QED
    BY <2>1, <2>2
<1>2. \A n \in Names : ObjPtrs(Entries(root)[n]) \subseteq FileRefs
  BY <1>1 DEF ObjPtrs
<1>3. ObjPtrs(root) \subseteq DirRefs
  BY DEF ObjPtrs, TreeRefs
<1> QED
  BY <1>1, <1>2, <1>3 DEF TreePtrs

LEMMA TableType ==
    ASSUME NEW ref \in TableRefs
    PROVE  /\ Table(ref) \in [SnapNames -> TreeRefs \cup {Absent}]
           /\ \A s \in SnapNames : Table(ref)[s] # Absent => TreePtrs(Table(ref)[s]) \subseteq TablePtrs(ref)
           /\ TablePtrs(ref) \subseteq SnapRefs \cup DirRefs \cup FileRefs
<1>1. Table(ref) \in [SnapNames -> TreeRefs \cup {Absent}]
  <2>1. CASE ref = Empty
    BY <2>1 DEF Table, NoSnapshots
  <2>2. CASE ref # Empty
    <3>1. ref \in SnapRefs
      BY <2>2 DEF TableRefs
    <3> QED
      BY <2>2, <3>1 DEF Table, SnapRefs
  <2> QED
    BY <2>1, <2>2
<1>2. \A s \in SnapNames : Table(ref)[s] # Absent => TreePtrs(Table(ref)[s]) \subseteq DirRefs \cup FileRefs
  BY <1>1, EntriesType
<1>3. ObjPtrs(ref) \subseteq SnapRefs
  BY DEF ObjPtrs, TableRefs
<1> QED
  BY <1>1, <1>2, <1>3 DEF TablePtrs

\* A new directory reaches itself and its entries.
LEMMA NewTree ==
    ASSUME NEW b \in Block, NEW d \in [Names -> FileRefs \cup {Absent, Empty}]
    PROVE  /\ Ref(b, DirBlock(d)) \in DirRefs /\ Ref(b, DirBlock(d)) # Empty
           /\ Ref(b, DirBlock(d)).addr = b /\ Ref(b, DirBlock(d)).hash = DirBlock(d)
           /\ Entries(Ref(b, DirBlock(d))) = d
           /\ \A p \in TreePtrs(Ref(b, DirBlock(d))) :
                p = Ref(b, DirBlock(d)) \/ \E n \in Names : p \in ObjPtrs(d[n])
<1>1. Ref(b, DirBlock(d)) \in DirRefs
  BY DEF Ref, DirBlock, DirRefs
<1>2. Ref(b, DirBlock(d)).addr = b /\ Ref(b, DirBlock(d)).hash = DirBlock(d) /\ DirBlock(d).body = d
  BY DEF Ref, DirBlock
<1>3. Ref(b, DirBlock(d)) # Empty
  BY <1>1, EofsMarks
<1>4. Entries(Ref(b, DirBlock(d))) = d
  BY <1>2, <1>3 DEF Entries
<1> QED
  BY <1>1, <1>2, <1>3, <1>4 DEF TreePtrs, ObjPtrs

LEMMA NewTable ==
    ASSUME NEW b \in Block, NEW t \in [SnapNames -> TreeRefs \cup {Absent}]
    PROVE  /\ Ref(b, SnapBlock(t)) \in SnapRefs /\ Ref(b, SnapBlock(t)) # Empty
           /\ Ref(b, SnapBlock(t)).addr = b /\ Ref(b, SnapBlock(t)).hash = SnapBlock(t)
           /\ Table(Ref(b, SnapBlock(t))) = t
           /\ \A p \in TablePtrs(Ref(b, SnapBlock(t))) :
                \/ p = Ref(b, SnapBlock(t))
                \/ \E s \in SnapNames : t[s] # Absent /\ p \in TreePtrs(t[s])
<1>1. Ref(b, SnapBlock(t)) \in SnapRefs
  BY DEF Ref, SnapBlock, SnapRefs
<1>2. Ref(b, SnapBlock(t)).addr = b /\ Ref(b, SnapBlock(t)).hash = SnapBlock(t) /\ SnapBlock(t).body = t
  BY DEF Ref, SnapBlock
<1>3. Ref(b, SnapBlock(t)) # Empty
  BY <1>1, EofsMarks
<1>4. Table(Ref(b, SnapBlock(t))) = t
  BY <1>2, <1>3 DEF Table
<1> QED
  BY <1>1, <1>2, <1>3, <1>4 DEF TablePtrs, ObjPtrs

\* An empty root reaches nothing.
LEMMA EmptyPtrs == TreePtrs(Empty) = {} /\ TablePtrs(Empty) = {}
BY DEF TreePtrs, TablePtrs, ObjPtrs, Entries, NoEntries, Table, NoSnapshots

\* A pointer's block is a block.
LEMMA AddrInBlock ==
    \A p \in SnapRefs \cup DirRefs \cup FileRefs : p.addr \in Block
BY DEF SnapRefs, DirRefs, FileRefs

LEMMA RootPtrs ==
    ASSUME NEW l \in TreeRefs, NEW t \in TableRefs
    PROVE  \A p \in TreePtrs(l) \cup TablePtrs(t) : p.addr \in Block
BY EntriesType, TableType, AddrInBlock

LEMMA LeastBlock ==
    ASSUME NEW S \in SUBSET Nat, S # {}
    PROVE  Min(S) \in S
<1>1. PICK x \in S : \A y \in S : ~(<<y, x>> \in OpToRel(<, Nat))
  BY NatLessThanWellFounded, WFMin
<1>2. \A y \in S : ~(y < x)
  BY <1>1 DEF OpToRel
<1>3. \A y \in S : x <= y
  BY <1>2
<1> QED
  BY <1>3 DEF Min

\* What allocate hands out was free or beyond the frontier, and is neither
\* afterwards.
LEMMA AllocFacts ==
    ASSUME NEW fr \in 1 .. (NBlocks + 1), NEW fl \in SUBSET Block, \A b \in fl : b < fr, HasRoom(fr, fl)
    PROVE  /\ Address(fr, fl) \in Block /\ (Address(fr, fl) \in fl \/ Address(fr, fl) = fr)
           /\ Taken(fr, fl)[1] \in 1 .. (NBlocks + 1) /\ fr <= Taken(fr, fl)[1]
           /\ Taken(fr, fl)[2] \in SUBSET Block /\ Taken(fr, fl)[2] \subseteq fl
           /\ \A b \in Taken(fr, fl)[2] : b < Taken(fr, fl)[1]
           /\ Address(fr, fl) < Taken(fr, fl)[1] /\ Address(fr, fl) \notin Taken(fr, fl)[2]
<1>1. CASE fl = {}
  BY <1>1, EofsBounds DEF HasRoom, Address, Taken, Block
<1>2. CASE fl # {}
  <2>1. fl \in SUBSET Nat
    BY EofsBounds DEF Block
  <2>2. Min(fl) \in fl
    BY <1>2, <2>1, LeastBlock
  <2>3. Address(fr, fl) = Min(fl) /\ Taken(fr, fl)[1] = fr /\ Taken(fr, fl)[2] = fl \ {Min(fl)}
    BY <1>2 DEF Address, Taken
  <2> QED
    BY <2>2, <2>3
<1> QED
  BY <1>1, <1>2

\* Calls on a mounted filesystem that write free blocks only and then move
\* the pending roots to trees that are whole.
LEMMA OpStep ==
    ASSUME EofsInv, Ready, UNCHANGED <<committed, phase, step, formats>>,
           NEW W \in SUBSET Block, \A b \in W : b \in free \/ b >= frontier,
           DOMAIN disk' = Loc, DOMAIN maybe' = Loc,
           \A l \in Loc \ W : disk'[l] = disk[l] /\ maybe'[l] = maybe[l],
           frontier' \in 1 .. (NBlocks + 1), frontier <= frontier',
           free' \in SUBSET free, \A b \in free' : b < frontier',
           dirty' \in BOOLEAN, live' \in TreeRefs, snaps' \in TableRefs,
           Whole(disk', TreePtrs(live') \cup TablePtrs(snaps')),
           Kept(frontier', free', TreePtrs(live') \cup TablePtrs(snaps'))
    PROVE  EofsInv'
<1> USE EofsBounds
<1>1. /\ TypeOK /\ Shaped /\ UpInv /\ Careful /\ phase = "up" /\ step = "idle"
  BY DEF EofsInv, Ready
<1>2. /\ frontier \in Nat /\ frontier' \in Nat /\ committed.txg \in Nat
      /\ committed.live \in TreeRefs /\ committed.snaps \in TableRefs
  BY <1>1 DEF TypeOK, Shaped
<1>3. TypeOK'
  BY <1>1 DEF TypeOK
<1>4. \A s \in Slot : disk'[s] = disk[s] /\ maybe'[s] = maybe[s]
  BY Places
<1>5. Shaped'
  <2>1. \A s \in Slot : OnSlot(disk', maybe', s) = OnSlot(disk, maybe, s)
    BY <1>4 DEF OnSlot
  <2> QED
    BY <1>1, <1>4, <2>1 DEF Shaped
<1>6. ASSUME NEW P, \A p \in P : p.addr \in Block, Whole(disk, P), Kept(frontier, free, P)
      PROVE  /\ Whole(disk', P) /\ Kept(frontier', free', P)
             /\ Settled(maybe, P) => Settled(maybe', P)
  <2>1. \A p \in P : p.addr \in Int /\ p.addr \in Loc \ W
    <3>1. \A b \in Block : b \in Int /\ b \in Loc
      BY Places DEF Block
    <3>2. \A b \in Block : b < frontier /\ b \notin free => b \notin W
      BY <1>2, <3>1
    <3> QED
      BY <1>6, <3>1, <3>2 DEF Kept
  <2> QED
    BY <1>2, <1>6, <2>1 DEF Whole, Kept, Settled
<1>7. UpInv'
  <2>1. /\ This' = This /\ Other' = Other /\ CommittedPtrs' = CommittedPtrs
        /\ This \in Slot /\ Other \in Slot
    BY <1>2, SlotFacts DEF This, Other, CommittedPtrs
  <2>2. \A p \in CommittedPtrs : p.addr \in Block
    BY <1>2, RootPtrs DEF CommittedPtrs
  <2>3. Whole(disk, CommittedPtrs) /\ Kept(frontier, free, CommittedPtrs) /\ Settled(maybe, CommittedPtrs)
    BY <1>1 DEF UpInv, CommittedPtrs, Retained, Whole, Kept
  <2>4. Whole(disk', CommittedPtrs) /\ Kept(frontier', free', CommittedPtrs) /\ Settled(maybe', CommittedPtrs)
    BY <1>6, <2>2, <2>3
  <2>5. Whole(disk', Retained') /\ Kept(frontier', free', Retained')
    <3>1. Retained' = CommittedPtrs \cup (TreePtrs(live') \cup TablePtrs(snaps'))
      BY DEF Retained, CommittedPtrs
    <3> QED
      BY <2>4, <3>1 DEF Whole, Kept
  <2>6. ThisSlot'
    BY <1>1, <1>2, <1>4, <2>1 DEF UpInv, ThisSlot, Ubs
  <2>7. OnSlot(disk', maybe', Other) = OnSlot(disk, maybe, Other)
    BY <1>4, <2>1 DEF OnSlot
  <2>8. ASSUME NEW u \in OnSlot(disk, maybe, Other), ~(u.txg < committed.txg)
        PROVE  Later(u)'
    <3>1. Later(u) /\ u \in Ubs
      BY <1>1, <2>1, <2>8 DEF UpInv, OtherSlot, Shaped, OnSlot
    <3>2. \A p \in UbPtrs(u) : p.addr \in Block
      BY <3>1, RootPtrs DEF UbPtrs, Ubs
    <3>3. Whole(disk', UbPtrs(u)) /\ Kept(frontier', free', UbPtrs(u)) /\ Settled(maybe', UbPtrs(u))
      BY <1>6, <3>1, <3>2 DEF Later
    <3>4. u.frontier <= frontier'
      BY <1>2, <3>1 DEF Later, Ubs
    <3> QED
      BY <3>1, <3>3, <3>4 DEF Later
  <2>9. OtherSlot'
    BY <2>1, <2>7, <2>8 DEF OtherSlot
  <2> QED
    BY <1>1, <2>1, <2>4, <2>5, <2>6, <2>7, <2>9 DEF UpInv
<1>8. DownInv' /\ FormattingInv'
  BY <1>1 DEF DownInv, FormattingInv
<1> QED
  BY <1>1, <1>3, <1>5, <1>7, <1>8 DEF EofsInv, Careful

LEMMA WriteFacts ==
    ASSUME NEW w, DOMAIN w \subseteq Loc, WriteAll(w)
    PROVE  /\ DOMAIN disk' = Loc /\ DOMAIN maybe' = Loc
           /\ \A l \in Loc \ DOMAIN w : disk'[l] = disk[l] /\ maybe'[l] = maybe[l]
           /\ \A l \in DOMAIN w : disk'[l] = w[l] /\ maybe'[l] = maybe[l] \cup {Matters(l)}
BY DEF WriteAll

\* The first and the second block a call writes.
LEMMA FirstBlock ==
    ASSUME EofsInv, Room1
    PROVE  /\ Addr1 \in Block /\ (Addr1 \in free \/ Addr1 >= frontier)
           /\ Alloc1[1] \in 1 .. (NBlocks + 1) /\ frontier <= Alloc1[1]
           /\ Alloc1[2] \in SUBSET Block /\ Alloc1[2] \in SUBSET free
           /\ \A b \in Alloc1[2] : b < Alloc1[1]
           /\ Addr1 < Alloc1[1] /\ Addr1 \notin Alloc1[2]
<1>1. frontier \in 1 .. (NBlocks + 1) /\ free \in SUBSET Block /\ \A b \in free : b < frontier
  BY DEF EofsInv, TypeOK, Shaped
<1>2. Addr1 \in free \/ Addr1 = frontier
  BY <1>1, AllocFacts DEF Room1, Addr1
<1> QED
  BY <1>1, <1>2, AllocFacts, EofsBounds DEF Room1, Addr1, Alloc1

LEMMA SecondBlock ==
    ASSUME EofsInv, Room2
    PROVE  /\ Addr2 \in Block /\ (Addr2 \in free \/ Addr2 >= frontier) /\ Addr2 # Addr1
           /\ Alloc2[1] \in 1 .. (NBlocks + 1) /\ frontier <= Alloc2[1]
           /\ Alloc2[2] \in SUBSET Block /\ Alloc2[2] \in SUBSET free
           /\ \A b \in Alloc2[2] : b < Alloc2[1]
           /\ Addr1 < Alloc2[1] /\ Addr1 \notin Alloc2[2]
           /\ Addr2 < Alloc2[1] /\ Addr2 \notin Alloc2[2]
<1> USE EofsBounds
<1>1. /\ Addr1 \in Block /\ Addr1 < Alloc1[1] /\ Addr1 \notin Alloc1[2] /\ frontier \in Nat
      /\ Alloc1[1] \in 1 .. (NBlocks + 1) /\ frontier <= Alloc1[1]
      /\ Alloc1[2] \in SUBSET Block /\ Alloc1[2] \in SUBSET free /\ \A b \in Alloc1[2] : b < Alloc1[1]
  BY FirstBlock DEF Room2, EofsInv, TypeOK
<1>2. HasRoom(Alloc1[1], Alloc1[2])
  BY DEF Room2
<1>3. PICK fr, fl : fr = Alloc1[1] /\ fl = Alloc1[2]
  OBVIOUS
<1>4. /\ Address(fr, fl) \in Block /\ (Address(fr, fl) \in fl \/ Address(fr, fl) = fr)
      /\ Taken(fr, fl)[1] \in 1 .. (NBlocks + 1) /\ fr <= Taken(fr, fl)[1]
      /\ Taken(fr, fl)[2] \in SUBSET Block /\ Taken(fr, fl)[2] \subseteq fl
      /\ \A b \in Taken(fr, fl)[2] : b < Taken(fr, fl)[1]
      /\ Address(fr, fl) < Taken(fr, fl)[1] /\ Address(fr, fl) \notin Taken(fr, fl)[2]
  BY <1>1, <1>2, <1>3, AllocFacts
<1>5. Addr2 = Address(fr, fl) /\ Alloc2 = Taken(fr, fl)
  BY <1>3 DEF Addr2, Alloc2
<1>6. Addr1 \in Int /\ fr \in Int /\ Taken(fr, fl)[1] \in Int /\ Addr1 < Taken(fr, fl)[1]
  BY <1>1, <1>3, <1>4 DEF Block
<1>7. Addr2 \in free \/ Addr2 >= frontier
  BY <1>1, <1>3, <1>4, <1>5
<1>8. Addr2 # Addr1
  BY <1>1, <1>3, <1>4, <1>5, <1>6
<1>9. frontier <= Alloc2[1]
  BY <1>1, <1>3, <1>4, <1>5, <1>6
<1> QED
  BY <1>1, <1>3, <1>4, <1>5, <1>6, <1>7, <1>8, <1>9

\* What the roots in memory reach, on a mounted filesystem.
LEMMA PendingSafe ==
    ASSUME EofsInv, Ready
    PROVE  /\ live \in TreeRefs /\ snaps \in TableRefs /\ committed.live \in TreeRefs /\ committed.snaps \in TableRefs
           /\ \A p \in TreePtrs(live) \cup TablePtrs(snaps) \cup CommittedPtrs :
                p.addr \in Block /\ p.addr < frontier /\ p.addr \notin free /\ disk[p.addr] = p.hash
<1>1. Shaped /\ UpInv /\ phase = "up"
  BY DEF EofsInv, Ready
<1>2. /\ live \in TreeRefs /\ snaps \in TableRefs /\ committed.live \in TreeRefs /\ committed.snaps \in TableRefs
  BY <1>1 DEF Shaped
<1>3. \A p \in TreePtrs(live) \cup TablePtrs(snaps) : p.addr \in Block
  BY <1>2, RootPtrs
<1>4. \A p \in CommittedPtrs : p.addr \in Block
  BY <1>2, RootPtrs DEF CommittedPtrs
<1> QED
  BY <1>1, <1>2, <1>3, <1>4 DEF UpInv, Retained, CommittedPtrs, Whole, Kept

\* The pending directory is rewritten with entries it had, or without data.
LEMMA NewDirInv ==
    ASSUME EofsInv, Ready, NEW d \in [Names -> FileRefs \cup {Absent, Empty}],
           \A n \in Names : ObjPtrs(d[n]) \subseteq TreePtrs(live), NewDir(d)
    PROVE  EofsInv'
<1> USE EofsBounds
<1>1. /\ UNCHANGED <<committed, phase, step, formats>> /\ snaps' = snaps /\ dirty' \in BOOLEAN
  BY DEF NewDir
<1>2. /\ frontier \in 1 .. (NBlocks + 1) /\ \A b \in free : b < frontier
      /\ DOMAIN disk = Loc /\ DOMAIN maybe = Loc
  BY DEF EofsInv, TypeOK, Shaped
<1>3. CASE d = NoEntries
  <2>1. live' = Empty /\ UNCHANGED <<disk, maybe, frontier, free>>
    BY <1>3 DEF NewDir, devVars, allocVars
  <2>2. Whole(disk', TreePtrs(live') \cup TablePtrs(snaps')) /\ Kept(frontier', free', TreePtrs(live') \cup TablePtrs(snaps'))
    BY <1>1, <2>1, EmptyPtrs, PendingSafe DEF Whole, Kept
  <2>3. live' \in TreeRefs /\ snaps' \in TableRefs
    BY <1>1, <2>1, PendingSafe DEF TreeRefs
  <2>4. PICK W : W = {}
    OBVIOUS
  <2>5. W \in SUBSET Block /\ \A b \in W : b \in free \/ b >= frontier
    BY <2>4
  <2>6. /\ DOMAIN disk' = Loc /\ DOMAIN maybe' = Loc
        /\ \A l \in Loc \ W : disk'[l] = disk[l] /\ maybe'[l] = maybe[l]
        /\ frontier' \in 1 .. (NBlocks + 1) /\ frontier <= frontier'
        /\ free' \in SUBSET free /\ \A b \in free' : b < frontier'
    BY <1>2, <2>1
  <2> QED
    BY <1>1, <2>2, <2>3, <2>5, <2>6, OpStep
<1>4. CASE d # NoEntries
  <2>1. PICK w : w = [b \in {Addr1} |-> DirBlock(d)]
    OBVIOUS
  <2>2. /\ Room1 /\ WriteAll(w) /\ frontier' = Alloc1[1] /\ free' = Alloc1[2]
        /\ live' = Ref(Addr1, DirBlock(d))
    BY <1>4, <2>1 DEF NewDir, Allocator
  <2>3. /\ Addr1 \in Block /\ (Addr1 \in free \/ Addr1 >= frontier)
        /\ frontier' \in 1 .. (NBlocks + 1) /\ frontier <= frontier'
        /\ free' \in SUBSET free /\ \A b \in free' : b < frontier'
        /\ Addr1 < frontier' /\ Addr1 \notin free'
    BY <2>2, FirstBlock
  <2>4. DOMAIN w = {Addr1} /\ w[Addr1] = DirBlock(d) /\ DOMAIN w \subseteq Loc
    BY <2>1, <2>3, Places
  <2>5. /\ DOMAIN disk' = Loc /\ DOMAIN maybe' = Loc
        /\ \A l \in Loc \ {Addr1} : disk'[l] = disk[l] /\ maybe'[l] = maybe[l]
        /\ disk'[Addr1] = DirBlock(d)
    BY <2>2, <2>4, WriteFacts
  <2>6. live' \in TreeRefs /\ snaps' \in TableRefs
    BY <1>1, <2>2, <2>3, NewTree, PendingSafe DEF TreeRefs
  <2>7. \A p \in TreePtrs(live') \cup TablePtrs(snaps') :
          p = live' \/ p \in TreePtrs(live) \cup TablePtrs(snaps)
    BY <1>1, <2>2, <2>3, NewTree
  <2>8. live'.addr = Addr1 /\ live'.hash = DirBlock(d)
    BY <2>2, <2>3, NewTree
  <2>9. \A p \in TreePtrs(live) \cup TablePtrs(snaps) :
          p.addr # Addr1 /\ p.addr \in Loc /\ p.addr < frontier' /\ p.addr \notin free' /\ disk[p.addr] = p.hash
    <3>1. \A p \in TreePtrs(live) \cup TablePtrs(snaps) :
            p.addr \in Block /\ p.addr < frontier /\ p.addr \notin free /\ disk[p.addr] = p.hash
      BY PendingSafe
    <3>2. \A b \in Block : b \in Loc /\ (b < frontier /\ b \notin free => b # Addr1 /\ b < frontier' /\ b \notin free')
      BY <1>2, <2>3, Places DEF Block
    <3> QED
      BY <3>1, <3>2
  <2>10. Whole(disk', TreePtrs(live') \cup TablePtrs(snaps')) /\ Kept(frontier', free', TreePtrs(live') \cup TablePtrs(snaps'))
    BY <2>3, <2>5, <2>7, <2>8, <2>9 DEF Whole, Kept
  <2>11. PICK W : W = {Addr1}
    OBVIOUS
  <2>12. /\ W \in SUBSET Block /\ \A b \in W : b \in free \/ b >= frontier
         /\ \A l \in Loc \ W : disk'[l] = disk[l] /\ maybe'[l] = maybe[l]
    BY <2>3, <2>5, <2>11
  <2> QED
    BY <1>1, <2>3, <2>5, <2>6, <2>10, <2>12, OpStep
<1> QED
  BY <1>3, <1>4

LEMMA CreateFileInv ==
    ASSUME EofsInv, NEW n \in Names, CreateFile(n)
    PROVE  EofsInv'
<1>1. Ready /\ NewDir([Entries(live) EXCEPT ![n] = Empty])
  BY DEF CreateFile
<1>2. PICK d : d = [Entries(live) EXCEPT ![n] = Empty]
  OBVIOUS
<1>3. live \in TreeRefs
  BY <1>1, PendingSafe
<1>4. Entries(live) \in [Names -> FileRefs \cup {Absent, Empty}]
      /\ \A m \in Names : ObjPtrs(Entries(live)[m]) \subseteq TreePtrs(live)
  BY <1>3, EntriesType
<1>5. d \in [Names -> FileRefs \cup {Absent, Empty}] /\ \A m \in Names : d[m] = Entries(live)[m] \/ d[m] = Empty
  BY <1>2, <1>4
<1>6. \A m \in Names : ObjPtrs(d[m]) \subseteq TreePtrs(live)
  BY <1>4, <1>5 DEF ObjPtrs
<1> QED
  BY <1>1, <1>2, <1>5, <1>6, NewDirInv

LEMMA RemoveInv ==
    ASSUME EofsInv, NEW n \in Names, Remove(n)
    PROVE  EofsInv'
<1>1. Ready /\ NewDir([Entries(live) EXCEPT ![n] = Absent])
  BY DEF Remove
<1>2. PICK d : d = [Entries(live) EXCEPT ![n] = Absent]
  OBVIOUS
<1>3. live \in TreeRefs
  BY <1>1, PendingSafe
<1>4. Entries(live) \in [Names -> FileRefs \cup {Absent, Empty}]
      /\ \A m \in Names : ObjPtrs(Entries(live)[m]) \subseteq TreePtrs(live)
  BY <1>3, EntriesType
<1>5. d \in [Names -> FileRefs \cup {Absent, Empty}] /\ \A m \in Names : d[m] = Entries(live)[m] \/ d[m] = Absent
  BY <1>2, <1>4
<1>6. \A m \in Names : ObjPtrs(d[m]) \subseteq TreePtrs(live)
  BY <1>4, <1>5 DEF ObjPtrs
<1> QED
  BY <1>1, <1>2, <1>5, <1>6, NewDirInv

\* Writing free blocks leaves what the roots reach alone.
LEMMA PendingStays ==
    ASSUME EofsInv, Ready, NEW W \in SUBSET Block, \A b \in W : b \in free \/ b >= frontier,
           \A l \in Loc \ W : disk'[l] = disk[l], frontier' \in Nat, frontier <= frontier', free' \in SUBSET free
    PROVE  \A p \in TreePtrs(live) \cup TablePtrs(snaps) :
             p.addr < frontier' /\ p.addr \notin free' /\ disk'[p.addr] = p.hash
<1>1. \A p \in TreePtrs(live) \cup TablePtrs(snaps) :
        p.addr \in Block /\ p.addr < frontier /\ p.addr \notin free /\ disk[p.addr] = p.hash
  BY PendingSafe
<1>2. frontier \in Nat /\ \A b \in Block : b \in Int
  BY EofsBounds DEF EofsInv, TypeOK, Block
<1>3. \A b \in Block : b < frontier /\ b \notin free => b \in Loc \ W /\ b < frontier' /\ b \notin free'
  BY <1>2, Places
<1> QED
  BY <1>1, <1>3

LEMMA WriteInv ==
    ASSUME EofsInv, NEW n \in Names, NEW v \in Values, Write(n, v)
    PROVE  EofsInv'
<1> USE EofsBounds
<1>1. PICK file : file = Ref(Addr1, FileBlock(v))
  OBVIOUS
<1>2. PICK d : d = [Entries(live) EXCEPT ![n] = file]
  OBVIOUS
<1>3. PICK w : w = [b \in {Addr1, Addr2} |-> IF b = Addr1 THEN FileBlock(v) ELSE DirBlock(d)]
  OBVIOUS
<1>4. /\ Ready /\ Room2 /\ WriteAll(w) /\ live' = Ref(Addr2, DirBlock(d))
      /\ frontier' = Alloc2[1] /\ free' = Alloc2[2] /\ dirty' \in BOOLEAN
      /\ UNCHANGED <<committed, phase, step, formats>> /\ snaps' = snaps
  BY <1>1, <1>2, <1>3 DEF Write, Allocator
<1>5. Room1 /\ Addr1 \in Block /\ (Addr1 \in free \/ Addr1 >= frontier)
  BY <1>4, FirstBlock DEF Room2
<1>6. /\ Addr2 \in Block /\ (Addr2 \in free \/ Addr2 >= frontier) /\ Addr2 # Addr1
      /\ frontier' \in 1 .. (NBlocks + 1) /\ frontier <= frontier'
      /\ free' \in SUBSET free /\ \A b \in free' : b < frontier'
      /\ Addr1 < frontier' /\ Addr1 \notin free' /\ Addr2 < frontier' /\ Addr2 \notin free'
  BY <1>4, SecondBlock
<1>7. /\ DOMAIN w = {Addr1, Addr2} /\ DOMAIN w \subseteq Loc
      /\ w[Addr1] = FileBlock(v) /\ w[Addr2] = DirBlock(d)
  BY <1>3, <1>5, <1>6, Places
<1>8. PICK W : W = {Addr1, Addr2}
  OBVIOUS
<1>9. /\ DOMAIN disk' = Loc /\ DOMAIN maybe' = Loc
      /\ \A l \in Loc \ W : disk'[l] = disk[l] /\ maybe'[l] = maybe[l]
      /\ disk'[Addr1] = FileBlock(v) /\ disk'[Addr2] = DirBlock(d)
      /\ W \in SUBSET Block /\ \A b \in W : b \in free \/ b >= frontier
  BY <1>4, <1>5, <1>6, <1>7, <1>8, WriteFacts
<1>10. /\ file \in FileRefs /\ file.addr = Addr1 /\ file.hash = FileBlock(v)
  BY <1>1, <1>5 DEF Ref, FileBlock, FileRefs
<1>11. /\ Entries(live) \in [Names -> FileRefs \cup {Absent, Empty}]
       /\ \A m \in Names : ObjPtrs(Entries(live)[m]) \subseteq TreePtrs(live)
  BY <1>4, PendingSafe, EntriesType
<1>12. /\ d \in [Names -> FileRefs \cup {Absent, Empty}]
       /\ \A m \in Names : d[m] = Entries(live)[m] \/ d[m] = file
  BY <1>2, <1>10, <1>11
<1>13. \A m \in Names : \A p \in ObjPtrs(d[m]) : p = file \/ p \in TreePtrs(live)
  BY <1>11, <1>12 DEF ObjPtrs
<1>14. /\ live' \in TreeRefs /\ live'.addr = Addr2 /\ live'.hash = DirBlock(d)
       /\ \A p \in TreePtrs(live') : p = live' \/ \E m \in Names : p \in ObjPtrs(d[m])
  BY <1>4, <1>6, <1>12, NewTree DEF TreeRefs
<1>15. \A p \in TreePtrs(live') \cup TablePtrs(snaps') :
         p = live' \/ p = file \/ p \in TreePtrs(live) \cup TablePtrs(snaps)
  BY <1>4, <1>13, <1>14
<1>16. \A p \in TreePtrs(live) \cup TablePtrs(snaps) :
         p.addr < frontier' /\ p.addr \notin free' /\ disk'[p.addr] = p.hash
  BY <1>4, <1>6, <1>9, PendingStays
<1>17. Whole(disk', TreePtrs(live') \cup TablePtrs(snaps')) /\ Kept(frontier', free', TreePtrs(live') \cup TablePtrs(snaps'))
  BY <1>6, <1>9, <1>10, <1>14, <1>15, <1>16 DEF Whole, Kept
<1>18. snaps' \in TableRefs
  BY <1>4, PendingSafe
<1> QED
  BY <1>4, <1>6, <1>9, <1>14, <1>17, <1>18, OpStep

LEMMA SnapshotCreateInv ==
    ASSUME EofsInv, NEW s \in SnapNames, SnapshotCreate(s)
    PROVE  EofsInv'
<1> USE EofsBounds
<1>1. PICK t : t = [Table(snaps) EXCEPT ![s] = live]
  OBVIOUS
<1>2. PICK w : w = [b \in {Addr1} |-> SnapBlock(t)]
  OBVIOUS
<1>3. /\ Ready /\ Room1 /\ WriteAll(w) /\ snaps' = Ref(Addr1, SnapBlock(t))
      /\ frontier' = Alloc1[1] /\ free' = Alloc1[2] /\ dirty' \in BOOLEAN
      /\ UNCHANGED <<committed, phase, step, formats>> /\ live' = live
  BY <1>1, <1>2 DEF SnapshotCreate, Allocator
<1>4. /\ Addr1 \in Block /\ (Addr1 \in free \/ Addr1 >= frontier)
      /\ frontier' \in 1 .. (NBlocks + 1) /\ frontier <= frontier'
      /\ free' \in SUBSET free /\ \A b \in free' : b < frontier'
      /\ Addr1 < frontier' /\ Addr1 \notin free'
  BY <1>3, FirstBlock
<1>5. DOMAIN w = {Addr1} /\ DOMAIN w \subseteq Loc /\ w[Addr1] = SnapBlock(t)
  BY <1>2, <1>4, Places
<1>6. PICK W : W = {Addr1}
  OBVIOUS
<1>7. /\ DOMAIN disk' = Loc /\ DOMAIN maybe' = Loc
      /\ \A l \in Loc \ W : disk'[l] = disk[l] /\ maybe'[l] = maybe[l]
      /\ disk'[Addr1] = SnapBlock(t)
      /\ W \in SUBSET Block /\ \A b \in W : b \in free \/ b >= frontier
  BY <1>3, <1>4, <1>5, <1>6, WriteFacts
<1>8. live \in TreeRefs /\ snaps \in TableRefs
  BY <1>3, PendingSafe
<1>9. /\ Table(snaps) \in [SnapNames -> TreeRefs \cup {Absent}]
      /\ \A x \in SnapNames : Table(snaps)[x] # Absent => TreePtrs(Table(snaps)[x]) \subseteq TablePtrs(snaps)
  BY <1>8, TableType
<1>10. /\ t \in [SnapNames -> TreeRefs \cup {Absent}]
       /\ \A x \in SnapNames : t[x] = live \/ t[x] = Table(snaps)[x]
  BY <1>1, <1>8, <1>9
<1>11. /\ snaps' \in TableRefs /\ snaps'.addr = Addr1 /\ snaps'.hash = SnapBlock(t)
       /\ \A p \in TablePtrs(snaps') : p = snaps' \/ \E x \in SnapNames : t[x] # Absent /\ p \in TreePtrs(t[x])
  BY <1>3, <1>4, <1>10, NewTable DEF TableRefs
<1>12. \A p \in TreePtrs(live') \cup TablePtrs(snaps') :
         p = snaps' \/ p \in TreePtrs(live) \cup TablePtrs(snaps)
  BY <1>3, <1>9, <1>10, <1>11
<1>13. \A p \in TreePtrs(live) \cup TablePtrs(snaps) :
         p.addr < frontier' /\ p.addr \notin free' /\ disk'[p.addr] = p.hash
  BY <1>3, <1>4, <1>7, PendingStays
<1>14. Whole(disk', TreePtrs(live') \cup TablePtrs(snaps')) /\ Kept(frontier', free', TreePtrs(live') \cup TablePtrs(snaps'))
  BY <1>4, <1>7, <1>11, <1>12, <1>13 DEF Whole, Kept
<1>15. live' \in TreeRefs
  BY <1>3, <1>8
<1> QED
  BY <1>3, <1>4, <1>7, <1>11, <1>14, <1>15, OpStep

\* An operation that fails has written, and lost, blocks that were free.
LEMMA OpFailsInv ==
    ASSUME EofsInv, OpFails
    PROVE  EofsInv'
<1> USE EofsBounds
<1>1. /\ Ready /\ UNCHANGED <<committed, phase, step, formats, live, snaps, dirty>>
      /\ dirty \in BOOLEAN /\ live \in TreeRefs /\ snaps \in TableRefs
  BY PendingSafe DEF OpFails, Unfinished, EofsInv, TypeOK
<1> DEFINE Fits(W) ==
        /\ \A b \in W : b \in free \/ b >= frontier
        /\ DOMAIN disk' = Loc /\ DOMAIN maybe' = Loc
        /\ \A l \in Loc \ W : disk'[l] = disk[l] /\ maybe'[l] = maybe[l]
        /\ frontier' \in 1 .. (NBlocks + 1) /\ frontier <= frontier'
        /\ free' \in SUBSET free /\ \A b \in free' : b < frontier'
<1>2. PICK W \in SUBSET Block : Fits(W)
  <2>1. ASSUME Room1, WriteAll([b \in {Addr1} |-> Torn]), Allocator(Alloc1)
        PROVE  \E W \in SUBSET Block : Fits(W)
    <3>1. PICK w : w = [b \in {Addr1} |-> Torn]
      OBVIOUS
    <3>2. DOMAIN w = {Addr1} /\ Addr1 \in Block /\ DOMAIN w \subseteq Loc /\ WriteAll(w)
      BY <2>1, <3>1, FirstBlock, Places
    <3>3. /\ DOMAIN disk' = Loc /\ DOMAIN maybe' = Loc
          /\ \A l \in Loc \ {Addr1} : disk'[l] = disk[l] /\ maybe'[l] = maybe[l]
      BY <3>2, WriteFacts
    <3>4. {Addr1} \in SUBSET Block /\ \A b \in {Addr1} : b \in free \/ b >= frontier
      BY <2>1, FirstBlock
    <3>5. /\ frontier' \in 1 .. (NBlocks + 1) /\ frontier <= frontier'
          /\ free' \in SUBSET free /\ \A b \in free' : b < frontier'
      BY <2>1, FirstBlock DEF Allocator
    <3> QED
      BY <3>3, <3>4, <3>5
  <2>2. ASSUME Room2, WriteAll([b \in {Addr1, Addr2} |-> Torn]), Allocator(Alloc2)
        PROVE  \E W \in SUBSET Block : Fits(W)
    <3>1. PICK w : w = [b \in {Addr1, Addr2} |-> Torn]
      OBVIOUS
    <3>2. Room1
      BY <2>2 DEF Room2
    <3>3. /\ DOMAIN w = {Addr1, Addr2} /\ Addr1 \in Block /\ Addr2 \in Block
          /\ DOMAIN w \subseteq Loc /\ WriteAll(w)
      BY <2>2, <3>1, <3>2, FirstBlock, SecondBlock, Places
    <3>4. /\ DOMAIN disk' = Loc /\ DOMAIN maybe' = Loc
          /\ \A l \in Loc \ {Addr1, Addr2} : disk'[l] = disk[l] /\ maybe'[l] = maybe[l]
      BY <3>3, WriteFacts
    <3>5. {Addr1, Addr2} \in SUBSET Block /\ \A b \in {Addr1, Addr2} : b \in free \/ b >= frontier
      BY <2>2, <3>2, FirstBlock, SecondBlock
    <3>6. /\ frontier' \in 1 .. (NBlocks + 1) /\ frontier <= frontier'
          /\ free' \in SUBSET free /\ \A b \in free' : b < frontier'
      BY <2>2, SecondBlock DEF Allocator
    <3> QED
      BY <3>4, <3>5, <3>6
  <2> QED
    BY <2>1, <2>2 DEF OpFails
<1>3. \A p \in TreePtrs(live) \cup TablePtrs(snaps) :
        p.addr < frontier' /\ p.addr \notin free' /\ disk'[p.addr] = p.hash
  BY <1>1, <1>2, PendingStays
<1>4. Whole(disk', TreePtrs(live') \cup TablePtrs(snaps')) /\ Kept(frontier', free', TreePtrs(live') \cup TablePtrs(snaps'))
  BY <1>1, <1>3 DEF Whole, Kept
<1>5. live' \in TreeRefs /\ snaps' \in TableRefs /\ dirty' \in BOOLEAN
  BY <1>1
<1> QED
  BY <1>1, <1>2, <1>4, <1>5, OpStep

LEMMA RollbackInv ==
    ASSUME EofsInv, Rollback
    PROVE  EofsInv'
<1> USE EofsBounds
<1>1. /\ Ready /\ UNCHANGED <<committed, phase, step, formats, disk, maybe, frontier, free>>
      /\ live' = committed.live /\ snaps' = committed.snaps /\ dirty' \in BOOLEAN
  BY DEF Rollback, devVars, allocVars
<1>2. /\ frontier \in 1 .. (NBlocks + 1) /\ \A b \in free : b < frontier
      /\ DOMAIN disk = Loc /\ DOMAIN maybe = Loc
  BY DEF EofsInv, TypeOK, Shaped
<1>3. Whole(disk', TreePtrs(live') \cup TablePtrs(snaps')) /\ Kept(frontier', free', TreePtrs(live') \cup TablePtrs(snaps'))
  BY <1>1, PendingSafe DEF Whole, Kept, CommittedPtrs
<1>4. live' \in TreeRefs /\ snaps' \in TableRefs
  BY <1>1, PendingSafe
<1>5. PICK W : W = {}
  OBVIOUS
<1>6. /\ W \in SUBSET Block /\ \A b \in W : b \in free \/ b >= frontier
      /\ DOMAIN disk' = Loc /\ DOMAIN maybe' = Loc
      /\ \A l \in Loc \ W : disk'[l] = disk[l] /\ maybe'[l] = maybe[l]
      /\ frontier' \in 1 .. (NBlocks + 1) /\ frontier <= frontier'
      /\ free' \in SUBSET free /\ \A b \in free' : b < frontier'
  BY <1>1, <1>2, <1>5
<1> QED
  BY <1>1, <1>3, <1>4, <1>6, OpStep

-----------------------------------------------------------------------------
(* Commits.                                                                *)

\* Retained pointers point to blocks.
LEMMA RetainedBlocks ==
    ASSUME EofsInv
    PROVE  \A p \in Retained : p.addr \in Block /\ p.addr \notin Slot
<1>1. /\ live \in TreeRefs /\ snaps \in TableRefs /\ committed.live \in TreeRefs /\ committed.snaps \in TableRefs
  BY DEF EofsInv, Shaped
<1>2. \A p \in TreePtrs(live) \cup TablePtrs(snaps) : p.addr \in Block
  BY <1>1, RootPtrs
<1>3. \A p \in TreePtrs(committed.live) \cup TablePtrs(committed.snaps) : p.addr \in Block
  BY <1>1, RootPtrs
<1> QED
  BY <1>2, <1>3, Places DEF Retained

LEMMA UbBlocks ==
    ASSUME NEW u \in Ubs
    PROVE  \A p \in UbPtrs(u) : p.addr \in Block /\ p.addr \notin Slot
BY RootPtrs, Places DEF UbPtrs, Ubs

LEMMA CommitFlushInv ==
    ASSUME EofsInv, CommitFlush
    PROVE  EofsInv'
<1>1. /\ TypeOK /\ Shaped /\ FormattingInv /\ UpInv /\ Careful
      /\ phase # "down" /\ step = "idle" /\ step' = "flushed" /\ committed.txg < MaxTxg
      /\ maybe' = [l \in Loc |-> {}] /\ UNCHANGED <<disk, committed, live, snaps, dirty, frontier, free, phase, formats>>
  BY DEF EofsInv, CommitFlush, Flush, rootVars, allocVars
<1>2. TypeOK'
  BY <1>1 DEF TypeOK
<1>3. \A s \in Slot : maybe'[s] = {} /\ OnSlot(disk', maybe', s) \subseteq OnSlot(disk, maybe, s)
  BY <1>1, Places DEF OnSlot
<1>4. Shaped'
  BY <1>1, <1>3 DEF Shaped
<1>5. committed.txg \in Nat /\ This \in Slot /\ Other \in Slot /\ SlotOf(0) \in Slot /\ SlotOf(1) \in Slot
  <2>1. committed.txg \in Nat
    BY <1>1, EofsBounds DEF TypeOK
  <2>2. SlotOf(0) \in Slot /\ SlotOf(1) \in Slot
    BY SlotFacts, 0 + 1 = 1
  <2> QED
    BY <2>1, <2>2, SlotFacts DEF This, Other
<1>6. \A b \in Block : maybe'[b] = {}
  BY <1>1, Places
<1>7. FormattingInv'
  <2> SUFFICES ASSUME phase = "formatting" PROVE FormattingInv'
    BY <1>1 DEF FormattingInv
  <2>1. \A s \in Slot : \A u \in OnSlot(disk', maybe', s) : Whole(disk', UbPtrs(u))
    BY <1>1, <1>3 DEF FormattingInv
  <2>2. 0 < MaxTxg
    BY <1>1 DEF FormattingInv
  <2> QED
    BY <1>1, <1>3, <1>5, <1>6, <2>1, <2>2 DEF FormattingInv, OnSlot
<1>8. UpInv'
  <2> SUFFICES ASSUME phase = "up" PROVE UpInv'
    BY <1>1 DEF UpInv
  <2>1. /\ This' = This /\ Other' = Other /\ CommittedPtrs' = CommittedPtrs /\ Retained' = Retained
    BY <1>1 DEF This, Other, CommittedPtrs, Retained
  <2>2. \A p \in CommittedPtrs : p.addr \in Block
    BY RetainedBlocks DEF CommittedPtrs, Retained
  <2>3. Settled(maybe', CommittedPtrs)
    BY <1>6, <2>2 DEF Settled
  <2>4. ThisSlot'
    BY <1>1, <1>3, <1>5, <2>1 DEF UpInv, ThisSlot
  <2>5. ASSUME NEW u \in OnSlot(disk', maybe', Other) PROVE u.txg < committed.txg \/ Later(u)'
    <3>0. u \in OnSlot(disk, maybe, Other)
      BY <1>3, <1>5
    <3>1. u \in Ubs
      BY <1>1, <1>5, <3>0 DEF Shaped, OnSlot
    <3>2. u.txg < committed.txg \/ Later(u)
      BY <1>1, <3>0 DEF UpInv, OtherSlot
    <3>3. Settled(maybe', UbPtrs(u))
      BY <1>6, <3>1, UbBlocks DEF Settled
    <3> QED
      BY <1>1, <3>2, <3>3 DEF Later
  <2>6. OtherSlot'
    BY <1>1, <2>1, <2>5 DEF OtherSlot
  <2>7. formats = 0 => OnSlot(disk', maybe', Other) = {}
    BY <1>1, <1>3, <1>5 DEF UpInv
  <2> QED
    BY <1>1, <1>3, <1>5, <1>6, <2>1, <2>3, <2>4, <2>6, <2>7 DEF UpInv
<1>9. DownInv'
  BY <1>1 DEF DownInv
<1> QED
  BY <1>1, <1>2, <1>4, <1>7, <1>8, <1>9 DEF EofsInv, Careful

\* What the write of one slot changes.
LEMMA SlotWrite ==
    ASSUME EofsInv, NEW c, NEW o \in Slot, WriteAll([s \in {o} |-> c])
    PROVE  /\ DOMAIN disk' = Loc /\ DOMAIN maybe' = Loc
           /\ \A l \in Loc \ {o} : disk'[l] = disk[l] /\ maybe'[l] = maybe[l]
           /\ disk'[o] = c /\ maybe'[o] = maybe[o] \cup {disk[o]}
           /\ \A b \in Block : disk'[b] = disk[b] /\ maybe'[b] = maybe[b]
<1>1. PICK w : w = [s \in {o} |-> c]
  OBVIOUS
<1>2. DOMAIN w = {o} /\ w[o] = c /\ DOMAIN w \subseteq Loc /\ WriteAll(w)
  BY <1>1, Places
<1>3. Matters(o) = disk[o]
  BY DEF Matters
<1>4. \A b \in Block : b \in Loc \ {o}
  BY Places
<1> QED
  BY <1>2, <1>3, <1>4, WriteFacts

\* The uberblock of the commit in progress.
LEMMA NextUbFacts ==
    ASSUME EofsInv, committed.txg < MaxTxg
    PROVE  /\ NextUb \in Ubs /\ NextUb.txg = committed.txg + 1 /\ NextUb.frontier = frontier
           /\ NextUb.live = live /\ NextUb.snaps = snaps
           /\ UbPtrs(NextUb) = TreePtrs(live) \cup TablePtrs(snaps)
<1>1. /\ committed.txg \in 0 .. MaxTxg /\ frontier \in 1 .. (NBlocks + 1)
      /\ live \in TreeRefs /\ snaps \in TableRefs
  BY DEF EofsInv, TypeOK, Shaped
<1>2. committed.txg + 1 \in 0 .. MaxTxg
  BY <1>1, EofsBounds
<1>3. /\ NextUb.txg = committed.txg + 1 /\ NextUb.frontier = frontier
      /\ NextUb.live = live /\ NextUb.snaps = snaps
  BY DEF NextUb
<1> QED
  BY <1>1, <1>2, <1>3 DEF NextUb, Ubs, UbPtrs

\* The root flip of a mounted filesystem, or one that fails.
LEMMA SlotWriteUp ==
    ASSUME EofsInv, phase = "up", step = "flushed", NEW c \in {NextUb, Torn},
           WriteAll([s \in {SlotOf(committed.txg + 1)} |-> c]),
           step' \in {"idle", "written"}, step' = "idle" => TailFaults, step' = "written" => c = NextUb,
           UNCHANGED <<rootVars, allocVars, phase, formats>>
    PROVE  EofsInv'
<1>1. /\ TypeOK /\ Shaped /\ UpInv /\ Careful
      /\ UNCHANGED <<committed, live, snaps, dirty, frontier, free, phase, formats>>
  BY DEF EofsInv, rootVars, allocVars
<1>2. committed.txg \in Nat /\ This \in Slot /\ Other \in Slot /\ This # Other /\ committed.txg < MaxTxg
  BY <1>1, SlotFacts, EofsBounds DEF This, Other, TypeOK, UpInv
<1>3. /\ DOMAIN disk' = Loc /\ DOMAIN maybe' = Loc
      /\ \A l \in Loc \ {Other} : disk'[l] = disk[l] /\ maybe'[l] = maybe[l]
      /\ disk'[Other] = c /\ maybe'[Other] = maybe[Other] \cup {disk[Other]}
      /\ \A b \in Block : disk'[b] = disk[b] /\ maybe'[b] = maybe[b]
  BY <1>2, SlotWrite DEF Other
<1>4. /\ NextUb \in Ubs /\ NextUb.txg = committed.txg + 1 /\ NextUb.frontier = frontier
      /\ NextUb.live = live /\ NextUb.snaps = snaps
      /\ UbPtrs(NextUb) = TreePtrs(live) \cup TablePtrs(snaps)
  BY <1>2, NextUbFacts
<1>5. Whole(disk, UbPtrs(NextUb)) /\ Kept(frontier, free, UbPtrs(NextUb)) /\ \A p \in UbPtrs(NextUb) : p.addr \in Block
  <2>1. UbPtrs(NextUb) \subseteq Retained
    BY <1>4 DEF Retained
  <2> QED
    BY <1>1, <2>1, RetainedBlocks DEF UpInv, Whole, Kept
<1>6. TypeOK'
  BY <1>1, <1>3 DEF TypeOK
<1>7. \A u \in OnSlot(disk', maybe', Other) : u = NextUb \/ u \in OnSlot(disk, maybe, Other)
  BY <1>3 DEF OnSlot
<1>8. \A s \in Slot \ {Other} : disk'[s] = disk[s] /\ maybe'[s] = maybe[s]
  BY <1>3, Places
<1>9. Shaped'
  <2>1. \A s \in Slot : disk'[s] \in Ubs \cup {Zero, Torn} /\ maybe'[s] \subseteq Ubs \cup {Zero, Torn}
    BY <1>1, <1>2, <1>3, <1>4, <1>8 DEF Shaped
  <2>2. \A s \in Slot : \A u \in OnSlot(disk', maybe', s) : (u = NextUb /\ s = Other) \/ u \in OnSlot(disk, maybe, s)
    BY <1>7, <1>8 DEF OnSlot
  <2>3. Other = SlotOf(NextUb.txg) /\ Below(NextUb.frontier, UbPtrs(NextUb))
    BY <1>4, <1>5 DEF Other, Below, Kept
  <2>4. \A s \in Slot : \A u \in OnSlot(disk', maybe', s) : s = SlotOf(u.txg) /\ Below(u.frontier, UbPtrs(u))
    BY <1>1, <2>2, <2>3 DEF Shaped
  <2> QED
    BY <1>1, <2>1, <2>4 DEF Shaped
<1>10. UpInv'
  <2>1. /\ This' = This /\ Other' = Other /\ CommittedPtrs' = CommittedPtrs /\ Retained' = Retained /\ NextUb' = NextUb
    BY <1>1 DEF This, Other, CommittedPtrs, Retained, NextUb
  <2>2. Whole(disk', Retained) /\ Kept(frontier', free', Retained)
    BY <1>1, <1>3, RetainedBlocks DEF UpInv, Whole, Kept
  <2>3. Settled(maybe', CommittedPtrs)
    <3>1. \A p \in CommittedPtrs : p.addr \in Block
      BY RetainedBlocks DEF CommittedPtrs, Retained
    <3> QED
      BY <1>1, <1>3, <3>1 DEF UpInv, Settled
  <2>4. ThisSlot'
    BY <1>1, <1>2, <1>8, <2>1 DEF UpInv, ThisSlot
  <2>5. \A b \in Block : maybe'[b] = {}
    BY <1>1, <1>3 DEF UpInv
  <2>6. ASSUME NEW u, u \in Ubs, u.txg = committed.txg + 1, u.frontier <= frontier,
               Whole(disk, UbPtrs(u)), Kept(frontier, free, UbPtrs(u))
        PROVE  Later(u)'
    <3>1. \A p \in UbPtrs(u) : p.addr \in Block
      BY <2>6, UbBlocks
    <3>2. Whole(disk', UbPtrs(u)) /\ Settled(maybe', UbPtrs(u))
      BY <1>3, <2>5, <2>6, <3>1 DEF Whole, Settled
    <3> QED
      BY <1>1, <2>6, <3>2 DEF Later
  <2>7. Later(NextUb)'
    <3>1. NextUb.frontier <= frontier
      BY <1>1, <1>4, EofsBounds DEF TypeOK
    <3>2. ASSUME NEW u, u = NextUb PROVE Later(u)'
      BY <1>4, <1>5, <2>6, <3>1, <3>2
    <3> QED
      BY <2>1, <3>2 DEF Later
  <2>8. ASSUME NEW u \in OnSlot(disk, maybe, Other) PROVE u.txg < committed.txg \/ Later(u)'
    <3>1. u \in Ubs
      BY <1>1, <1>2 DEF Shaped, OnSlot
    <3>2. u.txg < committed.txg \/ Later(u)
      BY <1>1 DEF UpInv, OtherSlot
    <3> QED
      BY <2>6, <3>1, <3>2 DEF Later
  <2>9. OtherSlot'
    <3>1. ASSUME NEW u \in OnSlot(disk', maybe', Other) PROVE u.txg < committed.txg \/ Later(u)'
      <4>1. CASE u = NextUb
        BY <2>1, <2>7, <4>1 DEF Later
      <4>2. CASE u \in OnSlot(disk, maybe, Other)
        BY <2>8, <4>2
      <4> QED
        BY <1>7, <4>1, <4>2
    <3> QED
      BY <1>1, <2>1, <3>1 DEF OtherSlot
  <2>10. formats # 0
    BY <1>1, <1>2, EofsBounds DEF UpInv, TypeOK
  <2>11. Whole(disk, Retained)' /\ Kept(frontier, free, Retained)' /\ Settled(maybe, CommittedPtrs)'
    BY <2>1, <2>2, <2>3 DEF Whole, Kept, Settled
  <2> QED
    BY <1>1, <1>2, <1>3, <2>1, <2>4, <2>5, <2>9, <2>10, <2>11 DEF UpInv
<1>11. DownInv' /\ FormattingInv'
  BY <1>1 DEF DownInv, FormattingInv
<1> QED
  BY <1>1, <1>6, <1>9, <1>10, <1>11 DEF EofsInv, Careful

LEMMA CommitWriteSlotInv ==
    ASSUME EofsInv, CommitWriteSlot
    PROVE  EofsInv'
<1>1. /\ TypeOK /\ Shaped /\ FormattingInv /\ DownInv /\ Careful
      /\ step = "flushed" /\ step' = "written"
      /\ WriteAll([s \in {SlotOf(committed.txg + 1)} |-> NextUb])
      /\ UNCHANGED <<rootVars, allocVars, phase, formats>>
      /\ UNCHANGED <<committed, live, snaps, dirty, frontier, free, phase, formats>>
  BY DEF EofsInv, CommitWriteSlot, rootVars, allocVars
<1>2. CASE phase = "up"
  BY <1>1, <1>2, SlotWriteUp
<1>3. CASE phase = "formatting"
  <2>1. /\ committed.txg = 0 /\ live = Empty /\ snaps = Empty /\ 0 < MaxTxg
        /\ committed = [txg |-> 0, live |-> Empty, snaps |-> Empty]
    BY <1>1, <1>3 DEF FormattingInv
  <2>2. SlotOf(0) \in Slot /\ SlotOf(1) \in Slot /\ SlotOf(0) # SlotOf(1) /\ \A s \in Slot : s = SlotOf(0) \/ s = SlotOf(1)
    BY SlotFacts, 0 + 1 = 1
  <2>3. WriteAll([s \in {SlotOf(1)} |-> NextUb])
    BY <1>1, <2>1, 0 + 1 = 1
  <2>4. /\ DOMAIN disk' = Loc /\ DOMAIN maybe' = Loc
        /\ \A l \in Loc \ {SlotOf(1)} : disk'[l] = disk[l] /\ maybe'[l] = maybe[l]
        /\ disk'[SlotOf(1)] = NextUb /\ maybe'[SlotOf(1)] = maybe[SlotOf(1)] \cup {disk[SlotOf(1)]}
        /\ \A b \in Block : disk'[b] = disk[b] /\ maybe'[b] = maybe[b]
    BY <2>2, <2>3, SlotWrite
  <2>5. disk'[SlotOf(0)] = Zero /\ maybe'[SlotOf(0)] = {} /\ maybe'[SlotOf(1)] = {Zero}
    BY <1>1, <1>3, <2>2, <2>4, Places DEF FormattingInv
  <2>6. /\ NextUb \in Ubs /\ NextUb.txg = 1 /\ UbPtrs(NextUb) = {}
    BY <2>1, NextUbFacts, EmptyPtrs, 0 + 1 = 1
  <2>7. \A s \in Slot : \A u \in OnSlot(disk', maybe', s) : s = SlotOf(1) /\ u = NextUb
    BY <2>2, <2>4, <2>5 DEF OnSlot
  <2>8. \A s \in Slot : disk'[s] \in Ubs \cup {Zero, Torn} /\ maybe'[s] \subseteq Ubs \cup {Zero, Torn}
    BY <2>2, <2>4, <2>5, <2>6
  <2>9. Shaped'
    <3>1. \A s \in Slot : \A u \in OnSlot(disk', maybe', s) : s = SlotOf(u.txg) /\ Below(u.frontier, UbPtrs(u))
      BY <2>6, <2>7 DEF Below
    <3> QED
      BY <1>1, <2>8, <3>1 DEF Shaped
  <2>10. TypeOK'
    BY <1>1, <2>4 DEF TypeOK
  <2>11. NextUb' = NextUb
    BY <1>1 DEF NextUb
  <2>12. \A s \in Slot : \A u \in OnSlot(disk', maybe', s) : Whole(disk', UbPtrs(u))
    BY <2>6, <2>7 DEF Whole
  <2>13. \A b \in Block : maybe'[b] = {}
    BY <1>1, <1>3, <2>4 DEF FormattingInv
  <2>14. formats # 0 /\ free = {}
    BY <1>1, <1>3 DEF FormattingInv
  <2>15. FormattingInv'
    BY <1>1, <2>1, <2>4, <2>5, <2>11, <2>12, <2>13, <2>14 DEF FormattingInv
  <2>16. UpInv' /\ DownInv'
    BY <1>1, <1>3 DEF UpInv, DownInv
  <2> QED
    BY <1>1, <2>9, <2>10, <2>15, <2>16 DEF EofsInv, Careful
<1>4. phase \in {"up", "formatting"}
  BY <1>1 DEF TypeOK, DownInv
<1> QED
  BY <1>2, <1>3, <1>4

LEMMA CommitFailsInv ==
    ASSUME EofsInv, CommitFailsEarly \/ CommitFailsLate
    PROVE  EofsInv'
<1>1. TypeOK /\ Shaped /\ UpInv /\ Careful
  BY DEF EofsInv
<1>2. ASSUME phase = "up", step # "idle", step = "written" => TailFaults, step' = "idle",
             UNCHANGED <<devVars, rootVars, allocVars, phase, formats>>
      PROVE  EofsInv'
  <2>1. UNCHANGED <<disk, maybe, committed, live, snaps, dirty, frontier, free, phase, formats>>
    BY <1>2 DEF devVars, rootVars, allocVars
  <2>2. TypeOK' /\ Shaped' /\ DownInv' /\ FormattingInv' /\ Careful
    BY <1>1, <1>2, <2>1 DEF TypeOK, Shaped, DownInv, FormattingInv
  <2>3. /\ This' = This /\ Other' = Other /\ CommittedPtrs' = CommittedPtrs /\ Retained' = Retained
    BY <2>1 DEF This, Other, CommittedPtrs, Retained
  <2>4. ThisSlot'
    BY <1>1, <1>2, <2>1, <2>3 DEF UpInv, ThisSlot
  <2>5. ASSUME NEW u \in OnSlot(disk, maybe, Other) PROVE u.txg < committed.txg \/ Later(u)'
    <3>1. u.txg < committed.txg \/ Later(u)
      BY <1>1, <1>2 DEF UpInv, OtherSlot
    <3>2. TailFaults \/ step = "flushed"
      BY <1>1, <1>2 DEF TypeOK
    <3> QED
      BY <1>2, <2>1, <3>1, <3>2 DEF Later
  <2>6. OtherSlot'
    BY <2>1, <2>3, <2>5 DEF OtherSlot
  <2>7. UpInv'
    BY <1>1, <1>2, <2>1, <2>3, <2>4, <2>6 DEF UpInv
  <2> QED
    BY <2>2, <2>7 DEF EofsInv, Careful
<1>3. CASE CommitFailsEarly
  BY <1>2, <1>3 DEF CommitFailsEarly
<1>4. CASE CommitFailsLate
  <2>1. CASE step = "flushed"
    <3>1. PICK c \in {NextUb, Torn} : WriteAll([s \in {SlotOf(committed.txg + 1)} |-> c])
      BY <1>4, <2>1 DEF CommitFailsLate
    <3> QED
      BY <1>4, <2>1, <3>1, SlotWriteUp DEF CommitFailsLate
  <2>2. CASE step # "flushed"
    <3>1. step = "written" /\ UNCHANGED devVars
      BY <1>4, <2>2 DEF CommitFailsLate
    <3> QED
      BY <1>2, <1>4, <3>1 DEF CommitFailsLate
  <2> QED
    BY <2>1, <2>2
<1> QED
  BY <1>3, <1>4

LEMMA CommitEndInv ==
    ASSUME EofsInv, CommitEnd
    PROVE  EofsInv'
<1>1. /\ TypeOK /\ Shaped /\ FormattingInv /\ UpInv /\ DownInv /\ Careful
      /\ step = "written" /\ step' = "idle" /\ phase' = "up" /\ dirty' = FALSE
      /\ committed' = [txg |-> committed.txg + 1, live |-> live, snaps |-> snaps]
      /\ maybe' = [l \in Loc |-> {}] /\ UNCHANGED <<disk, live, snaps, frontier, free, formats>>
  BY DEF EofsInv, CommitEnd, Flush, allocVars
<1>2. committed.txg \in Nat /\ committed.txg < MaxTxg /\ phase \in {"up", "formatting"}
  <2>1. phase \in {"up", "formatting"}
    BY <1>1 DEF TypeOK, DownInv
  <2> QED
    BY <1>1, <2>1, EofsBounds DEF TypeOK, UpInv, FormattingInv
<1>3. /\ Other \in Slot /\ This \in Slot /\ This # Other /\ This' = Other /\ Other' = This
      /\ committed'.txg = committed.txg + 1 /\ committed'.live = live /\ committed'.snaps = snaps
  BY <1>1, <1>2, SlotFacts DEF This, Other
<1>4. /\ NextUb \in Ubs /\ NextUb.txg = committed.txg + 1 /\ NextUb.frontier = frontier
      /\ NextUb.live = live /\ NextUb.snaps = snaps
      /\ UbPtrs(NextUb) = TreePtrs(live) \cup TablePtrs(snaps)
  BY <1>2, NextUbFacts
<1>5. disk[Other] = NextUb
  <2>1. CASE phase = "up"
    BY <1>1, <2>1 DEF UpInv
  <2>2. CASE phase = "formatting"
    <3>1. committed.txg = 0 /\ disk[SlotOf(1)] = NextUb
      BY <1>1, <2>2 DEF FormattingInv
    <3> QED
      BY <3>1, 0 + 1 = 1 DEF Other
  <2> QED
    BY <1>2, <2>1, <2>2
<1>6. Whole(disk, TreePtrs(live) \cup TablePtrs(snaps)) /\ Kept(frontier, free, TreePtrs(live) \cup TablePtrs(snaps))
  <2>1. CASE phase = "up"
    BY <1>1, <2>1 DEF UpInv, Retained, Whole, Kept
  <2>2. CASE phase = "formatting"
    BY <1>1, <2>2, EmptyPtrs DEF FormattingInv, Whole, Kept
  <2> QED
    BY <1>2, <2>1, <2>2
<1>7. TypeOK'
  <2>1. committed'.txg \in 0 .. MaxTxg
    BY <1>2, <1>3, EofsBounds
  <2>2. DOMAIN maybe' = Loc
    BY <1>1
  <2> QED
    BY <1>1, <2>1, <2>2 DEF TypeOK
<1>8. \A s \in Slot : maybe'[s] = {} /\ OnSlot(disk', maybe', s) \subseteq OnSlot(disk, maybe, s)
  BY <1>1, Places DEF OnSlot
<1>9. Shaped'
  <2>1. committed' \in [txg : 0 .. MaxTxg, live : TreeRefs, snaps : TableRefs]
    BY <1>1, <1>2, EofsBounds DEF Shaped
  <2> QED
    BY <1>1, <1>8, <2>1 DEF Shaped
<1>10. UpInv'
  <2>1. Retained' = TreePtrs(live) \cup TablePtrs(snaps) /\ CommittedPtrs' = TreePtrs(live) \cup TablePtrs(snaps)
    BY <1>1, <1>3 DEF Retained, CommittedPtrs
  <2>2. \A p \in TreePtrs(live) \cup TablePtrs(snaps) : p.addr \in Block
    BY RetainedBlocks DEF Retained
  <2>3. \A b \in Block : maybe'[b] = {}
    BY <1>1, Places
  <2>4. Whole(disk, Retained)' /\ Kept(frontier, free, Retained)' /\ Settled(maybe, CommittedPtrs)'
    BY <1>1, <1>6, <2>1, <2>2, <2>3 DEF Whole, Kept, Settled
  <2>5. ThisSlot'
    <3>1. NextUb.frontier <= frontier
      BY <1>1, <1>4, EofsBounds DEF TypeOK
    <3> QED
      BY <1>1, <1>3, <1>4, <1>5, <1>8, <3>1 DEF ThisSlot
  <2>6. OtherSlot'
    <3>1. \A u \in OnSlot(disk', maybe', This) : u.txg < committed.txg + 1
      <4>1. CASE phase = "up"
        BY <1>1, <1>2, <1>8, <1>3, <4>1 DEF UpInv, ThisSlot, OnSlot
      <4>2. CASE phase = "formatting"
        <5>1. This = SlotOf(0) /\ disk[SlotOf(0)] = Zero
          BY <1>1, <4>2 DEF FormattingInv, This
        <5> QED
          BY <1>1, <1>3, <1>8, <5>1 DEF OnSlot
      <4> QED
        BY <1>2, <4>1, <4>2
    <3> QED
      BY <1>3, <3>1 DEF OtherSlot
  <2>7. formats # 0
    <3>1. CASE phase = "up"
      BY <1>1, <1>2, <3>1, EofsBounds DEF UpInv
    <3>2. CASE phase = "formatting"
      BY <1>1, <3>2 DEF FormattingInv
    <3> QED
      BY <1>2, <3>1, <3>2
  <2> QED
    BY <1>1, <2>4, <2>5, <2>6, <2>7 DEF UpInv
<1>11. DownInv' /\ FormattingInv'
  BY <1>1 DEF DownInv, FormattingInv
<1> QED
  BY <1>1, <1>7, <1>9, <1>10, <1>11 DEF EofsInv, Careful

\* Garbage collection frees nothing a root in memory reaches; without late
\* failures no uberblock on the device but the committed one matters.
LEMMA GcInv ==
    ASSUME EofsInv, Gc
    PROVE  EofsInv'
<1>1. /\ TypeOK /\ Shaped /\ UpInv /\ Careful /\ WithGc
      /\ phase = "up" /\ step = "idle"
      /\ UNCHANGED <<disk, maybe, committed, live, snaps, dirty, frontier, phase, step, formats>>
      /\ free' = (1 .. (frontier - 1)) \ {p.addr : p \in Retained}
  BY DEF EofsInv, Gc, Ready, devVars, rootVars
<1>2. free' \subseteq Block /\ \A b \in free' : b < frontier
  BY <1>1, EofsBounds DEF TypeOK, Block
<1>3. TypeOK'
  BY <1>1, <1>2 DEF TypeOK
<1>4. Shaped'
  BY <1>1, <1>2 DEF Shaped
<1>5. /\ This' = This /\ Other' = Other /\ CommittedPtrs' = CommittedPtrs /\ Retained' = Retained
  BY <1>1 DEF This, Other, CommittedPtrs, Retained
<1>6. Kept(frontier, free', Retained)
  BY <1>1 DEF UpInv, Kept
<1>7. ThisSlot'
  BY <1>1, <1>5 DEF UpInv, ThisSlot
<1>8. OtherSlot'
  <2>1. \A u \in OnSlot(disk, maybe, Other) : u.txg < committed.txg
    BY <1>1 DEF UpInv, OtherSlot, Later, Careful
  <2> QED
    BY <1>1, <1>5, <2>1 DEF OtherSlot
<1>9. Kept(frontier, free, Retained)'
  BY <1>1, <1>5, <1>6 DEF Kept
<1>10. UpInv'
  BY <1>1, <1>5, <1>7, <1>8, <1>9 DEF UpInv
<1>11. DownInv' /\ FormattingInv'
  BY <1>1 DEF DownInv, FormattingInv
<1> QED
  BY <1>1, <1>3, <1>4, <1>10, <1>11 DEF EofsInv, Careful

-----------------------------------------------------------------------------
(* Formats, mounts and crashes.                                            *)

\* The election finds the valid uberblock with the highest number.
LEMMA ElectedFacts ==
    ASSUME NEW d, \A s \in Slot : d[s] \in Ubs \cup {Zero, Torn}
    PROVE  /\ (\A s \in Slot : ~Valid(d, s)) => Elected(d) = NoFs
           /\ (\E s \in Slot : Valid(d, s)) =>
                /\ Elected(d) \in Ubs /\ Elected(d) # NoFs
                /\ \E s \in Slot : /\ Valid(d, s) /\ Elected(d) = d[s]
                                   /\ \A o \in Slot : Valid(d, o) => d[o].txg <= d[s].txg
<1>1. (\A s \in Slot : ~Valid(d, s)) => Elected(d) = NoFs
  BY DEF Elected
<1>2. ASSUME \E s \in Slot : Valid(d, s)
      PROVE  \E s \in Slot : Valid(d, s) /\ \A o \in Slot : Valid(d, o) => d[o].txg <= d[s].txg
  <2>1. \A s \in Slot : Valid(d, s) => d[s].txg \in Nat
    BY EofsBounds DEF Valid, Ubs
  <2> QED
    BY <1>2, <2>1 DEF Slot
<1>3. ASSUME \E s \in Slot : Valid(d, s)
      PROVE  \E s \in Slot : /\ Valid(d, s) /\ Elected(d) = d[s]
                             /\ \A o \in Slot : Valid(d, o) => d[o].txg <= d[s].txg
  <2>1. PICK s : s = CHOOSE x \in Slot : Valid(d, x) /\ \A o \in Slot : Valid(d, o) => d[o].txg <= d[x].txg
    OBVIOUS
  <2>2. s \in Slot /\ Valid(d, s) /\ \A o \in Slot : Valid(d, o) => d[o].txg <= d[s].txg
    BY <1>2, <1>3, <2>1
  <2>3. Elected(d) = d[s]
    BY <1>3, <2>1 DEF Elected
  <2> QED
    BY <2>2, <2>3
<1> QED
  BY <1>1, <1>3, EofsMarks DEF Valid

LEMMA FormatInv ==
    ASSUME EofsInv, Format, formats = 0 \/ NoneDamaged
    PROVE  EofsInv'
<1>1. /\ TypeOK /\ Shaped /\ DownInv /\ Careful /\ phase = "down" /\ formats < MaxFormats
      /\ step = "idle" /\ step' = "idle" /\ phase' = "formatting" /\ formats' = formats + 1
      /\ committed' = [txg |-> 0, live |-> Empty, snaps |-> Empty] /\ live' = Empty /\ snaps' = Empty
      /\ frontier' = 1 /\ free' = {} /\ dirty' = TRUE /\ WriteAll([s \in Slot |-> Zero])
  BY DEF EofsInv, Format, DownInv
<1>2. formats' # 0 /\ formats' \in Nat
  BY <1>1, EofsBounds DEF Shaped
<1>3. PICK w : w = [s \in Slot |-> Zero]
  OBVIOUS
<1>4. DOMAIN w = Slot /\ (\A s \in Slot : w[s] = Zero) /\ DOMAIN w \subseteq Loc /\ WriteAll(w)
  BY <1>1, <1>3, Places
<1>5. \A s \in Slot : Matters(s) = disk[s] /\ maybe[s] = {}
  BY <1>1, Places DEF Matters, DownInv
<1>6. /\ DOMAIN disk' = Loc /\ DOMAIN maybe' = Loc
      /\ \A s \in Slot : disk'[s] = Zero /\ maybe'[s] = {disk[s]}
      /\ \A b \in Block : disk'[b] = disk[b] /\ maybe'[b] = {}
  <2>1. \A b \in Block : b \in Loc \ DOMAIN w /\ maybe[b] = {}
    BY <1>1, <1>4, Places DEF DownInv
  <2> QED
    BY <1>4, <1>5, <2>1, WriteFacts
<1>7. \A s \in Slot : OnSlot(disk', maybe', s) \subseteq OnSlot(disk, maybe, s)
  BY <1>6 DEF OnSlot
<1>8. TypeOK'
  BY <1>1, <1>6, EofsBounds DEF TypeOK
<1>9. Shaped'
  <2>1. committed' \in [txg : 0 .. MaxTxg, live : TreeRefs, snaps : TableRefs] /\ live' \in TreeRefs /\ snaps' \in TableRefs
    BY <1>1, EofsBounds DEF TreeRefs, TableRefs
  <2>2. \A s \in Slot : disk'[s] \in Ubs \cup {Zero, Torn} /\ maybe'[s] \subseteq Ubs \cup {Zero, Torn}
    BY <1>1, <1>6 DEF Shaped
  <2> QED
    BY <1>1, <1>2, <1>7, <2>1, <2>2 DEF Shaped
<1>10. \A s \in Slot : \A u \in OnSlot(disk', maybe', s) : Whole(disk', UbPtrs(u))
  <2> SUFFICES ASSUME NEW s \in Slot, NEW u \in OnSlot(disk, maybe, s) PROVE Whole(disk', UbPtrs(u))
    BY <1>7
  <2>1. u = disk[s] /\ Valid(disk, s) /\ u \in Ubs
    BY <1>1, <1>5 DEF OnSlot, Valid, Shaped
  <2>2. CASE formats = 0
    <3>1. s = SlotOf(MaxTxg) /\ \A o \in Slot : Valid(disk, o) => o = SlotOf(MaxTxg)
      BY <1>1, <1>5, <2>1, <2>2 DEF OnSlot, Valid, DownInv, Shaped
    <3>2. Elected(disk) = u /\ Elected(disk) # NoFs
      BY <1>1, <2>1, <3>1, ElectedFacts DEF Shaped
    <3> QED
      BY <1>1, <3>2, <1>6, <2>1, UbBlocks DEF DownInv, MountsIntact, Intact, Whole
  <2>3. CASE NoneDamaged
    <3>1. Intact(UbPtrs(u))
      BY <2>1, <2>3 DEF NoneDamaged
    <3> QED
      BY <1>6, <2>1, <3>1, UbBlocks DEF Intact, Whole
  <2> QED
    BY <2>2, <2>3
<1>11. FormattingInv'
  <2>1. SlotOf(0) \in Slot /\ SlotOf(1) \in Slot
    BY SlotFacts, 0 + 1 = 1
  <2> QED
    BY <1>1, <1>2, <1>6, <1>10, <2>1 DEF FormattingInv
<1>12. UpInv' /\ DownInv'
  BY <1>1 DEF UpInv, DownInv
<1> QED
  BY <1>1, <1>8, <1>9, <1>11, <1>12 DEF EofsInv, Careful

LEMMA MountInv ==
    ASSUME EofsInv, Mount
    PROVE  EofsInv'
<1>1. PICK ub : ub = Elected(disk)
  OBVIOUS
<1>2. /\ TypeOK /\ Shaped /\ DownInv /\ Careful /\ phase = "down" /\ phase' = "up" /\ ub # NoFs
      /\ step = "idle" /\ step' = "idle" /\ UNCHANGED <<disk, maybe, formats>>
      /\ committed' = [txg |-> ub.txg, live |-> ub.live, snaps |-> ub.snaps]
      /\ live' = ub.live /\ snaps' = ub.snaps /\ frontier' = ub.frontier /\ free' = {} /\ dirty' = FALSE
  BY <1>1 DEF EofsInv, Mount, DownInv, devVars
<1>3. PICK s \in Slot : /\ Valid(disk, s) /\ ub = disk[s] /\ ub \in Ubs
                        /\ \A o \in Slot : Valid(disk, o) => disk[o].txg <= ub.txg
  BY <1>1, <1>2, ElectedFacts DEF Shaped
<1>4. /\ ub.txg \in 0 .. MaxTxg /\ ub.frontier \in 1 .. (NBlocks + 1) /\ ub.live \in TreeRefs /\ ub.snaps \in TableRefs
  BY <1>3 DEF Ubs
<1>5. ub \in OnSlot(disk, maybe, s) /\ s = SlotOf(ub.txg) /\ Below(ub.frontier, UbPtrs(ub))
  BY <1>2, <1>3 DEF OnSlot, Valid, Shaped
<1>6. Whole(disk, UbPtrs(ub))
  BY <1>1, <1>2 DEF DownInv, MountsIntact, Intact, Whole
<1>7. TypeOK'
  BY <1>2, <1>4 DEF TypeOK
<1>8. Shaped'
  <2>1. committed' \in [txg : 0 .. MaxTxg, live : TreeRefs, snaps : TableRefs]
    BY <1>2, <1>4
  <2> QED
    BY <1>2, <1>4, <2>1 DEF Shaped
<1>9. /\ This' = s /\ Other' = SlotOf(ub.txg + 1) /\ Other' \in Slot /\ Other' # s
  BY <1>2, <1>4, <1>5, SlotFacts, EofsBounds DEF This, Other
<1>10. UpInv'
  <2>1. Retained' = UbPtrs(ub) /\ CommittedPtrs' = UbPtrs(ub)
    BY <1>2 DEF Retained, CommittedPtrs, UbPtrs
  <2>2. Whole(disk, Retained)' /\ Kept(frontier, free, Retained)'
    BY <1>2, <1>5, <1>6, <2>1 DEF Whole, Kept, Below
  <2>3. Settled(maybe, CommittedPtrs)'
    BY <1>2, <1>3, <2>1, UbBlocks, Places DEF Settled, DownInv
  <2>4. ThisSlot'
    <3>1. maybe[s] = {}
      BY <1>2, Places DEF DownInv
    <3>2. ub.frontier <= ub.frontier
      BY <1>4, EofsBounds
    <3> QED
      BY <1>2, <1>3, <1>9, <3>1, <3>2 DEF ThisSlot
  <2>5. \A u \in OnSlot(disk, maybe, Other') : u = disk[Other'] /\ Valid(disk, Other') /\ u.txg # ub.txg /\ u \in Ubs
    <3>1. maybe[Other'] = {}
      BY <1>2, <1>9, Places DEF DownInv
    <3> QED
      BY <1>2, <1>5, <1>9, <3>1 DEF OnSlot, Valid, Shaped
  <2>6. \A u \in OnSlot(disk, maybe, Other') : u.txg < ub.txg
    <3>1. \A u \in OnSlot(disk, maybe, Other') : u.txg <= ub.txg /\ u.txg # ub.txg /\ u.txg \in Nat
      BY <1>3, <1>9, <2>5, EofsBounds DEF Ubs
    <3>2. ub.txg \in Nat
      BY <1>4, EofsBounds
    <3> QED
      BY <3>1, <3>2
  <2>7. OtherSlot'
    BY <1>2, <2>6 DEF OtherSlot
  <2>8. formats = 0 => ub.txg = MaxTxg /\ OnSlot(disk, maybe, Other') = {}
    BY <1>2, <1>5, <1>9, <2>5 DEF DownInv
  <2> QED
    BY <1>2, <2>2, <2>3, <2>4, <2>7, <2>8 DEF UpInv
<1>11. DownInv' /\ FormattingInv'
  BY <1>2 DEF DownInv, FormattingInv
<1> QED
  BY <1>2, <1>7, <1>8, <1>10, <1>11 DEF EofsInv, Careful

\* What a crash does to slots and blocks.
LEMMA CrashFacts ==
    ASSUME EofsInv, Crash
    PROVE  /\ DOMAIN disk' = Loc /\ maybe' = [l \in Loc |-> {}]
           /\ \A s \in Slot : /\ disk'[s] \in {disk[s], Torn} \cup maybe[s]
                              /\ maybe[s] = {} => disk'[s] = disk[s]
                              /\ OnSlot(disk', maybe', s) = {disk'[s]} \ {Zero, Torn}
                              /\ OnSlot(disk', maybe', s) \subseteq OnSlot(disk, maybe, s)
           /\ \A s \in Slot : Valid(disk', s) =>
                \A p \in UbPtrs(disk'[s]) : p.addr \in Block /\ maybe[p.addr] = {} => disk'[p.addr] = disk[p.addr]
<1>1. PICK ubs \in Left(Slot) : \E blocks \in Left(Reachable(ubs)) :
        disk' = [l \in Loc |-> IF l \in Slot THEN ubs[l]
                               ELSE IF l \in DOMAIN blocks THEN blocks[l] ELSE Torn]
  BY DEF Crash
<1>2. PICK blocks \in Left(Reachable(ubs)) :
        disk' = [l \in Loc |-> IF l \in Slot THEN ubs[l]
                               ELSE IF l \in DOMAIN blocks THEN blocks[l] ELSE Torn]
  BY <1>1
<1>3. /\ \A s \in Slot : ubs[s] \in After(s)
      /\ DOMAIN blocks = Reachable(ubs) /\ \A l \in Reachable(ubs) : blocks[l] \in After(l)
  BY <1>1, <1>2 DEF Left
<1>4. maybe' = [l \in Loc |-> {}] /\ DOMAIN disk' = Loc
  BY <1>2 DEF Crash, Flush
<1>5. \A s \in Slot : disk'[s] = ubs[s] /\ maybe'[s] = {}
  BY <1>2, <1>4, Places
<1>6. \A s \in Slot : /\ disk'[s] \in {disk[s], Torn} \cup maybe[s]
                      /\ maybe[s] = {} => disk'[s] = disk[s]
  BY <1>3, <1>5 DEF After
<1>7. \A s \in Slot : /\ OnSlot(disk', maybe', s) = {disk'[s]} \ {Zero, Torn}
                      /\ OnSlot(disk', maybe', s) \subseteq OnSlot(disk, maybe, s)
  BY <1>5, <1>6 DEF OnSlot
<1>8. ASSUME NEW s \in Slot, Valid(disk', s), NEW p \in UbPtrs(disk'[s]), p.addr \in Block, maybe[p.addr] = {}
      PROVE  disk'[p.addr] = disk[p.addr]
  <2>1. Valid(ubs, s) /\ p \in UbPtrs(ubs[s])
    BY <1>5, <1>8 DEF Valid
  <2>2. p.addr \in Reachable(ubs)
    BY <2>1 DEF Reachable
  <2>3. disk'[p.addr] = blocks[p.addr]
    BY <1>2, <1>3, <1>8, <2>2, Places
  <2> QED
    BY <1>3, <1>8, <2>2, <2>3 DEF After
<1> QED
  BY <1>4, <1>6, <1>7, <1>8

\* After a crash of a mounted filesystem its root is elected, or that of a
\* later commit, with a tree that was as safe.
LEMMA CrashElects ==
    ASSUME EofsInv, Crash, phase = "up"
    PROVE  /\ Elected(disk') # NoFs
           /\ \E s \in Slot : /\ Valid(disk', s) /\ Elected(disk') = disk'[s]
                              /\ \/ disk'[s] = disk[This]
                                 \/ disk'[s] \in Ubs /\ Later(disk'[s])
<1>1. TypeOK /\ Shaped /\ UpInv
  BY DEF EofsInv
<1>2. /\ committed.txg \in Nat /\ This \in Slot /\ Other \in Slot /\ \A s \in Slot : s = This \/ s = Other
  BY <1>1, SlotFacts, EofsBounds DEF This, Other, TypeOK
<1>3. disk'[This] = disk[This] /\ Valid(disk', This) /\ disk[This] \in Ubs /\ disk[This].txg = committed.txg
  BY <1>1, <1>2, CrashFacts, EofsMarks DEF UpInv, ThisSlot, Valid
<1>4. \A s \in Slot : disk'[s] \in Ubs \cup {Zero, Torn}
  BY <1>1, CrashFacts DEF Shaped
<1>5. PICK s \in Slot : /\ Valid(disk', s) /\ Elected(disk') = disk'[s]
                        /\ \A o \in Slot : Valid(disk', o) => disk'[o].txg <= disk'[s].txg
  BY <1>2, <1>3, <1>4, ElectedFacts
<1>6. Elected(disk') # NoFs
  BY <1>2, <1>3, <1>4, ElectedFacts
<1>7. CASE s = This
  BY <1>3, <1>5, <1>6, <1>7
<1>8. CASE s = Other
  <2>1. disk'[s] \in OnSlot(disk, maybe, Other) /\ disk'[s] \in Ubs
    BY <1>2, <1>4, <1>5, <1>8, CrashFacts DEF Valid
  <2>2. disk'[s].txg < committed.txg \/ Later(disk'[s])
    BY <1>1, <2>1 DEF UpInv, OtherSlot
  <2>3. committed.txg <= disk'[s].txg /\ disk'[s].txg \in Nat
    BY <1>2, <1>3, <1>5, <2>1, EofsBounds DEF Ubs
  <2>4. Later(disk'[s])
    BY <1>2, <2>2, <2>3
  <2> QED
    BY <1>5, <1>6, <2>1, <2>4
<1> QED
  BY <1>2, <1>7, <1>8

LEMMA CrashInv ==
    ASSUME EofsInv, Crash
    PROVE  EofsInv'
<1>1. /\ TypeOK /\ Shaped /\ UpInv /\ FormattingInv /\ Careful /\ phase # "down"
      /\ phase' = "down" /\ step' = "idle" /\ formats' = formats
      /\ committed' = [txg |-> 0, live |-> Empty, snaps |-> Empty] /\ live' = Empty /\ snaps' = Empty
      /\ frontier' = 1 /\ free' = {} /\ dirty' = FALSE
  BY DEF EofsInv, Crash
<1>2. TypeOK'
  <2>1. DOMAIN disk' = Loc /\ DOMAIN maybe' = Loc
    BY CrashFacts
  <2>2. committed'.txg \in 0 .. MaxTxg
    <3>1. committed'.txg = 0
      BY <1>1
    <3> QED
      BY <3>1, EofsBounds
  <2>3. dirty' \in BOOLEAN
    BY <1>1, Zenon
  <2>4. frontier' \in 1 .. (NBlocks + 1) /\ free' \subseteq Block
    BY <1>1, EofsBounds
  <2>5. phase' \in {"down", "formatting", "up"} /\ step' \in {"idle", "flushed", "written"}
    BY <1>1
  <2> QED
    BY <2>1, <2>2, <2>3, <2>4, <2>5, Zenon DEF TypeOK
<1>3. Shaped'
  <2>1. committed' \in [txg : 0 .. MaxTxg, live : TreeRefs, snaps : TableRefs] /\ live' \in TreeRefs /\ snaps' \in TableRefs
    BY <1>1, EofsBounds DEF TreeRefs, TableRefs
  <2>2. \A s \in Slot : disk'[s] \in Ubs \cup {Zero, Torn} /\ maybe'[s] \subseteq Ubs \cup {Zero, Torn}
    BY <1>1, CrashFacts, Places DEF Shaped
  <2>3. \A s \in Slot : \A u \in OnSlot(disk', maybe', s) : s = SlotOf(u.txg) /\ Below(u.frontier, UbPtrs(u))
    BY <1>1, CrashFacts DEF Shaped
  <2> QED
    BY <1>1, <2>1, <2>2, <2>3 DEF Shaped
<1>4. ASSUME NEW s \in Slot, Valid(disk', s), disk'[s] \in Ubs,
             Whole(disk, UbPtrs(disk'[s])), Settled(maybe, UbPtrs(disk'[s]))
      PROVE  Whole(disk', UbPtrs(disk'[s]))
  <2>1. \A p \in UbPtrs(disk'[s]) : p.addr \in Block /\ maybe[p.addr] = {}
    BY <1>4, UbBlocks DEF Settled
  <2>2. \A p \in UbPtrs(disk'[s]) : disk'[p.addr] = disk[p.addr]
    BY <1>4, <2>1, CrashFacts
  <2> QED
    BY <1>4, <2>2 DEF Whole
<1>5. ASSUME Elected(disk') # NoFs PROVE Whole(disk', UbPtrs(Elected(disk')))
  <2>1. CASE phase = "up"
    <3>1. PICK s \in Slot : /\ Valid(disk', s) /\ Elected(disk') = disk'[s]
                            /\ disk'[s] = disk[This] \/ (disk'[s] \in Ubs /\ Later(disk'[s]))
      BY <2>1, CrashElects
    <3>2. CASE disk'[s] = disk[This]
      <4>1. disk[This] \in Ubs /\ UbPtrs(disk[This]) = CommittedPtrs
        BY <1>1, <2>1 DEF UpInv, ThisSlot, UbPtrs, CommittedPtrs
      <4>2. Whole(disk, CommittedPtrs) /\ Settled(maybe, CommittedPtrs)
        BY <1>1, <2>1 DEF UpInv, CommittedPtrs, Retained, Whole
      <4> QED
        BY <1>4, <3>1, <3>2, <4>1, <4>2
    <3>3. CASE disk'[s] \in Ubs /\ Later(disk'[s])
      BY <1>4, <3>1, <3>3 DEF Later
    <3> QED
      BY <3>1, <3>2, <3>3
  <2>2. CASE phase = "formatting"
    <3>1. PICK s \in Slot : Valid(disk', s) /\ Elected(disk') = disk'[s] /\ disk'[s] \in Ubs
      <4>1. \A s \in Slot : disk'[s] \in Ubs \cup {Zero, Torn}
        BY <1>3 DEF Shaped
      <4> QED
        BY <1>5, <4>1, ElectedFacts
    <3>2. disk'[s] \in OnSlot(disk, maybe, s)
      BY <3>1, CrashFacts DEF Valid
    <3>3. Whole(disk, UbPtrs(disk'[s])) /\ Settled(maybe, UbPtrs(disk'[s]))
      BY <1>1, <2>2, <3>1, <3>2, UbBlocks DEF FormattingInv, Settled
    <3> QED
      BY <1>4, <3>1, <3>3
  <2> QED
    BY <1>1, <2>1, <2>2 DEF TypeOK
<1>6. formats = 0 => \A s \in Slot : \A u \in OnSlot(disk', maybe', s) : u.txg = MaxTxg
  <2> SUFFICES ASSUME formats = 0, NEW s \in Slot, NEW u \in OnSlot(disk', maybe', s) PROVE u.txg = MaxTxg
    OBVIOUS
  <2>1. phase = "up"
    BY <1>1 DEF TypeOK, FormattingInv
  <2>2. u \in OnSlot(disk, maybe, s) /\ committed.txg = MaxTxg /\ OnSlot(disk, maybe, Other) = {}
    BY <1>1, <2>1, CrashFacts DEF UpInv
  <2>3. s = This
    BY <1>1, <2>2, SlotFacts, EofsBounds DEF This, Other, TypeOK
  <2> QED
    BY <1>1, <2>1, <2>2, <2>3 DEF UpInv, ThisSlot, OnSlot
<1>7. DownInv'
  <2>1. \A l \in Loc : maybe'[l] = {}
    BY CrashFacts
  <2>2. MountsIntact'
    BY <1>5 DEF MountsIntact, Intact, Whole
  <2> QED
    BY <1>1, <1>6, <2>1, <2>2 DEF DownInv
<1>8. UpInv' /\ FormattingInv'
  BY <1>1 DEF UpInv, FormattingInv
<1> QED
  BY <1>1, <1>2, <1>3, <1>7, <1>8 DEF EofsInv, Careful

-----------------------------------------------------------------------------
(* The theorems.                                                           *)

\* The image a device may come with is whole.
LEMMA OldImageFacts ==
    ASSUME NEW ub, ub = StaleUb(MaxTxg)
    PROVE  /\ ub \in Ubs /\ ub.txg = MaxTxg /\ ub.frontier = 3
           /\ \A p \in UbPtrs(ub) : \/ p.addr = 1 /\ p.hash = ub.live.hash
                                    \/ p.addr = 2 /\ p.hash = FileBlock(CHOOSE v \in Values : TRUE)
<1>1. PICK v \in Values : v = CHOOSE x \in Values : TRUE
  BY EofsMarks
<1>2. 1 \in Block /\ 2 \in Block /\ MaxTxg \in 0 .. MaxTxg /\ 3 \in 1 .. (NBlocks + 1)
  BY EofsBounds DEF Block
<1>3. PICK f : f = Ref(2, FileBlock(v))
  OBVIOUS
<1>4. PICK d : d = [n \in Names |-> f]
  OBVIOUS
<1>5. f \in FileRefs /\ f.addr = 2 /\ f.hash = FileBlock(v)
  BY <1>1, <1>2, <1>3 DEF Ref, FileBlock, FileRefs
<1>6. d \in [Names -> FileRefs \cup {Absent, Empty}] /\ \A n \in Names : d[n] = f
  BY <1>4, <1>5
<1>7. ub = [txg |-> MaxTxg, frontier |-> 3, snaps |-> Empty, live |-> Ref(1, DirBlock(d))]
  BY <1>1, <1>3, <1>4 DEF StaleUb
<1>8. ub.txg = MaxTxg /\ ub.frontier = 3 /\ ub.snaps = Empty /\ ub.live = Ref(1, DirBlock(d))
  BY <1>7
<1>9. ub.live \in TreeRefs /\ ub.snaps \in TableRefs
  BY <1>2, <1>6, <1>8, NewTree DEF TreeRefs, TableRefs
<1>10. ub \in Ubs
  BY <1>2, <1>7, <1>8, <1>9 DEF Ubs
<1>11. ASSUME NEW p \in UbPtrs(ub)
       PROVE  (p.addr = 1 /\ p.hash = ub.live.hash) \/ (p.addr = 2 /\ p.hash = FileBlock(v))
  <2>1. p \in TreePtrs(Ref(1, DirBlock(d)))
    BY <1>8, <1>11, EmptyPtrs DEF UbPtrs
  <2>2. p = Ref(1, DirBlock(d)) \/ \E n \in Names : p \in ObjPtrs(d[n])
    BY <1>2, <1>6, <2>1, NewTree
  <2>3. p = Ref(1, DirBlock(d)) \/ p = f
    BY <1>6, <2>2 DEF ObjPtrs
  <2> QED
    BY <1>2, <1>5, <1>6, <1>8, <2>3, NewTree
<1> QED
  BY <1>1, <1>8, <1>10, <1>11

LEMMA InitInv ==
    ASSUME Init, Careful
    PROVE  EofsInv
<1>1. PICK old \in {Zero, StaleUb(MaxTxg)} :
         disk = [l \in Loc |-> IF l \in Slot
                               THEN IF l = SlotOf(MaxTxg) THEN old ELSE Zero
                               ELSE IF old = Zero THEN Torn
                               ELSE IF l = 1 THEN old.live.hash
                               ELSE FileBlock(CHOOSE v \in Values : TRUE)]
  BY DEF Init
<1>2. /\ maybe = [l \in Loc |-> {}] /\ phase = "down" /\ step = "idle"
      /\ committed = [txg |-> 0, live |-> Empty, snaps |-> Empty] /\ live = Empty /\ snaps = Empty
      /\ frontier = 1 /\ free = {} /\ dirty = FALSE /\ formats = 0
  BY DEF Init
<1>3. \A s \in Slot : maybe[s] = {} /\ disk[s] = IF s = SlotOf(MaxTxg) THEN old ELSE Zero
  BY <1>1, <1>2, Places
<1>4. \A s \in Slot : disk[s] \in Ubs \cup {Zero, Torn}
  BY <1>3, OldImageFacts
<1>5. ASSUME NEW s \in Slot, NEW u \in OnSlot(disk, maybe, s)
      PROVE  /\ u = disk[s] /\ u = old /\ old = StaleUb(MaxTxg) /\ old # Zero /\ s = SlotOf(MaxTxg)
             /\ u.txg = MaxTxg /\ Below(u.frontier, UbPtrs(u)) /\ Whole(disk, UbPtrs(u))
  <2>1. u = disk[s] /\ u # Zero
    BY <1>3, <1>5 DEF OnSlot
  <2>2. u = old /\ s = SlotOf(MaxTxg) /\ old # Zero /\ old = StaleUb(MaxTxg)
    BY <1>3, <2>1
  <2>3. u.txg = MaxTxg /\ u.frontier = 3
    BY <2>2, OldImageFacts
  <2>4. \A p \in UbPtrs(u) : \/ p.addr = 1 /\ p.hash = old.live.hash
                             \/ p.addr = 2 /\ p.hash = FileBlock(CHOOSE v \in Values : TRUE)
    BY <2>2, OldImageFacts
  <2>5. 1 \in Block /\ 2 \in Block
    BY EofsBounds DEF Block
  <2>6. disk[1] = old.live.hash /\ disk[2] = FileBlock(CHOOSE v \in Values : TRUE)
    BY <1>1, <2>2, <2>5, Places
  <2>7. Whole(disk, UbPtrs(u))
    BY <2>4, <2>6 DEF Whole
  <2>8. Below(u.frontier, UbPtrs(u))
    BY <2>3, <2>4 DEF Below
  <2> QED
    BY <2>1, <2>2, <2>3, <2>7, <2>8
<1>6. TypeOK
  <2>1. DOMAIN disk = Loc /\ DOMAIN maybe = Loc
    BY <1>1, <1>2
  <2>2. committed.txg \in 0 .. MaxTxg
    BY <1>2, EofsBounds
  <2>3. dirty \in BOOLEAN
    BY <1>2, Zenon
  <2>4. frontier \in 1 .. (NBlocks + 1) /\ free \subseteq Block
    BY <1>2, EofsBounds
  <2>5. phase \in {"down", "formatting", "up"} /\ step \in {"idle", "flushed", "written"}
    BY <1>2
  <2> QED
    BY <2>1, <2>2, <2>3, <2>4, <2>5, Zenon DEF TypeOK
<1>7. Shaped
  <2>1. committed \in [txg : 0 .. MaxTxg, live : TreeRefs, snaps : TableRefs] /\ live \in TreeRefs /\ snaps \in TableRefs
    BY <1>2, EofsBounds DEF TreeRefs, TableRefs
  <2>2. \A s \in Slot : /\ disk[s] \in Ubs \cup {Zero, Torn} /\ maybe[s] \subseteq Ubs \cup {Zero, Torn}
                        /\ \A u \in OnSlot(disk, maybe, s) : s = SlotOf(u.txg) /\ Below(u.frontier, UbPtrs(u))
    BY <1>3, <1>4, <1>5
  <2> QED
    BY <1>2, <2>1, <2>2 DEF Shaped
<1>8. DownInv
  <2>1. MountsIntact
    <3> SUFFICES ASSUME Elected(disk) # NoFs PROVE Whole(disk, UbPtrs(Elected(disk)))
      BY DEF MountsIntact, Intact, Whole
    <3>1. PICK s \in Slot : Valid(disk, s) /\ Elected(disk) = disk[s]
      BY <1>4, ElectedFacts
    <3>2. disk[s] \in OnSlot(disk, maybe, s)
      BY <3>1 DEF OnSlot, Valid
    <3> QED
      BY <1>5, <3>1, <3>2
  <2> QED
    BY <1>2, <1>5, <2>1 DEF DownInv
<1>9. UpInv /\ FormattingInv
  BY <1>2 DEF UpInv, FormattingInv
<1> QED
  BY <1>6, <1>7, <1>8, <1>9 DEF EofsInv

LEMMA NextInv ==
    ASSUME EofsInv, [Next]_vars, [Format => formats = 0 \/ NoneDamaged]_vars
    PROVE  EofsInv'
<1>1. CASE UNCHANGED vars
  <2>1. /\ UNCHANGED disk /\ UNCHANGED maybe /\ UNCHANGED committed /\ UNCHANGED live /\ UNCHANGED snaps
        /\ UNCHANGED dirty /\ UNCHANGED frontier /\ UNCHANGED free /\ UNCHANGED phase /\ UNCHANGED step
        /\ UNCHANGED formats
    BY <1>1 DEF vars, devVars, rootVars, allocVars
  <2>2. (TypeOK <=> TypeOK') /\ (Shaped <=> Shaped')
    BY <2>1 DEF TypeOK, Shaped
  <2>3. DownInv <=> DownInv'
    BY <2>1 DEF DownInv, MountsIntact, Intact
  <2>4. FormattingInv <=> FormattingInv'
    BY <2>1 DEF FormattingInv, NextUb
  <2>5. UpInv <=> UpInv'
    BY <2>1 DEF UpInv, ThisSlot, OtherSlot, Later, NextUb, This, Other, CommittedPtrs, Retained
  <2> QED
    BY <2>2, <2>3, <2>4, <2>5 DEF EofsInv, Careful
<1>2. CASE \E n \in Names : CreateFile(n) \/ Remove(n) \/ (\E v \in Values : Write(n, v))
  BY <1>2, CreateFileInv, RemoveInv, WriteInv
<1>3. CASE \E s \in SnapNames : SnapshotCreate(s)
  BY <1>3, SnapshotCreateInv
<1>4. CASE OpFails \/ Rollback \/ Gc
  BY <1>4, OpFailsInv, RollbackInv, GcInv
<1>5. CASE CommitFlush \/ CommitWriteSlot \/ CommitEnd
  BY <1>5, CommitFlushInv, CommitWriteSlotInv, CommitEndInv
<1>6. CASE CommitFailsEarly \/ CommitFailsLate
  BY <1>6, CommitFailsInv
<1>7. CASE Format \/ Mount \/ Crash
  <2>1. CASE UNCHANGED vars
    BY <1>1, <2>1
  <2>2. CASE ~UNCHANGED vars
    BY <1>7, <2>2, FormatInv, MountInv, CrashInv
  <2> QED
    BY <2>1, <2>2
<1> QED
  BY <1>1, <1>2, <1>3, <1>4, <1>5, <1>6, <1>7 DEF Next

\* What every reachable state of the engine satisfies: the slots, the trees
\* they and the roots in memory reach, and the allocator fit together.
THEOREM EofsInvariant == Careful /\ Spec /\ FormatsNoneDamaged => []EofsInv
<1>1. Careful /\ Init => EofsInv
  BY InitInv
<1>2. EofsInv /\ [Next]_vars /\ [Format => formats = 0 \/ NoneDamaged]_vars => EofsInv'
  BY NextInv
<1> QED
  BY <1>1, <1>2, PTL DEF Spec, FormatsNoneDamaged

\* TypeOK: every address the allocator hands out or keeps is on the device,
\* and transaction numbers stay in range.
THEOREM EofsTypeCorrect == Careful /\ Spec /\ FormatsNoneDamaged => []TypeOK
<1>1. EofsInv => TypeOK
  BY DEF EofsInv
<1> QED
  BY <1>1, EofsInvariant, PTL

\* TreesIntact: nothing the committed or the pending roots reach is ever
\* overwritten or handed out again (space.rs, fs.rs gc), and the tree that
\* mount_with_report elects after any crash is whole.
THEOREM TreesStayIntact == Careful /\ Spec /\ FormatsNoneDamaged => []TreesIntact
<1>1. EofsInv => TreesIntact
  <2> SUFFICES ASSUME EofsInv PROVE TreesIntact
    OBVIOUS
  <2>1. RootsIntact
    <3> SUFFICES ASSUME phase = "up"
                 PROVE  Intact(Retained) /\ \A p \in Retained : p.addr \notin free /\ p.addr < frontier
      BY DEF RootsIntact
    <3>1. Whole(disk, Retained) /\ Kept(frontier, free, Retained)
      BY DEF EofsInv, UpInv
    <3> QED
      BY <3>1 DEF Whole, Kept, Intact
  <2>2. MountsIntact
    <3>1. CASE phase = "down"
      BY <3>1 DEF EofsInv, DownInv
    <3>2. CASE phase # "down"
      BY <3>2 DEF MountsIntact
    <3> QED
      BY <3>1, <3>2
  <2> QED
    BY <2>1, <2>2 DEF TreesIntact
<1> QED
  BY <1>1, EofsInvariant, PTL

\* AcknowledgedSurvives: a crash of a mounted filesystem loses no commit that
\* returned; what the next mount elects is its root or that of the one commit
\* that was under way or failed late.
THEOREM AcknowledgedStays == Careful /\ Spec /\ FormatsNoneDamaged => AcknowledgedSurvives
<1> DEFINE Keeps == (phase = "up" /\ phase' = "down") =>
         /\ Elected(disk') # NoFs
         /\ Elected(disk').txg >= committed.txg
         /\ Elected(disk').txg = committed.txg =>
              Elected(disk').live = committed.live /\ Elected(disk').snaps = committed.snaps
<1>1. EofsInv /\ [Next]_vars => [Keeps]_vars
  <2> SUFFICES ASSUME EofsInv, [Next]_vars, phase = "up", phase' = "down"
               PROVE  /\ Elected(disk') # NoFs
                      /\ Elected(disk').txg >= committed.txg
                      /\ Elected(disk').txg = committed.txg =>
                           Elected(disk').live = committed.live /\ Elected(disk').snaps = committed.snaps
    OBVIOUS
  <2>1. Crash
    BY DEF Next, vars, devVars, rootVars, allocVars, Format, Mount, CreateFile, Remove, Write, NewDir,
       SnapshotCreate, OpFails, Unfinished, CommitFlush, CommitWriteSlot, CommitEnd, CommitFailsEarly,
       CommitFailsLate, Rollback, Gc
  <2>2. TypeOK /\ Shaped /\ UpInv
    BY DEF EofsInv
  <2>3. committed.txg \in Nat
    BY <2>2, EofsBounds DEF TypeOK
  <2>4. PICK s \in Slot : /\ Valid(disk', s) /\ Elected(disk') = disk'[s]
                          /\ disk'[s] = disk[This] \/ (disk'[s] \in Ubs /\ Later(disk'[s]))
    BY <2>1, CrashElects
  <2>5. Elected(disk') # NoFs
    BY <2>1, CrashElects
  <2>6. CASE disk'[s] = disk[This]
    BY <2>2, <2>3, <2>4, <2>5, <2>6 DEF UpInv, ThisSlot
  <2>7. CASE disk'[s] \in Ubs /\ Later(disk'[s])
    <3>1. disk'[s].txg = committed.txg + 1
      BY <2>7 DEF Later
    <3> QED
      BY <2>3, <2>4, <2>5, <3>1
  <2> QED
    BY <2>4, <2>6, <2>7
<1>2. Spec => [][Next]_vars
  BY PTL DEF Spec
<1>3. Careful /\ Spec /\ FormatsNoneDamaged => [][Keeps]_vars
  BY <1>1, <1>2, EofsInvariant, PTL
<1> QED
  BY <1>3 DEF AcknowledgedSurvives

-----------------------------------------------------------------------------
(* The engine implements the transactional filesystem.                     *)

\* Until a format has completed, nothing but the older image and the first
\* root of the format itself can be found in the slots.
OldInv ==
    (formats = 0 \/ phase = "formatting") =>
        \A s \in Slot : \A u \in OnSlot(disk, maybe, s) :
            u = StaleUb(MaxTxg) \/ (phase = "formatting" /\ step = "written" /\ u = NextUb)

\* Calls between two commits leave the slots alone.
SlotsStay == \A s \in Slot : disk'[s] = disk[s] /\ maybe'[s] = maybe[s]

LEMMA BlockWrite ==
    ASSUME NEW w, DOMAIN w \subseteq Block, WriteAll(w)
    PROVE  SlotsStay
<1>1. DOMAIN w \subseteq Loc /\ \A s \in Slot : s \in Loc \ DOMAIN w
  BY Places
<1> QED
  BY <1>1, WriteFacts DEF SlotsStay

LEMMA OpsKeepSlots ==
    ASSUME EofsInv,
           \/ \E n \in Names : CreateFile(n) \/ Remove(n) \/ (\E v \in Values : Write(n, v))
           \/ \E s \in SnapNames : SnapshotCreate(s)
           \/ OpFails \/ Rollback \/ Gc
    PROVE  SlotsStay /\ phase = "up" /\ step = "idle" /\ UNCHANGED <<committed, phase, step, formats>>
<1>1. ASSUME NEW d, Ready, NewDir(d)
      PROVE  SlotsStay /\ phase = "up" /\ step = "idle" /\ UNCHANGED <<committed, phase, step, formats>>
  <2>1. CASE d = NoEntries
    BY <1>1, <2>1 DEF NewDir, Ready, SlotsStay, devVars
  <2>2. CASE d # NoEntries
    <3>1. PICK w : w = [b \in {Addr1} |-> DirBlock(d)]
      OBVIOUS
    <3>2. WriteAll(w) /\ Room1
      BY <1>1, <2>2, <3>1 DEF NewDir
    <3>3. DOMAIN w \subseteq Block
      BY <3>1, <3>2, FirstBlock
    <3> QED
      BY <1>1, <3>2, <3>3, BlockWrite DEF NewDir, Ready
  <2> QED
    BY <2>1, <2>2
<1>2. ASSUME NEW n \in Names, CreateFile(n) \/ Remove(n)
      PROVE  SlotsStay /\ phase = "up" /\ step = "idle" /\ UNCHANGED <<committed, phase, step, formats>>
  BY <1>1, <1>2 DEF CreateFile, Remove
<1>3. ASSUME NEW n \in Names, NEW v \in Values, Write(n, v)
      PROVE  SlotsStay /\ phase = "up" /\ step = "idle" /\ UNCHANGED <<committed, phase, step, formats>>
  <2>1. PICK dir : dir = DirBlock([Entries(live) EXCEPT ![n] = Ref(Addr1, FileBlock(v))])
    OBVIOUS
  <2>2. PICK w : w = [b \in {Addr1, Addr2} |-> IF b = Addr1 THEN FileBlock(v) ELSE dir]
    OBVIOUS
  <2>3. WriteAll(w) /\ Room2 /\ Room1
    BY <1>3, <2>1, <2>2 DEF Write, Room2
  <2>4. DOMAIN w \subseteq Block
    BY <2>2, <2>3, FirstBlock, SecondBlock
  <2> QED
    BY <1>3, <2>3, <2>4, BlockWrite DEF Write, Ready
<1>4. ASSUME NEW s \in SnapNames, SnapshotCreate(s)
      PROVE  SlotsStay /\ phase = "up" /\ step = "idle" /\ UNCHANGED <<committed, phase, step, formats>>
  <2>1. PICK table : table = SnapBlock([Table(snaps) EXCEPT ![s] = live])
    OBVIOUS
  <2>2. PICK w : w = [b \in {Addr1} |-> table]
    OBVIOUS
  <2>3. WriteAll(w) /\ Room1
    BY <1>4, <2>1, <2>2 DEF SnapshotCreate
  <2>4. DOMAIN w \subseteq Block
    BY <2>2, <2>3, FirstBlock
  <2> QED
    BY <1>4, <2>3, <2>4, BlockWrite DEF SnapshotCreate, Ready
<1>5. ASSUME OpFails
      PROVE  SlotsStay /\ phase = "up" /\ step = "idle" /\ UNCHANGED <<committed, phase, step, formats>>
  <2>1. CASE Room1 /\ WriteAll([b \in {Addr1} |-> Torn])
    <3>1. PICK w : w = [b \in {Addr1} |-> Torn]
      OBVIOUS
    <3>2. WriteAll(w) /\ DOMAIN w \subseteq Block
      BY <2>1, <3>1, FirstBlock
    <3> QED
      BY <1>5, <3>2, BlockWrite DEF OpFails, Ready, Unfinished
  <2>2. CASE Room2 /\ WriteAll([b \in {Addr1, Addr2} |-> Torn])
    <3>1. PICK w : w = [b \in {Addr1, Addr2} |-> Torn]
      OBVIOUS
    <3>2. WriteAll(w) /\ Room1
      BY <2>2, <3>1 DEF Room2
    <3>3. DOMAIN w \subseteq Block
      BY <2>2, <3>1, <3>2, FirstBlock, SecondBlock
    <3> QED
      BY <1>5, <3>2, <3>3, BlockWrite DEF OpFails, Ready, Unfinished
  <2> QED
    BY <1>5, <2>1, <2>2 DEF OpFails
<1>6. ASSUME Rollback \/ Gc
      PROVE  SlotsStay /\ phase = "up" /\ step = "idle" /\ UNCHANGED <<committed, phase, step, formats>>
  BY <1>6 DEF Rollback, Gc, Ready, devVars, rootVars, SlotsStay
<1> QED
  BY <1>2, <1>3, <1>4, <1>5, <1>6

LEMMA OldInvInit ==
    ASSUME Init
    PROVE  OldInv
<1>1. PICK old \in {Zero, StaleUb(MaxTxg)} :
         disk = [l \in Loc |-> IF l \in Slot
                               THEN IF l = SlotOf(MaxTxg) THEN old ELSE Zero
                               ELSE IF old = Zero THEN Torn
                               ELSE IF l = 1 THEN old.live.hash
                               ELSE FileBlock(CHOOSE v \in Values : TRUE)]
  BY DEF Init
<1>2. \A s \in Slot : maybe[s] = {} /\ disk[s] \in {Zero, StaleUb(MaxTxg)}
  BY <1>1, Places DEF Init
<1> QED
  BY <1>2 DEF OldInv, OnSlot

LEMMA OldInvNext ==
    ASSUME EofsInv, OldInv, [Next]_vars, [Format => formats = 0 \/ Elected(disk) = NoFs]_vars
    PROVE  OldInv'
<1>1. Shaped /\ TypeOK /\ DownInv /\ FormattingInv /\ UpInv /\ Careful
  BY DEF EofsInv
<1>2. ASSUME SlotsStay, UNCHANGED <<phase, step, formats>>, NextUb' = NextUb \/ phase # "formatting"
      PROVE  OldInv'
  <2>1. \A s \in Slot : OnSlot(disk', maybe', s) = OnSlot(disk, maybe, s)
    BY <1>2 DEF SlotsStay, OnSlot
  <2> QED
    BY <1>2, <2>1 DEF OldInv
<1>3. CASE UNCHANGED vars
  BY <1>2, <1>3 DEF vars, devVars, rootVars, allocVars, SlotsStay, NextUb
<1>4. CASE \/ \E n \in Names : CreateFile(n) \/ Remove(n) \/ (\E v \in Values : Write(n, v))
           \/ \E s \in SnapNames : SnapshotCreate(s)
           \/ OpFails \/ Rollback \/ Gc
  BY <1>2, <1>4, OpsKeepSlots
<1>5. CASE CommitFlush
  <2>1. \A s \in Slot : OnSlot(disk', maybe', s) \subseteq OnSlot(disk, maybe, s)
    BY <1>5, Places DEF CommitFlush, Flush, OnSlot
  <2> QED
    BY <1>5, <2>1 DEF CommitFlush, OldInv
<1>6. CASE CommitWriteSlot
  <2>1. step = "flushed" /\ step' = "written" /\ UNCHANGED <<committed, live, snaps, frontier, phase, formats>>
    BY <1>6 DEF CommitWriteSlot, rootVars, allocVars
  <2>2. NextUb' = NextUb
    BY <2>1 DEF NextUb
  <2>3. CASE phase = "formatting"
    <3>1. PICK o : o = SlotOf(committed.txg + 1)
      OBVIOUS
    <3>2. o \in Slot /\ WriteAll([s \in {o} |-> NextUb])
      BY <1>1, <1>6, <3>1, SlotFacts, EofsBounds DEF CommitWriteSlot, TypeOK
    <3>3. /\ \A l \in Loc \ {o} : disk'[l] = disk[l] /\ maybe'[l] = maybe[l]
          /\ disk'[o] = NextUb /\ maybe'[o] = maybe[o] \cup {disk[o]}
      BY <3>2, SlotWrite
    <3>4. \A s \in Slot : OnSlot(disk', maybe', s) \subseteq OnSlot(disk, maybe, s) \cup {NextUb}
      BY <3>2, <3>3, Places DEF OnSlot
    <3> QED
      BY <2>1, <2>2, <2>3, <3>4 DEF OldInv
  <2>4. CASE phase # "formatting"
    <3>1. phase = "up"
      BY <1>1, <2>1, <2>4 DEF TypeOK, DownInv
    <3>2. formats # 0
      BY <1>1, <2>1, <3>1, EofsBounds DEF UpInv, TypeOK
    <3> QED
      BY <2>1, <2>4, <3>2 DEF OldInv
  <2> QED
    BY <2>3, <2>4
<1>7. CASE CommitEnd
  <2>1. step = "written" /\ phase' = "up" /\ formats' = formats
    BY <1>7 DEF CommitEnd
  <2>2. formats # 0
    BY <1>1, <2>1, EofsBounds DEF UpInv, TypeOK, DownInv, FormattingInv
  <2> QED
    BY <2>1, <2>2 DEF OldInv
<1>8. CASE CommitFailsEarly
  BY <1>2, <1>8 DEF CommitFailsEarly, OldInv, SlotsStay, devVars, OnSlot
<1>9. CASE CommitFailsLate
  <2>1. phase = "up" /\ phase' = "up" /\ formats' = formats /\ step # "idle"
    BY <1>9 DEF CommitFailsLate
  <2>2. formats # 0
    BY <1>1, <2>1, EofsBounds DEF UpInv, TypeOK
  <2> QED
    BY <2>1, <2>2 DEF OldInv
<1>10. CASE Format
  <2>1. phase = "down" /\ step = "idle" /\ formats < MaxFormats /\ WriteAll([s \in Slot |-> Zero])
    BY <1>1, <1>10 DEF Format, DownInv
  <2>2. formats = 0 \/ \A s \in Slot : OnSlot(disk, maybe, s) = {}
    <3>1. phase' # phase
      BY <1>10 DEF Format
    <3>2. formats = 0 \/ Elected(disk) = NoFs
      BY <1>10, <3>1 DEF vars
    <3>3. \A s \in Slot : maybe[s] = {}
      BY <1>1, <2>1, Places DEF DownInv
    <3>4. Elected(disk) = NoFs => \A s \in Slot : ~Valid(disk, s)
      BY <1>1, ElectedFacts DEF Shaped
    <3> QED
      BY <3>2, <3>3, <3>4 DEF OnSlot, Valid
  <2>3. PICK w : w = [s \in Slot |-> Zero]
    OBVIOUS
  <2>4. DOMAIN w = Slot /\ (\A s \in Slot : w[s] = Zero) /\ DOMAIN w \subseteq Loc /\ WriteAll(w)
    BY <2>1, <2>3, Places
  <2>5. \A s \in Slot : disk'[s] = Zero /\ maybe'[s] = maybe[s] \cup {disk[s]}
    BY <2>4, WriteFacts DEF Matters
  <2>6. \A s \in Slot : OnSlot(disk', maybe', s) \subseteq OnSlot(disk, maybe, s)
    BY <2>5 DEF OnSlot
  <2> QED
    BY <2>1, <2>2, <2>6 DEF OldInv
<1>11. CASE Mount
  <2>1. SlotsStay /\ phase = "down" /\ phase' = "up" /\ formats' = formats
    BY <1>11 DEF Mount, devVars, SlotsStay
  <2>2. \A s \in Slot : OnSlot(disk', maybe', s) = OnSlot(disk, maybe, s)
    BY <2>1 DEF SlotsStay, OnSlot
  <2> QED
    BY <2>1, <2>2 DEF OldInv
<1>12. CASE Crash
  <2>1. phase # "down" /\ phase' = "down" /\ formats' = formats
    BY <1>12 DEF Crash
  <2>2. \A s \in Slot : OnSlot(disk', maybe', s) \subseteq OnSlot(disk, maybe, s)
    BY <1>12, CrashFacts
  <2>3. formats = 0 => phase # "formatting"
    BY <1>1 DEF FormattingInv
  <2> QED
    BY <2>1, <2>2, <2>3 DEF OldInv
<1> QED
  BY <1>3, <1>4, <1>5, <1>6, <1>7, <1>8, <1>9, <1>10, <1>11, <1>12 DEF Next

-----------------------------------------------------------------------------
\* What users see of a tree follows its entries.
LEMMA FilesFollow ==
    ASSUME NEW r, NEW q, NEW n \in Names, NEW e, NEW c, NEW t,
           Entries(r) \in [Names -> FileRefs \cup {Absent, Empty}],
           Entries(q) = [Entries(r) EXCEPT ![n] = e],
           c = IF e \in {Absent, Empty} THEN e ELSE e.hash.body
    PROVE  View(q, t) = [View(r, t) EXCEPT !.files[n] = c]
<1>1. FilesOf(q) = [FilesOf(r) EXCEPT ![n] = c]
  BY DEF FilesOf
<1> QED
  BY <1>1 DEF View

LEMMA SnapsFollow ==
    ASSUME NEW l \in TreeRefs, NEW t, NEW q, NEW s \in SnapNames,
           Table(t) \in [SnapNames -> TreeRefs \cup {Absent}],
           Table(q) = [Table(t) EXCEPT ![s] = l]
    PROVE  View(l, q) = [View(l, t) EXCEPT !.snaps[s] = View(l, t).files]
<1>1. l # Absent
  BY EofsMarks DEF TreeRefs
<1>2. SnapsOf(q) = [SnapsOf(t) EXCEPT ![s] = FilesOf(l)]
  BY <1>1 DEF SnapsOf
<1> QED
  BY <1>2 DEF View

\* What users see is a state of the abstract filesystem.
LEMMA ViewType ==
    ASSUME NEW l \in TreeRefs, NEW t \in TableRefs
    PROVE  View(l, t) \in Views
<1>1. \A e \in FileRefs : e.hash.body \in Values
  BY DEF FileRefs
<1>2. ASSUME NEW r \in TreeRefs PROVE FilesOf(r) \in Contents
  <2>1. Entries(r) \in [Names -> FileRefs \cup {Absent, Empty}]
    BY EntriesType
  <2> QED
    BY <1>1, <2>1 DEF FilesOf, Contents
<1>3. Table(t) \in [SnapNames -> TreeRefs \cup {Absent}]
  BY TableType
<1>4. SnapsOf(t) \in [SnapNames -> Contents \cup {Absent}]
  BY <1>2, <1>3 DEF SnapsOf
<1> QED
  BY <1>2, <1>4 DEF View, Views

\* Between commits only the pending state changes.
LEMMA OpViews ==
    ASSUME SlotsStay, phase = "up", step = "idle", UNCHANGED <<committed, phase, step>>,
           committed.txg \in Nat
    PROVE  /\ CommittedView' = CommittedView /\ DoubtView' = DoubtView
           /\ CommittedView = View(committed.live, committed.snaps)
           /\ PendingView = View(live, snaps) /\ PendingView' = View(live', snaps')
<1>1. SlotOf(committed.txg + 1) \in Slot
  BY SlotFacts
<1>2. Doubtful' = Doubtful
  BY <1>1 DEF Doubtful, SlotsStay
<1> QED
  BY <1>2 DEF CommittedView, DoubtView, PendingView

\* A file operation or a snapshot is a change of the pending state.
LEMMA ChangeRefines ==
    ASSUME EofsInv,
           \/ \E n \in Names : CreateFile(n) \/ Remove(n) \/ (\E v \in Values : Write(n, v))
           \/ \E s \in SnapNames : SnapshotCreate(s)
    PROVE  Fs!Change
<1>1. SlotsStay /\ phase = "up" /\ step = "idle" /\ UNCHANGED <<committed, phase, step>>
  BY OpsKeepSlots
<1>2. committed.txg \in Nat
  BY EofsBounds DEF EofsInv, TypeOK
<1>3. /\ CommittedView' = CommittedView /\ DoubtView' = DoubtView
      /\ PendingView = View(live, snaps) /\ PendingView' = View(live', snaps')
  BY <1>1, <1>2, OpViews
<1>4. live \in TreeRefs /\ snaps \in TableRefs
  BY DEF EofsInv, Shaped
<1>5. Entries(live) \in [Names -> FileRefs \cup {Absent, Empty}]
  BY <1>4, EntriesType
<1>6. ASSUME NEW n \in Names, NEW c \in Values \cup {Empty} \cup {Absent}, snaps' = snaps, NEW e,
             Entries(live') = [Entries(live) EXCEPT ![n] = e],
             c = IF e \in {Absent, Empty} THEN e ELSE e.hash.body
      PROVE  Fs!Change
  <2>1. PendingView' = [PendingView EXCEPT !.files[n] = c]
    <3>1. PICK l2, t : l2 = live' /\ t = snaps
      OBVIOUS
    <3>2. Entries(l2) = [Entries(live) EXCEPT ![n] = e] /\ (c = IF e \in {Absent, Empty} THEN e ELSE e.hash.body)
      BY <1>6, <3>1
    <3>3. View(l2, t) = [View(live, t) EXCEPT !.files[n] = c]
      BY <1>5, <3>2, FilesFollow
    <3> QED
      BY <1>3, <1>6, <3>1, <3>3
  <2> QED
    BY <1>1, <1>3, <2>1 DEF Fs!Change
<1>7. ASSUME NEW d \in [Names -> FileRefs \cup {Absent, Empty}], NewDir(d)
      PROVE  Entries(live') = d /\ snaps' = snaps
  <2>1. CASE d = NoEntries
    BY <1>7, <2>1 DEF NewDir, Entries
  <2>2. CASE d # NoEntries
    <3>1. live' = Ref(Addr1, DirBlock(d)) /\ Addr1 \in Block
      BY <1>7, <2>2, FirstBlock DEF NewDir
    <3> QED
      BY <1>7, <3>1, NewTree DEF NewDir
  <2> QED
    BY <1>7, <2>1, <2>2 DEF NewDir
<1>8. ASSUME NEW n \in Names, CreateFile(n) \/ Remove(n) PROVE Fs!Change
  <2>1. PICK e \in {Empty, Absent} : NewDir([Entries(live) EXCEPT ![n] = e])
    BY <1>8 DEF CreateFile, Remove
  <2>2. PICK d : d = [Entries(live) EXCEPT ![n] = e]
    OBVIOUS
  <2>3. d \in [Names -> FileRefs \cup {Absent, Empty}]
    BY <1>5, <2>1, <2>2
  <2>4. Entries(live') = [Entries(live) EXCEPT ![n] = e] /\ snaps' = snaps
    BY <1>7, <2>1, <2>2, <2>3
  <2> QED
    BY <1>6, <2>1, <2>4
<1>9. ASSUME NEW n \in Names, NEW v \in Values, Write(n, v) PROVE Fs!Change
  <2>1. PICK e : e = Ref(Addr1, FileBlock(v))
    OBVIOUS
  <2>2. PICK d : d = [Entries(live) EXCEPT ![n] = e]
    OBVIOUS
  <2>3. Room2 /\ Room1 /\ live' = Ref(Addr2, DirBlock(d)) /\ snaps' = snaps
    BY <1>9, <2>1, <2>2 DEF Write, Room2
  <2>4. Addr1 \in Block /\ Addr2 \in Block
    BY <2>3, FirstBlock, SecondBlock
  <2>5. e \in FileRefs /\ e.hash.body = v
    BY <2>1, <2>4 DEF Ref, FileBlock, FileRefs
  <2>6. e \notin {Absent, Empty}
    BY <2>5, EofsMarks
  <2>7. d \in [Names -> FileRefs \cup {Absent, Empty}]
    BY <1>5, <2>2, <2>5
  <2>8. Entries(live') = [Entries(live) EXCEPT ![n] = e]
    BY <2>2, <2>3, <2>4, <2>7, NewTree
  <2> QED
    BY <1>6, <2>3, <2>5, <2>6, <2>8
<1>10. ASSUME NEW s \in SnapNames, SnapshotCreate(s) PROVE Fs!Change
  <2>1. PICK t : t = [Table(snaps) EXCEPT ![s] = live]
    OBVIOUS
  <2>2. Room1 /\ snaps' = Ref(Addr1, SnapBlock(t)) /\ live' = live /\ Table(snaps)[s] = Absent
    BY <1>10, <2>1 DEF SnapshotCreate
  <2>3. Table(snaps) \in [SnapNames -> TreeRefs \cup {Absent}]
    BY <1>4, TableType
  <2>4. t \in [SnapNames -> TreeRefs \cup {Absent}] /\ Addr1 \in Block
    BY <1>4, <2>1, <2>2, <2>3, FirstBlock
  <2>5. Table(snaps') = [Table(snaps) EXCEPT ![s] = live]
    BY <2>1, <2>2, <2>4, NewTable
  <2>6. PICK q : q = snaps'
    OBVIOUS
  <2>7. View(live, q) = [View(live, snaps) EXCEPT !.snaps[s] = View(live, snaps).files]
    BY <1>4, <2>3, <2>5, <2>6, SnapsFollow
  <2>8. PendingView' = [PendingView EXCEPT !.snaps[s] = PendingView.files]
    BY <1>3, <2>2, <2>6, <2>7
  <2>9. PendingView.snaps[s] = Absent
    BY <1>3, <2>2 DEF View, SnapsOf
  <2> QED
    BY <1>1, <1>3, <2>8, <2>9 DEF Fs!Change
<1> QED
  BY <1>8, <1>9, <1>10

\* A commit publishes its root, returns, or fails and leaves it in doubt.
LEMMA CommitRefines ==
    ASSUME EofsInv,
           CommitFlush \/ CommitWriteSlot \/ CommitEnd \/ CommitFailsEarly \/ CommitFailsLate
    PROVE  Fs!Publish \/ Fs!Commit \/ Fs!Fail \/ Fs!Settle \/ UNCHANGED Fs!vars
<1>1. TypeOK /\ Shaped /\ DownInv /\ FormattingInv /\ UpInv
  BY DEF EofsInv
<1>2. committed.txg \in Nat
  BY <1>1, EofsBounds DEF TypeOK
<1>3. PICK o \in Slot : o = SlotOf(committed.txg + 1)
  BY <1>2, SlotFacts
<1>4. phase = "up" \/ phase = "formatting"
  BY <1>1 DEF TypeOK, DownInv, CommitFlush, CommitWriteSlot, CommitEnd, CommitFailsEarly, CommitFailsLate
<1>5. Doubtful = {u \in OnSlot(disk, maybe, o) : u.txg = committed.txg + 1}
  BY <1>3 DEF Doubtful, OnSlot
<1>6. ASSUME UNCHANGED <<committed, live, snaps, phase>>
      PROVE  /\ CommittedView' = CommittedView /\ PendingView' = PendingView
             /\ Doubtful' = {u \in OnSlot(disk', maybe', o) : u.txg = committed.txg + 1}
             /\ PendingView = View(live, snaps)
  BY <1>3, <1>4, <1>6 DEF CommittedView, PendingView, Doubtful, OnSlot
<1>7. ASSUME NEW c, WriteAll([s \in {SlotOf(committed.txg + 1)} |-> c])
      PROVE  OnSlot(disk', maybe', o) = OnSlot(disk, maybe, o) \cup ({c} \ {Zero, Torn})
  <2>1. disk'[o] = c /\ maybe'[o] = maybe[o] \cup {disk[o]}
    BY <1>3, <1>7, SlotWrite
  <2> QED
    BY <2>1 DEF OnSlot
<1>8. ASSUME committed.txg < MaxTxg, phase = "up", UNCHANGED <<committed, live, snaps, phase>>,
             WriteAll([s \in {SlotOf(committed.txg + 1)} |-> NextUb])
      PROVE  DoubtView' = DoubtView \cup {PendingView}
  <2>1. NextUb \in Ubs /\ NextUb.txg = committed.txg + 1 /\ NextUb.live = live /\ NextUb.snaps = snaps
    BY <1>8, NextUbFacts
  <2>2. PICK ub : ub = NextUb
    OBVIOUS
  <2>3. OnSlot(disk', maybe', o) = OnSlot(disk, maybe, o) \cup {ub}
    BY <1>7, <1>8, <2>1, <2>2, EofsMarks
  <2>4. Doubtful' = Doubtful \cup {ub}
    BY <1>5, <1>6, <1>8, <2>1, <2>2, <2>3
  <2>5. DoubtView = {View(u.live, u.snaps) : u \in Doubtful} /\ DoubtView' = {View(u.live, u.snaps) : u \in Doubtful'}
    BY <1>8 DEF DoubtView
  <2>6. View(ub.live, ub.snaps) = PendingView
    BY <1>6, <1>8, <2>1, <2>2
  <2> QED
    BY <2>4, <2>5, <2>6
<1>9. CASE CommitFlush
  <2>1. /\ step = "idle" /\ step' = "flushed" /\ UNCHANGED <<committed, live, snaps, phase>>
        /\ disk' = disk /\ maybe'[o] = {}
    BY <1>9, Places DEF CommitFlush, rootVars, Flush
  <2>2. CASE phase = "up"
    <3>1. OnSlot(disk', maybe', o) \subseteq OnSlot(disk, maybe, o)
      BY <2>1 DEF OnSlot
    <3>2. DoubtView' \subseteq DoubtView
      BY <1>5, <1>6, <2>1, <2>2, <3>1 DEF DoubtView
    <3> QED
      BY <1>6, <2>1, <2>2, <3>2 DEF Fs!Settle
  <2>3. CASE phase = "formatting"
    BY <1>6, <2>1, <2>3 DEF Fs!vars, DoubtView
  <2> QED
    BY <1>4, <2>2, <2>3
<1>10. CASE CommitWriteSlot
  <2>1. /\ step = "flushed" /\ step' = "written" /\ UNCHANGED <<committed, live, snaps, phase>>
        /\ WriteAll([s \in {SlotOf(committed.txg + 1)} |-> NextUb])
    BY <1>10 DEF CommitWriteSlot, rootVars
  <2>2. DoubtView' = DoubtView \cup {PendingView}
    <3>1. CASE phase = "up"
      BY <1>1, <1>8, <2>1, <3>1 DEF UpInv
    <3>2. CASE phase = "formatting"
      BY <1>6, <2>1, <3>2 DEF DoubtView
    <3> QED
      BY <1>4, <3>1, <3>2
  <2> QED
    BY <1>4, <1>6, <2>1, <2>2 DEF Fs!Publish
<1>11. CASE CommitEnd
  <2>1. /\ step = "written" /\ step' = "idle" /\ phase' = "up" /\ live' = live /\ snaps' = snaps /\ disk' = disk
        /\ committed'.txg = committed.txg + 1 /\ committed'.live = live /\ committed'.snaps = snaps
        /\ maybe' = [l \in Loc |-> {}]
    BY <1>11 DEF CommitEnd, Flush
  <2>2. PICK s \in Slot : s = SlotOf(committed.txg)
    BY <1>2, SlotFacts
  <2>3. SlotOf(committed'.txg + 1) = s /\ maybe'[s] = {}
    BY <1>2, <2>1, <2>2, SlotFacts, Places
  <2>4. disk[s] = Zero \/ disk[s].txg = committed.txg
    BY <1>1, <1>4, <2>2 DEF UpInv, ThisSlot, This, FormattingInv
  <2>5. disk[s] # Zero => disk[s].txg # committed'.txg + 1
    BY <1>2, <2>1, <2>4
  <2>6. Doubtful' = {}
    BY <2>1, <2>3, <2>5 DEF Doubtful
  <2>7. DoubtView' = {}
    BY <2>1, <2>6 DEF DoubtView
  <2>8. PendingView = View(live, snaps) /\ PendingView' = PendingView /\ CommittedView' = PendingView
    BY <1>4, <2>1 DEF PendingView, CommittedView
  <2> QED
    BY <2>1, <2>7, <2>8 DEF Fs!Commit
<1>12. CASE CommitFailsEarly
  <2>1. step = "flushed" /\ step' = "idle" /\ UNCHANGED <<disk, maybe, committed, live, snaps, phase>>
    BY <1>12 DEF CommitFailsEarly, devVars, rootVars
  <2>2. DoubtView' = DoubtView
    BY <2>1 DEF DoubtView, Doubtful
  <2> QED
    BY <1>6, <2>1, <2>2 DEF Fs!vars
<1>13. CASE CommitFailsLate
  <2>1. phase = "up" /\ step # "idle" /\ step' = "idle" /\ UNCHANGED <<committed, live, snaps, phase>>
    BY <1>13 DEF CommitFailsLate, rootVars
  <2>2. DoubtView' \in {DoubtView, DoubtView \cup {PendingView}}
    <3>1. CASE UNCHANGED devVars
      BY <2>1, <3>1 DEF devVars, DoubtView, Doubtful
    <3>2. CASE WriteAll([s \in {SlotOf(committed.txg + 1)} |-> NextUb])
      BY <1>1, <1>8, <2>1, <3>2 DEF UpInv
    <3>3. CASE WriteAll([s \in {SlotOf(committed.txg + 1)} |-> Torn])
      <4>1. OnSlot(disk', maybe', o) = OnSlot(disk, maybe, o)
        BY <1>7, <3>3
      <4>2. Doubtful' = Doubtful
        BY <1>5, <1>6, <2>1, <4>1
      <4> QED
        BY <2>1, <4>2 DEF DoubtView
    <3> QED
      BY <1>13, <3>1, <3>2, <3>3 DEF CommitFailsLate
  <2> QED
    BY <1>6, <2>1, <2>2 DEF Fs!Fail
<1> QED
  BY <1>9, <1>10, <1>11, <1>12, <1>13

\* Rollback returns to the committed state; a failed call, or gc, is not seen.
LEMMA QuietRefines ==
    ASSUME EofsInv, OpFails \/ Rollback \/ Gc
    PROVE  Fs!Rollback \/ UNCHANGED Fs!vars
<1>1. SlotsStay /\ phase = "up" /\ step = "idle" /\ UNCHANGED <<committed, phase, step>>
  BY OpsKeepSlots
<1>2. committed.txg \in Nat
  BY EofsBounds DEF EofsInv, TypeOK
<1>3. /\ CommittedView' = CommittedView /\ DoubtView' = DoubtView
      /\ CommittedView = View(committed.live, committed.snaps)
      /\ PendingView = View(live, snaps) /\ PendingView' = View(live', snaps')
  BY <1>1, <1>2, OpViews
<1>4. CASE Rollback
  BY <1>1, <1>3, <1>4 DEF Rollback, Fs!Rollback
<1>5. CASE OpFails \/ Gc
  <2>1. live' = live /\ snaps' = snaps
    BY <1>5 DEF OpFails, Unfinished, Gc, rootVars
  <2> QED
    BY <1>1, <1>3, <2>1 DEF Fs!vars
<1> QED
  BY <1>4, <1>5

LEMMA FormatRefines ==
    ASSUME EofsInv, Format
    PROVE  Fs!Format
<1>1. /\ phase = "down" /\ phase' = "formatting" /\ step = "idle" /\ step' = "idle" /\ live' = Empty /\ snaps' = Empty
  BY DEF EofsInv, DownInv, Format
<1>2. CommittedView' = NoFs /\ DoubtView = {} /\ DoubtView' = {} /\ PendingView' = View(Empty, Empty)
  BY <1>1 DEF CommittedView, DoubtView, PendingView
<1>3. View(Empty, Empty) = Fs!EmptyFs
  BY DEF View, FilesOf, SnapsOf, Entries, Table, NoEntries, NoSnapshots, Fs!EmptyFs, Fs!NoFiles
<1> QED
  BY <1>1, <1>2, <1>3 DEF Fs!Format

LEMMA MountRefines ==
    ASSUME EofsInv, Mount
    PROVE  Fs!Mount
<1>1. PICK ub : ub = Elected(disk)
  OBVIOUS
<1>2. /\ phase = "down" /\ phase' = "up" /\ step = "idle" /\ step' = "idle" /\ ub # NoFs
      /\ committed'.txg = ub.txg /\ committed'.live = ub.live /\ committed'.snaps = ub.snaps
      /\ live' = ub.live /\ snaps' = ub.snaps /\ disk' = disk /\ maybe' = maybe
  BY <1>1 DEF EofsInv, DownInv, Mount, devVars
<1>3. \A s \in Slot : disk[s] \in Ubs \cup {Zero, Torn} /\ maybe[s] = {}
  BY <1>2, Places DEF EofsInv, Shaped, DownInv
<1>4. PICK e \in Slot : /\ Valid(disk, e) /\ ub = disk[e]
                        /\ \A s \in Slot : Valid(disk, s) => disk[s].txg <= disk[e].txg
  BY <1>1, <1>2, <1>3, ElectedFacts
<1>5. ub \in Ubs /\ ub.txg \in Nat
  BY <1>3, <1>4, EofsBounds DEF Valid, Ubs
<1>6. PICK o \in Slot : o = SlotOf(committed'.txg + 1)
  BY <1>2, <1>5, SlotFacts
<1>7. Valid(disk, o) => disk[o].txg # ub.txg + 1
  <2>1. Valid(disk, o) => disk[o].txg \in Nat /\ disk[o].txg <= ub.txg
    BY <1>3, <1>4, EofsBounds DEF Valid, Ubs
  <2> QED
    BY <1>5, <2>1
<1>8. Doubtful' = {}
  BY <1>2, <1>3, <1>6, <1>7 DEF Doubtful, Valid
<1>9. DoubtView = {} /\ DoubtView' = {}
  BY <1>2, <1>8 DEF DoubtView
<1>10. /\ CommittedView = View(ub.live, ub.snaps) /\ CommittedView' = CommittedView
       /\ PendingView = CommittedView /\ PendingView' = PendingView
  BY <1>1, <1>2 DEF CommittedView, PendingView, OnDisk
<1>11. CommittedView # NoFs
  BY <1>5, <1>10, ViewType, EofsNoFs DEF Ubs
<1> QED
  BY <1>2, <1>9, <1>10, <1>11 DEF Fs!Mount

\* A crash keeps the committed state, or takes one that was in doubt, or what
\* an interrupted format found.
LEMMA CrashRefines ==
    ASSUME EofsInv, OldInv, Crash
    PROVE  TxnStep
<1>1. TypeOK /\ Shaped /\ UpInv /\ FormattingInv
  BY DEF EofsInv
<1>2. phase # "down" /\ phase' = "down" /\ step' = "idle"
  BY DEF Crash
<1>3. DoubtView' = {} /\ CommittedView' = OnDisk' /\ PendingView' = OnDisk'
  BY <1>2 DEF DoubtView, CommittedView, PendingView
<1>4. committed.txg \in Nat
  BY <1>1, EofsBounds DEF TypeOK
<1>5. ASSUME NEW old \in {NoFs, OldImage},
             OnDisk' \in {CommittedView} \cup DoubtView \cup (IF phase = "formatting" THEN {old} ELSE {})
      PROVE  TxnStep
  BY <1>2, <1>3, <1>5 DEF TxnStep, Fs!Next, Fs!Stop
<1>6. CASE phase = "up"
  <2>1. PICK s \in Slot : /\ Valid(disk', s) /\ Elected(disk') = disk'[s]
                          /\ disk'[s] = disk[This] \/ (disk'[s] \in Ubs /\ Later(disk'[s]))
    BY <1>6, CrashElects
  <2>2. Elected(disk') # NoFs
    BY <1>6, CrashElects
  <2>3. OnDisk' = View(disk'[s].live, disk'[s].snaps)
    BY <2>1, <2>2 DEF OnDisk
  <2>4. CASE disk'[s] = disk[This]
    <3>1. OnDisk' = CommittedView
      BY <1>1, <1>6, <2>3, <2>4 DEF CommittedView, UpInv, ThisSlot
    <3> QED
      BY <1>5, <3>1
  <2>5. CASE disk'[s] \in Ubs /\ Later(disk'[s])
    <3>1. PICK u : u = disk'[s]
      OBVIOUS
    <3>2. u \in OnSlot(disk, maybe, s) /\ u.txg = committed.txg + 1
      BY <2>1, <2>5, <3>1, CrashFacts DEF Valid, Later
    <3>3. s = SlotOf(committed.txg + 1)
      BY <1>1, <3>2 DEF Shaped
    <3>4. u \in Doubtful
      BY <3>2, <3>3 DEF Doubtful, OnSlot
    <3>5. OnDisk' \in DoubtView
      BY <1>6, <2>3, <3>1, <3>4 DEF DoubtView
    <3> QED
      BY <1>5, <3>5
  <2> QED
    BY <2>1, <2>4, <2>5
<1>7. CASE phase = "formatting"
  <2>1. CommittedView = NoFs
    BY <1>7 DEF CommittedView
  <2>2. CASE Elected(disk') = NoFs
    <3>1. OnDisk' = CommittedView
      BY <2>1, <2>2 DEF OnDisk
    <3> QED
      BY <1>5, <3>1
  <2>3. CASE Elected(disk') # NoFs
    <3>1. \A s \in Slot : disk'[s] \in Ubs \cup {Zero, Torn}
      BY <1>1, CrashFacts DEF Shaped
    <3>2. PICK s \in Slot : Valid(disk', s) /\ Elected(disk') = disk'[s]
      BY <2>3, <3>1, ElectedFacts
    <3>3. PICK u : u = disk'[s]
      OBVIOUS
    <3>4. u \in OnSlot(disk, maybe, s) /\ OnDisk' = View(u.live, u.snaps)
      BY <2>3, <3>2, <3>3, CrashFacts DEF Valid, OnDisk
    <3>5. CASE u = StaleUb(MaxTxg)
      <4>1. u.live = StaleUb(MaxTxg).live /\ u.snaps = Empty
        BY <3>5 DEF StaleUb
      <4>2. OnDisk' = OldImage
        BY <3>4, <4>1 DEF OldImage
      <4> QED
        BY <1>5, <1>7, <4>2
    <3>6. CASE step = "written" /\ u = NextUb
      <4>1. u.live = live /\ u.snaps = snaps
        BY <3>6 DEF NextUb
      <4>2. OnDisk' \in DoubtView
        BY <1>7, <3>4, <3>6, <4>1 DEF DoubtView
      <4> QED
        BY <1>5, <4>2
    <3> QED
      BY <1>7, <3>4, <3>5, <3>6 DEF OldInv
  <2> QED
    BY <2>2, <2>3
<1> QED
  BY <1>1, <1>2, <1>6, <1>7 DEF TypeOK

\* ImplementsTxnFs: commits are atomic and durable. Every step of the engine,
\* the device calls of commit and the crashes between them included, is a
\* step of the filesystem with one pending transaction or changes nothing a
\* user can see.
THEOREM EofsImplementsTxnFs == Careful /\ Spec /\ FormatsUnmountable => ImplementsTxnFs
<1>1. Init => Fs!Init
  BY DEF Init, Fs!Init, DoubtView, PendingView, CommittedView
<1>2. EofsInv /\ OldInv /\ [Next]_vars => [TxnStep]_(Fs!vars)
  <2> SUFFICES ASSUME EofsInv, OldInv, [Next]_vars
               PROVE  TxnStep \/ UNCHANGED Fs!vars
    BY Zenon
  <2>1. Fs!Change \/ Fs!Rollback \/ Fs!Publish \/ Fs!Commit \/ Fs!Fail \/ Fs!Settle \/ Fs!Format \/ Fs!Mount => TxnStep
    BY DEF TxnStep, Fs!Next
  <2>2. CASE UNCHANGED vars
    BY <2>2 DEF vars, devVars, rootVars, allocVars, Fs!vars, DoubtView, Doubtful, PendingView, CommittedView, OnDisk
  <2>3. CASE \/ \E n \in Names : CreateFile(n) \/ Remove(n) \/ (\E v \in Values : Write(n, v))
             \/ \E s \in SnapNames : SnapshotCreate(s)
    BY <2>1, <2>3, ChangeRefines
  <2>4. CASE OpFails \/ Rollback \/ Gc
    BY <2>1, <2>4, QuietRefines
  <2>5. CASE CommitFlush \/ CommitWriteSlot \/ CommitEnd \/ CommitFailsEarly \/ CommitFailsLate
    BY <2>1, <2>5, CommitRefines
  <2>6. CASE Format \/ Mount \/ Crash
    BY <2>1, <2>6, FormatRefines, MountRefines, CrashRefines
  <2> QED
    BY <2>2, <2>3, <2>4, <2>5, <2>6 DEF Next
<1>3. Careful /\ Spec /\ FormatsUnmountable => [](EofsInv /\ OldInv)
  <2>1. Careful /\ Init => EofsInv /\ OldInv
    BY InitInv, OldInvInit
  <2>2. (EofsInv /\ OldInv) /\ [Next]_vars /\ [Format => formats = 0 \/ Elected(disk) = NoFs]_vars
          => (EofsInv /\ OldInv)'
    <3> SUFFICES ASSUME EofsInv, OldInv, [Next]_vars, [Format => formats = 0 \/ Elected(disk) = NoFs]_vars
                 PROVE  EofsInv' /\ OldInv'
      OBVIOUS
    <3>1. Elected(disk) = NoFs => NoneDamaged
      BY ElectedFacts DEF EofsInv, Shaped, NoneDamaged
    <3>2. [Format => formats = 0 \/ NoneDamaged]_vars
      BY <3>1
    <3> QED
      BY <3>2, NextInv, OldInvNext
  <2> QED
    BY <2>1, <2>2, PTL DEF Spec, FormatsUnmountable
<1>4. Careful /\ Spec /\ FormatsUnmountable => Fs!Init /\ [][TxnStep]_(Fs!vars)
  BY <1>1, <1>2, <1>3, PTL DEF Spec
<1> QED
  BY <1>4 DEF ImplementsTxnFs
=============================================================================
