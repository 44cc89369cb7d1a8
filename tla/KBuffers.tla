------------------------------ MODULE KBuffers ------------------------------
(***************************************************************************)
(* The kernel's buffer table: wasm/shellfs.rs BufferTable, with the entry  *)
(* moves of the call gate (wasm/gate.rs send, recv and their UDP forms).   *)
(* The bytes of a child's buffer move to the owner's table for the time of *)
(* the call and come back under the same rep; a severed call brings an     *)
(* empty buffer back.  A buffer is known by the allocation that made it.   *)
(* The hosted table (Buffers) keeps the same budget in another way.        *)
(***************************************************************************)
EXTENDS Buffers, FiniteSetsExt

CONSTANTS KMaxBuffers,   \* bound: allocations in a child's life
          KMaxLen,       \* MAX_BUFFER_BYTES
          KMaxTotal,     \* MAX_TOTAL_BUFFER_BYTES
          Overlaps       \* the child makes other calls while a gate call is pending

ASSUME KBuffersAssumption ==
    /\ KMaxBuffers \in Nat /\ KMaxLen \in Nat /\ KMaxTotal \in Nat /\ KMaxLen <= KMaxTotal
    /\ Overlaps \in BOOLEAN

KReps == 1 .. KMaxBuffers
KIds == 1 .. KMaxBuffers
Nothing == [of |-> 0, len |-> 0]
Bytes(b, n) == [of |-> b, len |-> n]
KLengths(table) == [i \in KReps |-> table[i].len]

VARIABLES childTable, childTotal,   \* the child's BufferTable
          ownerTable, ownerTotal,   \* the owner's
          kMade, kRep,              \* history: allocations; each live handle's rep
          crossing                  \* pending gate calls: id -> the owner-side rep
kbufVars == <<childTable, childTotal, ownerTable, ownerTotal, kMade, kRep, crossing>>

Away == DOMAIN crossing
ChildHolds == {b \in KIds : kRep[b] # 0 /\ b \notin Away}
GuestMayCall == Overlaps \/ Away = {}

KBuffersInit ==
    /\ childTable = [i \in KReps |-> Nothing] /\ childTotal = 0
    /\ ownerTable = [i \in KReps |-> Nothing] /\ ownerTotal = 0
    /\ kMade = 0 /\ kRep = [b \in KIds |-> 0] /\ crossing = [b \in {} |-> 0]

\* The first slot without bytes.
FirstEmpty(table) == Min({i \in KReps : table[i] = Nothing})

KAlloc(n) ==
    /\ GuestMayCall /\ kMade < KMaxBuffers
    /\ n <= KMaxLen /\ childTotal + n <= KMaxTotal
    /\ childTable' = [childTable EXCEPT ![FirstEmpty(childTable)] = Bytes(kMade + 1, n)]
    /\ kRep' = [kRep EXCEPT ![kMade + 1] = FirstEmpty(childTable)]
    /\ childTotal' = childTotal + n /\ kMade' = kMade + 1
    /\ UNCHANGED <<ownerTable, ownerTotal, crossing>>

KFree(b) ==
    /\ GuestMayCall /\ b \in ChildHolds
    /\ childTable' = [childTable EXCEPT ![kRep[b]] = Nothing]
    /\ childTotal' = childTotal - childTable[kRep[b]].len
    /\ kRep' = [kRep EXCEPT ![b] = 0]
    /\ UNCHANGED <<ownerTable, ownerTotal, kMade, crossing>>

\* A gate call: take from the child's table, insert into the owner's.  A handle
\* whose slot is empty is refused (the call traps the child).
Cross(b) ==
    /\ GuestMayCall /\ b \in ChildHolds /\ childTable[kRep[b]] # Nothing
    /\ LET bytes == childTable[kRep[b]]
           i == FirstEmpty(ownerTable) IN
       /\ childTable' = [childTable EXCEPT ![kRep[b]] = Nothing]
       /\ childTotal' = childTotal - bytes.len
       /\ ownerTable' = [ownerTable EXCEPT ![i] = bytes] /\ ownerTotal' = ownerTotal + bytes.len
       /\ crossing' = [c \in Away \cup {b} |-> IF c = b THEN i ELSE crossing[c]]
    /\ UNCHANGED <<kMade, kRep>>

\* Variant: the bytes are not counted when they come back.
Counted_No(n) == childTotal

Counted(n) == childTotal + n

Lands(b) == kRep[b]

\* The answer: take from the owner's table, restore under the child's rep.
CrossBack(b) ==
    /\ b \in Away
    /\ LET bytes == ownerTable[crossing[b]] IN
       /\ ownerTable' = [ownerTable EXCEPT ![crossing[b]] = Nothing]
       /\ ownerTotal' = ownerTotal - bytes.len
       /\ childTable' = [childTable EXCEPT ![Lands(b)] = bytes]
       /\ childTotal' = Counted(bytes.len)
    /\ crossing' = [c \in Away \ {b} |-> crossing[c]]
    /\ UNCHANGED <<kMade, kRep>>

\* The owner's run ends: its store goes, and every pending call is severed.
Severed ==
    /\ Away # {}
    /\ ownerTable' = [i \in KReps |-> Nothing] /\ ownerTotal' = 0
    /\ childTable' = [i \in KReps |->
          IF \E b \in Away : kRep[b] = i
          THEN Bytes(CHOOSE b \in Away : kRep[b] = i, 0) ELSE childTable[i]]
    /\ crossing' = [b \in {} |-> 0]
    /\ UNCHANGED <<childTotal, kMade, kRep>>

KBuffersNext ==
    \/ \E n \in 0 .. KMaxLen : KAlloc(n)
    \/ \E b \in KIds : KFree(b) \/ Cross(b) \/ CrossBack(b)
    \/ Severed
KBuffersSpec == KBuffersInit /\ [][KBuffersNext]_kbufVars

----------------------------------------------------------------------------
\* A buffer handle names its own bytes: what a child reads or writes through a
\* handle is what it allocated under it, also after the bytes crossed the gate.
KHandlesOwnBytes == \A b \in ChildHolds : childTable[kRep[b]].of = b

\* Neither table's total_bytes drifts from what the table holds, in any mix of
\* answers and severed calls: the budget does not leak with each call.
KBudgetIsExact ==
    /\ childTotal = Total(KLengths(childTable))
    /\ ownerTotal = Total(KLengths(ownerTable))

\* Both tables account for exactly the bytes held or away, through every order
\* of allocations, frees, takes, restores and gate crossings.
BudgetsAreExact == BudgetIsExact /\ KBudgetIsExact
=============================================================================
