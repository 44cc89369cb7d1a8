------------------------------ MODULE Buffers ------------------------------
(***************************************************************************)
(* The buffer table of a hosted task: eo9-runtime/src/task.rs BufferTable, *)
(* with the owned-buffer round trips of its providers.  A buffer is known  *)
(* by the allocation that made it; its bytes are that identity and a       *)
(* length.  A handle is with the guest, or with the operation in flight    *)
(* that took it.                                                           *)
(***************************************************************************)
EXTENDS Units

CONSTANTS MaxBuffers,   \* bound: allocations in a task's life
          MaxLen,       \* MAX_BUFFER_BYTES
          MaxTotal      \* MAX_TOTAL_BUFFER_BYTES

ASSUME BuffersAssumption ==
    MaxBuffers \in Nat /\ MaxLen \in Nat /\ MaxTotal \in Nat /\ MaxLen <= MaxTotal

Reps == 1 .. MaxBuffers
Ids == 1 .. MaxBuffers
NoRep == 0
Free == [is |-> "free", of |-> 0, len |-> 0]
Held(b, n) == [is |-> "held", of |-> b, len |-> n]
InFlight(n) == [is |-> "in-flight", of |-> 0, len |-> n]

\* The bytes of each slot, held or reserved.
Lengths(slots) == [i \in Reps |-> slots[i].len]

VARIABLES bufSlots,   \* slots: a slot past the end of the vector is Free
          bufTotal,   \* total_bytes
          made,       \* history: allocations so far
          rep,        \* the rep of each live handle
          ops         \* the buffers in flight: id -> the bytes' length, or absent
bufVars == <<bufSlots, bufTotal, made, rep, ops>>

Flying == DOMAIN ops
Mine == {b \in Ids : rep[b] # NoRep /\ b \notin Flying}

BuffersInit ==
    /\ bufSlots = [i \in Reps |-> Free] /\ bufTotal = 0 /\ made = 0
    /\ rep = [b \in Ids |-> NoRep] /\ ops = [b \in {} |-> 0]

\* Variant: a slot whose bytes are away counts as free.
IsFree_Away(i) == bufSlots[i].is # "held"

IsFree(i) == bufSlots[i].is = "free"

\* alloc: within both caps, in the first free slot.
BufferAlloc(n) ==
    /\ made < MaxBuffers
    /\ n <= MaxLen /\ bufTotal + n <= MaxTotal
    /\ \E i \in Reps :
       /\ IsFree(i) /\ \A j \in Reps : IsFree(j) => i <= j
       /\ bufSlots' = [bufSlots EXCEPT ![i] = Held(made + 1, n)]
       /\ rep' = [rep EXCEPT ![made + 1] = i]
    /\ bufTotal' = bufTotal + n /\ made' = made + 1
    /\ UNCHANGED ops

\* Variant: the bytes leave the budget with the provider.
BufferTake_Releases(b) ==
    /\ b \in Mine /\ bufSlots[rep[b]].is = "held"
    /\ LET n == bufSlots[rep[b]].len IN
       /\ bufSlots' = [bufSlots EXCEPT ![rep[b]] = InFlight(n)]
       /\ ops' = [c \in Flying \cup {b} |-> IF c = b THEN n ELSE ops[c]]
       /\ bufTotal' = bufTotal - n
    /\ UNCHANGED <<made, rep>>

\* take: the bytes go to a provider, the slot stays reserved.
BufferTake(b) ==
    /\ b \in Mine /\ bufSlots[rep[b]].is = "held"
    /\ LET n == bufSlots[rep[b]].len IN
       /\ bufSlots' = [bufSlots EXCEPT ![rep[b]] = InFlight(n)]
       /\ ops' = [c \in Flying \cup {b} |-> IF c = b THEN n ELSE ops[c]]
    /\ UNCHANGED <<bufTotal, made, rep>>

\* Variant: the bytes are counted again when they come back.
Recount_Again(i, n) == bufTotal + n

Recount(i, n) == bufTotal - bufSlots[i].len + n

\* restore: the operation is over and the bytes come back, at any length.
BufferRestore(b, n) ==
    /\ b \in Flying
    /\ LET i == rep[b] IN
       IF bufSlots[i].is = "in-flight"
       THEN bufSlots' = [bufSlots EXCEPT ![i] = Held(b, n)] /\ bufTotal' = Recount(i, n)
       ELSE UNCHANGED <<bufSlots, bufTotal>>
    /\ ops' = [c \in Flying \ {b} |-> ops[c]]
    /\ UNCHANGED <<made, rep>>

\* free: the guest dropped the handle.
BufferFree(b) ==
    /\ b \in Mine
    /\ bufSlots' = [bufSlots EXCEPT ![rep[b]] = Free]
    /\ bufTotal' = bufTotal - bufSlots[rep[b]].len
    /\ rep' = [rep EXCEPT ![b] = NoRep]
    /\ UNCHANGED <<made, ops>>

BuffersNext ==
    \/ \E n \in 0 .. MaxLen : BufferAlloc(n)
    \/ \E b \in Ids : BufferTake(b) \/ BufferFree(b) \/ \E n \in 0 .. MaxLen : BufferRestore(b, n)
BuffersSpec == BuffersInit /\ [][BuffersNext]_bufVars

----------------------------------------------------------------------------
BuffersTypeOK ==
    /\ bufSlots \in [Reps -> {Free} \cup {Held(b, n) : b \in Ids, n \in 0 .. MaxLen}
                             \cup {InFlight(n) : n \in 0 .. MaxLen}]
    /\ bufTotal \in Nat /\ made \in 0 .. MaxBuffers
    /\ rep \in [Ids -> Reps \cup {NoRep}]
    /\ Flying \subseteq Ids /\ \A b \in Flying : ops[b] \in 0 .. MaxLen

\* A handle the guest holds names its own bytes, and an operation in flight
\* comes back to the slot it left: no allocation, free or completion between
\* take and restore takes a slot over.
HandlesOwnBytes ==
    /\ \A b \in Mine : bufSlots[rep[b]].is = "held" /\ bufSlots[rep[b]].of = b
    /\ \A b \in Flying : rep[b] # NoRep /\ bufSlots[rep[b]] = InFlight(ops[b])
    /\ \A b, c \in Ids : b # c /\ rep[b] # NoRep => rep[b] # rep[c]

\* total_bytes is what the slots hold or have reserved, whatever completed with
\* how many bytes: the budget neither leaks nor runs below what is held.
BudgetIsExact == bufTotal = Total(Lengths(bufSlots))
=============================================================================
