--------------------------- MODULE Runtime_proofs ---------------------------
(***************************************************************************)
(* The hosted runtime for any tree of tasks and any number of buffers: the *)
(* embedder thread never sleeps through a wakeup (NoLostWakeup of          *)
(* TaskDrive), the handles of a task own their bytes (HandlesOwnBytes of   *)
(* Buffers), and its budget and that of the kernel's table never drift     *)
(* (BudgetsAreExact of KBuffers).                                          *)
(***************************************************************************)
EXTENDS KBuffers, TaskDrive, Units_proofs

(***************************************************************************)
(* Buffers. HandlesOwnBytes alone is not inductive: an allocation must     *)
(* know that its identity is fresh, and every step that the tables are     *)
(* functions over slots and handles.                                       *)
(***************************************************************************)

\* What a step must know of the tables; the byte count is not part of it.
TablesTyped ==
    /\ bufSlots \in [Reps -> {Free} \cup {Held(b, n) : b \in Ids, n \in 0 .. MaxLen}
                             \cup {InFlight(n) : n \in 0 .. MaxLen}]
    /\ made \in 0 .. MaxBuffers
    /\ rep \in [Ids -> Reps \cup {NoRep}]
    /\ ops \in [Flying -> 0 .. MaxLen] /\ Flying \subseteq Ids

\* Identities not made yet have neither a handle nor an operation.
FreshAreUnused == \A b \in Ids : b > made => rep[b] = NoRep /\ b \notin Flying

BuffersInv == TablesTyped /\ FreshAreUnused /\ HandlesOwnBytes

\* A slot is told apart by its state alone.
LEMMA SlotKinds ==
    /\ Free.is = "free"
    /\ \A b, n : Held(b, n).is = "held" /\ Held(b, n).of = b /\ Held(b, n).len = n
    /\ \A n : InFlight(n).is = "in-flight" /\ InFlight(n).len = n
BY DEF Free, Held, InFlight

\* The empty table satisfies the invariant.
LEMMA InitBuffersInv == BuffersInit => BuffersInv
BY BuffersAssumption
   DEF BuffersInit, BuffersInv, TablesTyped, FreshAreUnused, HandlesOwnBytes, Mine, Flying,
       Reps, Ids, NoRep, Free

\* alloc takes a free slot, so nobody's: not even an operation's in flight.
LEMMA AllocKeeps ==
    ASSUME BuffersInv, NEW n \in 0 .. MaxLen, BufferAlloc(n)
    PROVE  BuffersInv'
<1> USE BuffersAssumption DEF BuffersInv
<1>1. PICK i \in Reps :
        /\ IsFree(i)
        /\ bufSlots' = [bufSlots EXCEPT ![i] = Held(made + 1, n)]
        /\ rep' = [rep EXCEPT ![made + 1] = i]
  BY DEF BufferAlloc
<1>2. made < MaxBuffers /\ made' = made + 1 /\ ops' = ops /\ made + 1 \in Ids
  BY DEF BufferAlloc, TablesTyped, Ids
<1>3. ASSUME NEW b \in Ids PROVE rep[b] # i
  <2>1. CASE rep[b] = NoRep
    BY <2>1 DEF NoRep, Reps
  <2>2. CASE rep[b] # NoRep /\ b \in Flying
    BY <2>2, <1>1, SlotKinds DEF HandlesOwnBytes, IsFree
  <2>3. CASE b \in Mine
    BY <2>3, <1>1 DEF HandlesOwnBytes, IsFree
  <2> QED
    BY <2>1, <2>2, <2>3 DEF Mine
<1>4. TablesTyped'
  <2>1. Held(made + 1, n) \in {Held(b, k) : b \in Ids, k \in 0 .. MaxLen}
    BY <1>2
  <2>2. bufSlots' \in [Reps -> {Free} \cup {Held(b, k) : b \in Ids, k \in 0 .. MaxLen}
                               \cup {InFlight(k) : k \in 0 .. MaxLen}]
    BY <2>1, <1>1 DEF TablesTyped
  <2>3. made' \in 0 .. MaxBuffers /\ rep' \in [Ids -> Reps \cup {NoRep}] /\ Flying' = Flying
    BY <1>1, <1>2 DEF TablesTyped, Flying
  <2> QED
    BY <2>2, <2>3, <1>2 DEF TablesTyped
<1>5. FreshAreUnused'
  BY <1>1, <1>2 DEF FreshAreUnused, TablesTyped, Flying, Ids
<1>6. HandlesOwnBytes'
  <2>1. ASSUME NEW b \in Mine'
        PROVE  bufSlots'[rep'[b]].is = "held" /\ bufSlots'[rep'[b]].of = b
    <3>1. CASE b = made + 1
      BY <3>1, <1>1, <1>2, SlotKinds DEF TablesTyped
    <3>2. CASE b # made + 1
      <4>1. b \in Ids /\ b \in Mine /\ rep'[b] = rep[b] /\ rep[b] \in Reps /\ rep[b] # i
        BY <2>1, <3>2, <1>1, <1>2, <1>3 DEF Mine, Flying, TablesTyped
      <4> QED
        BY <4>1, <1>1 DEF HandlesOwnBytes, TablesTyped
    <3> QED
      BY <3>1, <3>2
  <2>2. ASSUME NEW b \in Flying'
        PROVE  rep'[b] # NoRep /\ bufSlots'[rep'[b]] = InFlight(ops'[b])
    <3>1. b \in Flying /\ b \in Ids /\ b # made + 1
      BY <2>2, <1>2 DEF Flying, FreshAreUnused, TablesTyped, Ids
    <3>2. rep'[b] = rep[b] /\ rep[b] \in Reps /\ rep[b] # i
      BY <3>1, <1>1, <1>3 DEF HandlesOwnBytes, TablesTyped
    <3> QED
      BY <3>1, <3>2, <1>1, <1>2 DEF HandlesOwnBytes, TablesTyped
  <2>3. ASSUME NEW b \in Ids, NEW c \in Ids, b # c, rep'[b] # NoRep
        PROVE  rep'[b] # rep'[c]
    BY <2>3, <1>1, <1>2, <1>3 DEF HandlesOwnBytes, TablesTyped
  <2> QED
    BY <2>1, <2>2, <2>3 DEF HandlesOwnBytes, Mine, Flying
<1> QED
  BY <1>4, <1>5, <1>6

\* take leaves the slot reserved under the operation that has the bytes.
LEMMA BufferTakeKeeps ==
    ASSUME BuffersInv, NEW a \in Ids, BufferTake(a)
    PROVE  BuffersInv'
<1> DEFINE i == rep[a]
           n == bufSlots[i].len
<1> USE DEF BuffersInv
<1>1. /\ a \in Mine /\ i \in Reps /\ n \in 0 .. MaxLen
      /\ bufSlots' = [bufSlots EXCEPT ![i] = InFlight(n)]
      /\ ops' = [c \in Flying \cup {a} |-> IF c = a THEN n ELSE ops[c]]
      /\ made' = made /\ rep' = rep
  <2>1. a \in Mine /\ i \in Reps
    BY DEF BufferTake, Mine, TablesTyped
  <2>2. n \in 0 .. MaxLen
    BY <2>1, BuffersAssumption DEF TablesTyped, Free, Held, InFlight
  <2> QED
    BY <2>1, <2>2 DEF BufferTake
<1> HIDE DEF n, i
<1>2. Flying' = Flying \cup {a} /\ ops'[a] = n /\ \A c \in Flying : c # a => ops'[c] = ops[c]
  BY <1>1 DEF Flying
<1>3. \A c \in Ids : c # a => rep[c] # i
  BY <1>1 DEF HandlesOwnBytes, i, Mine, TablesTyped
<1>4. TablesTyped'
  <2>1. InFlight(n) \in {InFlight(k) : k \in 0 .. MaxLen}
    BY <1>1
  <2>2. bufSlots' \in [Reps -> {Free} \cup {Held(b, k) : b \in Ids, k \in 0 .. MaxLen}
                               \cup {InFlight(k) : k \in 0 .. MaxLen}]
    BY <2>1, <1>1 DEF TablesTyped
  <2>3. ops' \in [Flying' -> 0 .. MaxLen] /\ Flying' \subseteq Ids
    BY <1>1, <1>2 DEF TablesTyped
  <2> QED
    BY <2>2, <2>3, <1>1 DEF TablesTyped
<1>5. FreshAreUnused'
  BY <1>1, <1>2 DEF FreshAreUnused, Mine, TablesTyped
<1>6. HandlesOwnBytes'
  <2>1. ASSUME NEW b \in Mine'
        PROVE  bufSlots'[rep'[b]].is = "held" /\ bufSlots'[rep'[b]].of = b
    <3>1. b \in Mine /\ b # a /\ rep[b] \in Reps /\ rep[b] # i
      BY <2>1, <1>1, <1>2, <1>3 DEF Mine, TablesTyped
    <3> QED
      BY <3>1, <1>1 DEF HandlesOwnBytes, TablesTyped
  <2>2. ASSUME NEW b \in Flying'
        PROVE  rep'[b] # NoRep /\ bufSlots'[rep'[b]] = InFlight(ops'[b])
    <3>1. CASE b = a
      BY <3>1, <1>1, <1>2 DEF Mine, TablesTyped, i
    <3>2. CASE b # a
      <4>1. b \in Flying /\ b \in Ids /\ rep[b] \in Reps /\ rep[b] # i
        BY <2>2, <3>2, <1>2, <1>3 DEF TablesTyped, HandlesOwnBytes
      <4> QED
        BY <4>1, <3>2, <1>1, <1>2 DEF HandlesOwnBytes, TablesTyped
    <3> QED
      BY <3>1, <3>2
  <2> QED
    BY <2>1, <2>2, <1>1 DEF HandlesOwnBytes
<1> QED
  BY <1>4, <1>5, <1>6

\* restore finds the slot its operation left.
LEMMA RestoreKeeps ==
    ASSUME BuffersInv, NEW a \in Ids, NEW n \in 0 .. MaxLen, BufferRestore(a, n)
    PROVE  BuffersInv'
<1> DEFINE i == rep[a]
<1> USE DEF BuffersInv
<1>1. /\ a \in Flying /\ i \in Reps
      /\ bufSlots' = [bufSlots EXCEPT ![i] = Held(a, n)]
      /\ ops' = [c \in Flying \ {a} |-> ops[c]]
      /\ made' = made /\ rep' = rep
  BY SlotKinds DEF BufferRestore, HandlesOwnBytes, TablesTyped
<1> HIDE DEF i
<1>2. Flying' = Flying \ {a} /\ \A c \in Flying' : ops'[c] = ops[c]
  BY <1>1 DEF Flying
<1>3. \A c \in Ids : c # a => rep[c] # i
  BY <1>1 DEF HandlesOwnBytes, i, TablesTyped
<1>4. TablesTyped'
  <2>1. Held(a, n) \in {Held(b, k) : b \in Ids, k \in 0 .. MaxLen}
    OBVIOUS
  <2>2. bufSlots' \in [Reps -> {Free} \cup {Held(b, k) : b \in Ids, k \in 0 .. MaxLen}
                               \cup {InFlight(k) : k \in 0 .. MaxLen}]
    BY <2>1, <1>1 DEF TablesTyped
  <2>3. ops' \in [Flying' -> 0 .. MaxLen] /\ Flying' \subseteq Ids
    BY <1>1, <1>2 DEF TablesTyped
  <2> QED
    BY <2>2, <2>3, <1>1 DEF TablesTyped
<1>5. FreshAreUnused'
  BY <1>1, <1>2 DEF FreshAreUnused
<1>6. HandlesOwnBytes'
  <2>1. ASSUME NEW b \in Mine'
        PROVE  bufSlots'[rep'[b]].is = "held" /\ bufSlots'[rep'[b]].of = b
    <3>1. CASE b = a
      BY <3>1, <1>1, SlotKinds DEF TablesTyped, i
    <3>2. CASE b # a
      <4>1. b \in Mine /\ rep[b] \in Reps /\ rep[b] # i
        BY <2>1, <3>2, <1>1, <1>2, <1>3 DEF Mine, TablesTyped
      <4> QED
        BY <4>1, <1>1 DEF HandlesOwnBytes, TablesTyped
    <3> QED
      BY <3>1, <3>2
  <2>2. ASSUME NEW b \in Flying'
        PROVE  rep'[b] # NoRep /\ bufSlots'[rep'[b]] = InFlight(ops'[b])
    <3>1. b \in Flying /\ b # a /\ b \in Ids /\ rep[b] \in Reps /\ rep[b] # i
      BY <2>2, <1>2, <1>3 DEF TablesTyped, HandlesOwnBytes
    <3> QED
      BY <3>1, <1>1, <1>2 DEF HandlesOwnBytes, TablesTyped
  <2> QED
    BY <2>1, <2>2, <1>1 DEF HandlesOwnBytes
<1> QED
  BY <1>4, <1>5, <1>6

\* free gives up a slot that only its own handle named.
LEMMA FreeKeeps ==
    ASSUME BuffersInv, NEW a \in Ids, BufferFree(a)
    PROVE  BuffersInv'
<1> DEFINE i == rep[a]
<1> USE DEF BuffersInv
<1>1. /\ a \in Mine /\ i \in Reps
      /\ bufSlots' = [bufSlots EXCEPT ![i] = Free]
      /\ rep' = [rep EXCEPT ![a] = NoRep]
      /\ made' = made /\ ops' = ops /\ Flying' = Flying
  BY DEF BufferFree, Mine, TablesTyped, Flying
<1> HIDE DEF i
<1>2. \A c \in Ids : c # a => rep[c] # i
  BY <1>1 DEF HandlesOwnBytes, i, Mine, TablesTyped
<1>3. TablesTyped'
  <2>1. bufSlots' \in [Reps -> {Free} \cup {Held(b, k) : b \in Ids, k \in 0 .. MaxLen}
                               \cup {InFlight(k) : k \in 0 .. MaxLen}]
    BY <1>1 DEF TablesTyped
  <2> QED
    BY <2>1, <1>1 DEF TablesTyped
<1>4. FreshAreUnused'
  BY <1>1 DEF FreshAreUnused, TablesTyped
<1>5. HandlesOwnBytes'
  <2>1. ASSUME NEW b \in Mine'
        PROVE  bufSlots'[rep'[b]].is = "held" /\ bufSlots'[rep'[b]].of = b
    <3>1. b # a /\ b \in Mine /\ rep'[b] = rep[b] /\ rep[b] \in Reps /\ rep[b] # i
      BY <2>1, <1>1, <1>2 DEF Mine, TablesTyped
    <3> QED
      BY <3>1, <1>1 DEF HandlesOwnBytes, TablesTyped
  <2>2. ASSUME NEW b \in Flying'
        PROVE  rep'[b] # NoRep /\ bufSlots'[rep'[b]] = InFlight(ops'[b])
    <3>1. b \in Flying /\ b # a /\ b \in Ids /\ rep[b] \in Reps /\ rep[b] # i
      BY <2>2, <1>1, <1>2 DEF Mine, TablesTyped, HandlesOwnBytes
    <3> QED
      BY <3>1, <1>1 DEF HandlesOwnBytes, TablesTyped
  <2>3. ASSUME NEW b \in Ids, NEW c \in Ids, b # c, rep'[b] # NoRep
        PROVE  rep'[b] # rep'[c]
    BY <2>3, <1>1 DEF HandlesOwnBytes, TablesTyped
  <2> QED
    BY <2>1, <2>2, <2>3 DEF HandlesOwnBytes
<1> QED
  BY <1>3, <1>4, <1>5

\* Every step of a task's buffer table keeps the invariant.
LEMMA NextKeeps == BuffersInv /\ [BuffersNext]_bufVars => BuffersInv'
<1> SUFFICES ASSUME BuffersInv, [BuffersNext]_bufVars PROVE BuffersInv'
  OBVIOUS
<1>1. CASE UNCHANGED bufVars
  BY <1>1 DEF BuffersInv, TablesTyped, FreshAreUnused, HandlesOwnBytes, Mine, Flying, bufVars
<1>2. ASSUME NEW n \in 0 .. MaxLen, BufferAlloc(n) PROVE BuffersInv'
  BY <1>2, AllocKeeps
<1>3. ASSUME NEW b \in Ids, BufferTake(b) PROVE BuffersInv'
  BY <1>3, BufferTakeKeeps
<1>4. ASSUME NEW b \in Ids, BufferFree(b) PROVE BuffersInv'
  BY <1>4, FreeKeeps
<1>5. ASSUME NEW b \in Ids, NEW n \in 0 .. MaxLen, BufferRestore(b, n) PROVE BuffersInv'
  BY <1>5, RestoreKeeps
<1> QED
  BY <1>1, <1>2, <1>3, <1>4, <1>5 DEF BuffersNext

\* Whatever is allocated, freed, lent to a provider or given back, a handle the
\* guest holds names its own bytes, and an operation's bytes come back to the
\* slot they left (BufferTable of eo9-runtime/src/task.rs).
THEOREM HandlesOwnBytesHolds == BuffersSpec => []HandlesOwnBytes
<1>1. BuffersInv => HandlesOwnBytes
  BY DEF BuffersInv
<1> QED
  BY <1>1, InitBuffersInv, NextKeeps, PTL DEF BuffersSpec

(***************************************************************************)
(* The budget of the hosted table, counted by its bytes.                   *)
(***************************************************************************)

BudgetInv == BuffersInv /\ IsFiniteSet(Units(Lengths(bufSlots))) /\ BudgetIsExact

\* The bytes of a typed table are an account for each slot.
LEMMA LengthsAreNat ==
    ASSUME TablesTyped
    PROVE  /\ Lengths(bufSlots) \in [Reps -> Nat]
           /\ \A i \in Reps : Lengths(bufSlots)[i] = bufSlots[i].len
<1>1. ASSUME NEW i \in Reps PROVE bufSlots[i].len \in Nat
  BY BuffersAssumption DEF TablesTyped, Free, Held, InFlight
<1> QED
  BY <1>1 DEF Lengths

\* What is counted is a number.
LEMMA BudgetIsNat == BudgetInv => bufTotal \in Nat
BY FS_CardinalityType DEF BudgetInv, BudgetIsExact, Total

\* A step that writes s over slot i and counts the difference.
Writes(i, s) ==
    /\ s.len \in Nat /\ bufSlots' = [bufSlots EXCEPT ![i] = s]
    /\ bufTotal' = bufTotal - bufSlots[i].len + s.len

\* Every step writes at most one slot, and counts what it wrote.
LEMMA WritesAreCounted ==
    ASSUME BudgetInv, [BuffersNext]_bufVars
    PROVE  (\E i \in Reps : \E s : Writes(i, s)) \/ UNCHANGED <<bufSlots, bufTotal>>
<1>0. bufTotal \in Nat /\ TablesTyped /\ HandlesOwnBytes /\ \A n : n \in 0 .. MaxLen => n \in Nat
  BY BudgetIsNat, BuffersAssumption DEF BudgetInv, BuffersInv
<1>1. ASSUME NEW n \in 0 .. MaxLen, BufferAlloc(n)
      PROVE  \E i \in Reps : \E s : Writes(i, s)
  <2>1. PICK i \in Reps : IsFree(i) /\ bufSlots' = [bufSlots EXCEPT ![i] = Held(made + 1, n)]
    BY <1>1 DEF BufferAlloc
  <2>2. bufSlots[i].len = 0
    BY <1>0, <2>1 DEF TablesTyped, IsFree, Free, Held, InFlight
  <2>3. bufTotal' = bufTotal - 0 + n /\ n \in Nat
    BY <1>0, <1>1 DEF BufferAlloc
  <2>4. Writes(i, Held(made + 1, n))
    BY <2>1, <2>2, <2>3, SlotKinds DEF Writes
  <2> QED
    BY <2>4
<1>2. ASSUME NEW b \in Ids, BufferTake(b)
      PROVE  \E i \in Reps : \E s : Writes(i, s)
  <2>1. rep[b] \in Reps
    BY <1>0, <1>2 DEF BufferTake, Mine, TablesTyped
  <2>2. PICK n : n = bufSlots[rep[b]].len
    OBVIOUS
  <2>3. n \in Nat
    BY <1>0, <2>1, <2>2, LengthsAreNat
  <2>4. bufSlots' = [bufSlots EXCEPT ![rep[b]] = InFlight(n)] /\ bufTotal' = bufTotal
    BY <1>2, <2>2 DEF BufferTake
  <2>5. bufTotal = bufTotal - n + n
    BY <1>0, <2>3
  <2>6. Writes(rep[b], InFlight(n))
    BY <2>2, <2>3, <2>4, <2>5, SlotKinds DEF Writes
  <2> QED
    BY <2>1, <2>6
<1>3. ASSUME NEW b \in Ids, BufferFree(b)
      PROVE  \E i \in Reps : \E s : Writes(i, s)
  <2>1. rep[b] \in Reps
    BY <1>0, <1>3 DEF BufferFree, Mine, TablesTyped
  <2>2. bufSlots[rep[b]].len \in Nat
    BY <1>0, <2>1, LengthsAreNat
  <2>3. bufTotal' = bufTotal - bufSlots[rep[b]].len + 0
    BY <1>0, <1>3, <2>2 DEF BufferFree
  <2>4. Writes(rep[b], Free)
    BY <1>3, <2>3 DEF BufferFree, Writes, Free
  <2> QED
    BY <2>1, <2>4
<1>4. ASSUME NEW b \in Ids, NEW n \in 0 .. MaxLen, BufferRestore(b, n)
      PROVE  (\E i \in Reps : \E s : Writes(i, s)) \/ UNCHANGED <<bufSlots, bufTotal>>
  <2>1. rep[b] \in Reps
    BY <1>0, <1>4 DEF BufferRestore, HandlesOwnBytes, TablesTyped
  <2>2. CASE bufSlots[rep[b]].is = "in-flight"
    <3>1. Writes(rep[b], Held(b, n))
      BY <1>0, <1>4, <2>2, SlotKinds DEF BufferRestore, Recount, Writes
    <3> QED
      BY <2>1, <3>1
  <2>3. CASE bufSlots[rep[b]].is # "in-flight"
    BY <1>4, <2>3 DEF BufferRestore
  <2> QED
    BY <2>2, <2>3
<1>5. CASE UNCHANGED bufVars
  BY <1>5 DEF bufVars
<1> QED
  BY <1>1, <1>2, <1>3, <1>4, <1>5 DEF BuffersNext

\* So the budget stays exact.
LEMMA BudgetKeeps == BudgetInv /\ [BuffersNext]_bufVars => BudgetInv'
<1> SUFFICES ASSUME BudgetInv, [BuffersNext]_bufVars PROVE BudgetInv'
  OBVIOUS
<1>1. BuffersInv'
  BY NextKeeps DEF BudgetInv
<1>2. PICK b, c : b = Lengths(bufSlots) /\ c = Lengths(bufSlots')
  OBVIOUS
<1>3. /\ b \in [Reps -> Nat] /\ \A i \in Reps : b[i] = bufSlots[i].len
      /\ IsFiniteSet(Units(b)) /\ bufTotal = Total(b) /\ bufTotal \in Nat
  BY <1>2, LengthsAreNat, BudgetIsNat DEF BudgetInv, BuffersInv, BudgetIsExact
<1>4. IsFiniteSet(Units(c)) /\ bufTotal' = Total(c)
  <2>1. ASSUME NEW i \in Reps, NEW s, Writes(i, s)
        PROVE  IsFiniteSet(Units(c)) /\ bufTotal' = Total(c)
    <3>1. /\ s.len \in Nat /\ bufTotal' = bufTotal - b[i] + s.len
          /\ \A j \in Reps : bufSlots'[j] = IF j = i THEN s ELSE bufSlots[j]
      BY <1>1, <1>3, <2>1 DEF Writes, BudgetInv, BuffersInv, TablesTyped
    <3>2. \A j \in Reps : c[j] = IF j = i THEN s.len ELSE b[j]
      BY <1>2, <1>3, <3>1 DEF Lengths
    <3>3. c \in [Reps -> Nat] /\ c[i] = s.len /\ \A j \in Reps \ {i} : c[j] = b[j]
      <4>1. c = [j \in Reps |-> IF j = i THEN s.len ELSE b[j]]
        BY <1>2, <3>2 DEF Lengths
      <4> QED
        BY <1>3, <3>1, <4>1
    <3>4. IsFiniteSet(Units(c)) /\ Total(c) = Total(b) - b[i] + s.len
      BY <1>3, <3>1, <3>3, WriteUnits
    <3> QED
      BY <1>3, <3>1, <3>4
  <2>2. CASE UNCHANGED <<bufSlots, bufTotal>>
    BY <1>2, <1>3, <2>2
  <2> QED
    BY <2>1, <2>2, WritesAreCounted
<1> QED
  BY <1>1, <1>2, <1>4 DEF BudgetInv, BudgetIsExact

\* The empty table's budget is exact.
LEMMA InitBudget == BuffersInit => BudgetInv
<1> SUFFICES ASSUME BuffersInit PROVE BudgetInv
  OBVIOUS
<1>1. BuffersInv /\ bufTotal = 0
  BY InitBuffersInv DEF BuffersInit
<1>2. PICK b : b = Lengths(bufSlots)
  OBVIOUS
<1>3. b \in [Reps -> Nat] /\ \A i \in Reps : b[i] = 0
  BY <1>1, <1>2, LengthsAreNat DEF BuffersInv, BuffersInit, Free
<1> QED
  BY <1>1, <1>2, <1>3, NoUnits DEF BudgetInv, BudgetIsExact

(***************************************************************************)
(* The kernel's table, for a child that makes one gate call at a time (a   *)
(* child that overlaps them loses bytes, see KHandlesOwnBytes). The budget *)
(* is exact because what a call writes over is empty: the slot its bytes   *)
(* left, in the child's table, and any slot, in the owner's.               *)
(***************************************************************************)

KSlots == {Nothing} \cup {Bytes(b, n) : b \in KIds, n \in 0 .. KMaxLen}
KTablesTyped ==
    /\ childTable \in [KReps -> KSlots] /\ ownerTable \in [KReps -> KSlots]
    /\ kMade \in 0 .. KMaxBuffers /\ kRep \in [KIds -> KReps \cup {0}]
    /\ crossing \in [Away -> KReps] /\ Away \subseteq KIds

\* A live handle is of an allocation made, and shares its slot with nobody.
KRepsDiffer ==
    /\ \A b \in KIds : kRep[b] # 0 => b <= kMade
    /\ \A b, c \in KIds : b # c /\ kRep[b] # 0 => kRep[b] # kRep[c]

\* What fills a slot of the child is the buffer that the child holds there.
ChildFits ==
    /\ \A b \in ChildHolds : childTable[kRep[b]].of = b
    /\ \A i \in KReps : childTable[i] # Nothing =>
         childTable[i].of \in ChildHolds /\ kRep[childTable[i].of] = i

\* At most one buffer crosses: its slot in the child's table is empty, and the
\* owner's table holds it and nothing else.
OneCrosses ==
    /\ \A b \in Away : kRep[b] # 0 /\ childTable[kRep[b]] = Nothing /\ ownerTable[crossing[b]].of = b
    /\ \A b, c \in Away : b = c
    /\ \A i \in KReps : ownerTable[i] # Nothing => \E b \in Away : crossing[b] = i

KBudgetInv ==
    /\ KTablesTyped /\ KRepsDiffer /\ ChildFits /\ OneCrosses
    /\ IsFiniteSet(Units(KLengths(childTable))) /\ IsFiniteSet(Units(KLengths(ownerTable)))
    /\ KBudgetIsExact

\* A slot is empty, or holds bytes of an allocation.
LEMMA KSlotKinds ==
    /\ Nothing.of = 0 /\ Nothing.len = 0
    /\ \A b, n : Bytes(b, n).of = b /\ Bytes(b, n).len = n
    /\ \A b \in KIds : \A n : Bytes(b, n) # Nothing
    /\ \A s \in KSlots : s.len \in Nat /\ s.len <= KMaxLen
    /\ \A s \in KSlots : s # Nothing => s.of \in KIds /\ s = Bytes(s.of, s.len)
    /\ Nothing \in KSlots /\ \A b \in KIds : \A n \in 0 .. KMaxLen : Bytes(b, n) \in KSlots
<1>1. /\ Nothing.of = 0 /\ Nothing.len = 0
      /\ \A b, n : Bytes(b, n).of = b /\ Bytes(b, n).len = n
  BY DEF Nothing, Bytes
<1>2. \A b \in KIds : \A n : Bytes(b, n) # Nothing
  <2>1. \A b \in KIds : b # 0
    BY KBuffersAssumption DEF KIds
  <2> QED
    BY <1>1, <2>1
<1>3. ASSUME NEW s \in KSlots
      PROVE  s = Nothing \/ \E b \in KIds, n \in 0 .. KMaxLen : s = Bytes(b, n)
  BY DEF KSlots
<1>4. \A n \in 0 .. KMaxLen : n \in Nat /\ n <= KMaxLen
  BY KBuffersAssumption
<1>5. 0 \in Nat /\ 0 <= KMaxLen
  BY KBuffersAssumption
<1>6. \A s \in KSlots : s.len \in Nat /\ s.len <= KMaxLen
  BY <1>1, <1>3, <1>4, <1>5
<1>7. \A s \in KSlots : s # Nothing => s.of \in KIds /\ s = Bytes(s.of, s.len)
  BY <1>1, <1>3
<1>8. Nothing \in KSlots /\ \A b \in KIds : \A n \in 0 .. KMaxLen : Bytes(b, n) \in KSlots
  BY DEF KSlots
<1> QED
  BY <1>1, <1>2, <1>6, <1>7, <1>8

\* The first empty slot is one.
LEMMA FirstEmptyIsEmpty ==
    ASSUME NEW table, \E i \in KReps : table[i] = Nothing
    PROVE  FirstEmpty(table) \in KReps /\ table[FirstEmpty(table)] = Nothing
<1>1. PICK S : S = {i \in KReps : table[i] = Nothing}
  OBVIOUS
<1>2. S \subseteq Nat /\ S # {}
  BY <1>1, KBuffersAssumption DEF KReps
<1>3. PICK m \in S : \A x \in S : m <= x
  BY <1>2, LeastNatural
<1> QED
  BY <1>1, <1>3 DEF FirstEmpty, Min

\* Fewer allocations than slots leave one empty: every filled slot has a buffer
\* of its own.
LEMMA RoomLeft ==
    ASSUME KTablesTyped, ChildFits, KRepsDiffer, kMade < KMaxBuffers
    PROVE  \E i \in KReps : childTable[i] = Nothing
<1> SUFFICES ASSUME \A i \in KReps : childTable[i] # Nothing PROVE FALSE
  OBVIOUS
<1>1. PICK f : f = [i \in KReps |-> childTable[i].of]
  OBVIOUS
<1>2. kMade \in Nat /\ KMaxBuffers \in Nat
  BY KBuffersAssumption DEF KTablesTyped
<1>3. \A i \in KReps : f[i] \in 1 .. kMade /\ kRep[f[i]] = i
  <2> SUFFICES ASSUME NEW i \in KReps PROVE f[i] \in 1 .. kMade /\ kRep[f[i]] = i
    OBVIOUS
  <2>1. f[i] \in KIds /\ kRep[f[i]] = i /\ kRep[f[i]] # 0
    BY <1>1 DEF ChildFits, ChildHolds
  <2> QED
    BY <1>2, <2>1 DEF KRepsDiffer, KIds
<1>4. f \in Injection(KReps, 1 .. kMade)
  <2>1. f \in [KReps -> 1 .. kMade]
    BY <1>1, <1>3
  <2>2. \A i, j \in KReps : f[i] = f[j] => i = j
    BY <1>3
  <2> QED
    BY <2>1, <2>2 DEF Injection, IsInjective
<1>5. /\ IsFiniteSet(1 .. kMade) /\ Cardinality(1 .. kMade) = kMade
      /\ IsFiniteSet(KReps) /\ Cardinality(KReps) = KMaxBuffers
  BY <1>2, FS_Interval DEF KReps
<1>6. Cardinality(KReps) <= Cardinality(1 .. kMade)
  BY <1>4, <1>5, FS_Injection
<1> QED
  BY <1>2, <1>5, <1>6

\* Writing a slot of a table moves its bytes by the difference, and what was
\* there is counted.
LEMMA KWrite ==
    ASSUME NEW table \in [KReps -> KSlots], IsFiniteSet(Units(KLengths(table))),
           NEW i \in KReps, NEW s \in KSlots, NEW after, after = [table EXCEPT ![i] = s]
    PROVE  /\ after \in [KReps -> KSlots] /\ IsFiniteSet(Units(KLengths(after)))
           /\ Total(KLengths(after)) = Total(KLengths(table)) - table[i].len + s.len
           /\ Total(KLengths(table)) \in Nat /\ table[i].len <= Total(KLengths(table))
<1>1. PICK b, c, n : b = KLengths(table) /\ c = KLengths(after) /\ n = s.len
  OBVIOUS
<1>2. \A t \in KSlots : t.len \in Nat
  BY KSlotKinds
<1>3. after \in [KReps -> KSlots] /\ \A j \in KReps : after[j] = IF j = i THEN s ELSE table[j]
  OBVIOUS
<1>4. b \in [KReps -> Nat] /\ b[i] = table[i].len
  BY <1>1, <1>2 DEF KLengths
<1>5. c \in [KReps -> Nat] /\ c[i] = n /\ \A j \in KReps \ {i} : c[j] = b[j]
  BY <1>1, <1>2, <1>3 DEF KLengths
<1>6. n \in Nat /\ IsFiniteSet(Units(b))
  BY <1>1, <1>2
<1>7. IsFiniteSet(Units(c)) /\ b[i] <= Total(b) /\ Total(c) = Total(b) - b[i] + n
  BY ONLY <1>4, <1>5, <1>6, i \in KReps, WriteUnits
<1>8. Total(b) \in Nat
  BY <1>6, FS_CardinalityType DEF Total
<1> QED
  BY <1>1, <1>3, <1>4, <1>7, <1>8

\* An empty table counts nothing.
LEMMA KEmpty ==
    ASSUME NEW table, table = [i \in KReps |-> Nothing]
    PROVE  /\ table \in [KReps -> KSlots] /\ IsFiniteSet(Units(KLengths(table)))
           /\ Total(KLengths(table)) = 0
<1>1. PICK b : b = KLengths(table)
  OBVIOUS
<1>2. b \in [KReps -> Nat] /\ \A i \in KReps : b[i] = 0
  BY <1>1, KSlotKinds DEF KLengths
<1>3. table \in [KReps -> KSlots]
  BY KSlotKinds
<1> QED
  BY <1>1, <1>2, <1>3, NoUnits

LEMMA InitKBudget == KBuffersInit => KBudgetInv
<1> SUFFICES ASSUME KBuffersInit PROVE KBudgetInv
  OBVIOUS
<1>1. /\ childTable \in [KReps -> KSlots] /\ IsFiniteSet(Units(KLengths(childTable)))
      /\ Total(KLengths(childTable)) = 0
      /\ ownerTable \in [KReps -> KSlots] /\ IsFiniteSet(Units(KLengths(ownerTable)))
      /\ Total(KLengths(ownerTable)) = 0
  BY KEmpty DEF KBuffersInit
<1>2. Away = {} /\ ChildHolds = {}
  BY DEF KBuffersInit, Away, ChildHolds
<1>3. KTablesTyped /\ KRepsDiffer /\ ChildFits /\ OneCrosses
  BY <1>1, <1>2, KBuffersAssumption
     DEF KBuffersInit, KTablesTyped, KRepsDiffer, ChildFits, OneCrosses
<1> QED
  BY <1>1, <1>3 DEF KBudgetInv, KBudgetIsExact, KBuffersInit

\* The allocation takes an empty slot: there is one.
LEMMA KAllocKeeps ==
    ASSUME KBudgetInv, ~Overlaps, NEW n \in 0 .. KMaxLen, KAlloc(n)
    PROVE  KBudgetInv'
<1>0. KTablesTyped /\ KRepsDiffer /\ ChildFits /\ OneCrosses /\ KBudgetIsExact
  BY DEF KBudgetInv
<1>1. PICK b, i : b = kMade + 1 /\ i = FirstEmpty(childTable)
  OBVIOUS
<1>2. /\ Away = {} /\ kMade < KMaxBuffers /\ kMade' = b
      /\ childTable' = [childTable EXCEPT ![i] = Bytes(b, n)] /\ kRep' = [kRep EXCEPT ![b] = i]
      /\ childTotal' = childTotal + n
      /\ ownerTable' = ownerTable /\ ownerTotal' = ownerTotal /\ crossing' = crossing
  BY <1>1 DEF KAlloc, GuestMayCall
<1>3. i \in KReps /\ childTable[i] = Nothing
  BY <1>0, <1>1, <1>2, RoomLeft, FirstEmptyIsEmpty
<1>4. b \in KIds /\ kMade \in Nat /\ kMade' \in 0 .. KMaxBuffers /\ kRep[b] = 0
  <2>1. kMade \in Nat /\ KMaxBuffers \in Nat
    BY <1>0, KBuffersAssumption DEF KTablesTyped
  <2>2. b \in KIds /\ kMade' \in 0 .. KMaxBuffers /\ ~(b <= kMade)
    BY <1>1, <1>2, <2>1 DEF KIds
  <2> QED
    BY <1>0, <2>1, <2>2 DEF KRepsDiffer
<1>5. Bytes(b, n) \in KSlots /\ Bytes(b, n).len = n /\ Bytes(b, n).of = b /\ Bytes(b, n) # Nothing
      /\ Nothing.len = 0
  BY <1>4, KSlotKinds
<1>6. /\ childTable' \in [KReps -> KSlots] /\ IsFiniteSet(Units(KLengths(childTable')))
      /\ Total(KLengths(childTable')) = Total(KLengths(childTable)) - 0 + n
      /\ Total(KLengths(childTable)) \in Nat
  <2>1. childTable \in [KReps -> KSlots] /\ IsFiniteSet(Units(KLengths(childTable)))
    BY <1>0 DEF KBudgetInv, KTablesTyped
  <2>2. PICK s \in KSlots : s = Bytes(b, n)
    BY <1>5
  <2>3. childTable' = [childTable EXCEPT ![i] = s]
    BY <1>2, <2>2
  <2>4. /\ childTable' \in [KReps -> KSlots] /\ IsFiniteSet(Units(KLengths(childTable')))
        /\ Total(KLengths(childTable')) = Total(KLengths(childTable)) - childTable[i].len + s.len
        /\ Total(KLengths(childTable)) \in Nat
    BY <1>3, <2>1, <2>3, KWrite
  <2> QED
    BY <1>3, <1>5, <2>2, <2>4
<1>7. Away' = {} /\ \A c \in KIds : kRep'[c] = IF c = b THEN i ELSE kRep[c]
  BY <1>0, <1>2, <1>4 DEF Away, KTablesTyped
<1>8. ChildHolds' = ChildHolds \cup {b} /\ b \notin ChildHolds
  BY <1>2, <1>3, <1>4, <1>7, KBuffersAssumption DEF ChildHolds, KReps
<1>9. \A c \in KIds : kRep[c] # i
  <2> SUFFICES ASSUME NEW c \in KIds, kRep[c] = i PROVE FALSE
    OBVIOUS
  <2>1. c \in ChildHolds /\ childTable[i].of = c
    BY <1>0, <1>2, <1>3, KBuffersAssumption DEF ChildFits, ChildHolds, KReps
  <2> QED
    BY <1>3, <2>1, KSlotKinds, KBuffersAssumption DEF KIds
<1>10. KTablesTyped'
  BY <1>0, <1>2, <1>3, <1>4, <1>6, <1>7 DEF KTablesTyped, Away
<1>11. KRepsDiffer'
  <2>1. \A c \in KIds : kRep'[c] # 0 => c <= kMade'
    BY <1>0, <1>1, <1>2, <1>4, <1>7 DEF KRepsDiffer, KIds
  <2>2. ASSUME NEW c \in KIds, NEW d \in KIds, c # d, kRep'[c] # 0 PROVE kRep'[c] # kRep'[d]
    BY <1>0, <1>7, <1>9, <2>2 DEF KRepsDiffer
  <2> QED
    BY <2>1, <2>2 DEF KRepsDiffer
<1>12. ChildFits'
  <2>1. \A j \in KReps : childTable'[j] = IF j = i THEN Bytes(b, n) ELSE childTable[j]
    BY <1>0, <1>2 DEF KTablesTyped
  <2>2. ASSUME NEW c \in ChildHolds' PROVE childTable'[kRep'[c]].of = c
    <3>1. CASE c = b
      BY <1>3, <1>4, <1>5, <1>7, <2>1, <3>1
    <3>2. CASE c # b
      <4>1. c \in ChildHolds /\ c \in KIds /\ kRep'[c] = kRep[c] /\ kRep[c] # i /\ kRep[c] \in KReps
        BY <1>0, <1>7, <1>8, <1>9, <2>2, <3>2 DEF ChildHolds, KTablesTyped
      <4> QED
        BY <1>0, <2>1, <4>1 DEF ChildFits
    <3> QED
      BY <3>1, <3>2
  <2>3. ASSUME NEW j \in KReps, childTable'[j] # Nothing
        PROVE  childTable'[j].of \in ChildHolds' /\ kRep'[childTable'[j].of] = j
    <3>1. CASE j = i
      BY <1>4, <1>5, <1>7, <1>8, <2>1, <3>1
    <3>2. CASE j # i
      <4>1. childTable'[j] = childTable[j] /\ childTable[j].of \in ChildHolds /\ kRep[childTable[j].of] = j
        BY <1>0, <2>1, <2>3, <3>2 DEF ChildFits
      <4> QED
        BY <1>7, <1>8, <4>1 DEF ChildHolds
    <3> QED
      BY <3>1, <3>2
  <2> QED
    BY <2>2, <2>3 DEF ChildFits
<1>13. OneCrosses'
  BY <1>0, <1>2, <1>7 DEF OneCrosses
<1>14. KBudgetIsExact'
  BY <1>0, <1>2, <1>6 DEF KBudgetIsExact
<1> QED
  BY <1>2, <1>6, <1>10, <1>11, <1>12, <1>13, <1>14 DEF KBudgetInv

\* The child frees a buffer: its slot is empty, and nobody else's.
LEMMA KFreeKeeps ==
    ASSUME KBudgetInv, ~Overlaps, NEW b \in KIds, KFree(b)
    PROVE  KBudgetInv'
<1>0. KTablesTyped /\ KRepsDiffer /\ ChildFits /\ OneCrosses /\ KBudgetIsExact
  BY DEF KBudgetInv
<1>1. PICK i, old : i = kRep[b] /\ old = childTable[i].len
  OBVIOUS
<1>2. /\ Away = {} /\ b \in ChildHolds /\ i \in KReps
      /\ childTable' = [childTable EXCEPT ![i] = Nothing] /\ kRep' = [kRep EXCEPT ![b] = 0]
      /\ childTotal' = childTotal - old /\ kMade' = kMade
      /\ ownerTable' = ownerTable /\ ownerTotal' = ownerTotal /\ crossing' = crossing
  <2>1. kRep[b] \in KReps
    BY <1>0 DEF KFree, ChildHolds, KTablesTyped
  <2> QED
    BY <1>1, <2>1 DEF KFree, GuestMayCall
<1>3. PICK s \in KSlots : s = Nothing /\ s.len = 0
  BY KSlotKinds
<1>4. /\ childTable' \in [KReps -> KSlots] /\ IsFiniteSet(Units(KLengths(childTable')))
      /\ Total(KLengths(childTable')) = Total(KLengths(childTable)) - old + 0
      /\ Total(KLengths(childTable)) \in Nat /\ old <= Total(KLengths(childTable)) /\ old \in Nat
  <2>1. childTable \in [KReps -> KSlots] /\ IsFiniteSet(Units(KLengths(childTable)))
    BY <1>0 DEF KBudgetInv, KTablesTyped
  <2>2. childTable' = [childTable EXCEPT ![i] = s]
    BY <1>2, <1>3
  <2>3. /\ childTable' \in [KReps -> KSlots] /\ IsFiniteSet(Units(KLengths(childTable')))
        /\ Total(KLengths(childTable')) = Total(KLengths(childTable)) - childTable[i].len + s.len
        /\ Total(KLengths(childTable)) \in Nat /\ childTable[i].len <= Total(KLengths(childTable))
    BY <1>2, <2>1, <2>2, KWrite
  <2>4. childTable[i].len \in Nat
    BY <1>2, <2>1, KSlotKinds
  <2> QED
    BY <1>1, <1>3, <2>3, <2>4
<1>5. Away' = {} /\ \A c \in KIds : kRep'[c] = IF c = b THEN 0 ELSE kRep[c]
  BY <1>0, <1>2 DEF Away, KTablesTyped
<1>6. ChildHolds' = ChildHolds \ {b}
  BY <1>2, <1>5 DEF ChildHolds
<1>7. KTablesTyped'
  BY <1>0, <1>2, <1>4, <1>5 DEF KTablesTyped, Away
<1>8. KRepsDiffer'
  BY <1>0, <1>2, <1>5 DEF KRepsDiffer
<1>9. ChildFits'
  <2>1. \A j \in KReps : childTable'[j] = IF j = i THEN Nothing ELSE childTable[j]
    BY <1>0, <1>2 DEF KTablesTyped
  <2>2. ASSUME NEW c \in ChildHolds' PROVE childTable'[kRep'[c]].of = c
    <3>1. c \in ChildHolds /\ c # b /\ c \in KIds /\ kRep'[c] = kRep[c] /\ kRep[c] \in KReps /\ kRep[c] # 0
      BY <1>0, <1>5, <1>6, <2>2 DEF ChildHolds, KTablesTyped
    <3>2. kRep[c] # i
      BY <1>0, <1>1, <3>1 DEF KRepsDiffer
    <3> QED
      BY <1>0, <2>1, <3>1, <3>2 DEF ChildFits
  <2>3. ASSUME NEW j \in KReps, childTable'[j] # Nothing
        PROVE  childTable'[j].of \in ChildHolds' /\ kRep'[childTable'[j].of] = j
    <3>1. j # i /\ childTable'[j] = childTable[j] /\ childTable[j] # Nothing
      BY <2>1, <2>3
    <3>2. childTable[j].of \in ChildHolds /\ kRep[childTable[j].of] = j
      BY <1>0, <3>1 DEF ChildFits
    <3>3. childTable[j].of # b
      BY <1>1, <3>1, <3>2
    <3> QED
      BY <1>5, <1>6, <3>1, <3>2, <3>3 DEF ChildHolds
  <2> QED
    BY <2>2, <2>3 DEF ChildFits
<1>10. OneCrosses'
  BY <1>0, <1>2, <1>5 DEF OneCrosses
<1>11. KBudgetIsExact'
  BY <1>0, <1>2, <1>4 DEF KBudgetIsExact
<1> QED
  BY <1>2, <1>4, <1>7, <1>8, <1>9, <1>10, <1>11 DEF KBudgetInv

\* A gate call moves the bytes into an owner's table that is empty.
LEMMA CrossKeeps ==
    ASSUME KBudgetInv, ~Overlaps, NEW b \in KIds, Cross(b)
    PROVE  KBudgetInv'
<1>0. KTablesTyped /\ KRepsDiffer /\ ChildFits /\ OneCrosses /\ KBudgetIsExact
  BY DEF KBudgetInv
<1>1. PICK r, bytes, i : r = kRep[b] /\ bytes = childTable[r] /\ i = FirstEmpty(ownerTable)
  OBVIOUS
<1>2. /\ Away = {} /\ b \in ChildHolds /\ r \in KReps /\ bytes \in KSlots /\ bytes.of = b
      /\ childTable' = [childTable EXCEPT ![r] = Nothing] /\ childTotal' = childTotal - bytes.len
      /\ ownerTable' = [ownerTable EXCEPT ![i] = bytes] /\ ownerTotal' = ownerTotal + bytes.len
      /\ crossing' = [c \in Away \cup {b} |-> IF c = b THEN i ELSE crossing[c]]
      /\ kMade' = kMade /\ kRep' = kRep
  <2>1. Away = {} /\ b \in ChildHolds
    BY DEF Cross, GuestMayCall
  <2>2. r \in KReps /\ bytes \in KSlots /\ bytes.of = b
    BY <1>0, <1>1, <2>1 DEF ChildHolds, ChildFits, KTablesTyped
  <2> QED
    BY <1>1, <2>1, <2>2 DEF Cross
<1>3. i \in KReps /\ ownerTable[i] = Nothing /\ \A j \in KReps : ownerTable[j] = Nothing
  <2>1. \A j \in KReps : ownerTable[j] = Nothing
    BY <1>0, <1>2 DEF OneCrosses
  <2>2. \E j \in KReps : ownerTable[j] = Nothing
    BY <1>2, <2>1
  <2>3. FirstEmpty(ownerTable) \in KReps /\ ownerTable[FirstEmpty(ownerTable)] = Nothing
    BY <2>2, FirstEmptyIsEmpty
  <2> QED
    BY <1>1, <2>1, <2>3
<1>4. PICK none \in KSlots : none = Nothing /\ none.len = 0
  BY KSlotKinds
<1>5. /\ childTable' \in [KReps -> KSlots] /\ IsFiniteSet(Units(KLengths(childTable')))
      /\ Total(KLengths(childTable')) = Total(KLengths(childTable)) - bytes.len + 0
      /\ Total(KLengths(childTable)) \in Nat /\ bytes.len <= Total(KLengths(childTable)) /\ bytes.len \in Nat
  <2>1. childTable \in [KReps -> KSlots] /\ IsFiniteSet(Units(KLengths(childTable)))
    BY <1>0 DEF KBudgetInv, KTablesTyped
  <2>2. childTable' = [childTable EXCEPT ![r] = none]
    BY <1>2, <1>4
  <2>3. /\ childTable' \in [KReps -> KSlots] /\ IsFiniteSet(Units(KLengths(childTable')))
        /\ Total(KLengths(childTable')) = Total(KLengths(childTable)) - childTable[r].len + none.len
        /\ Total(KLengths(childTable)) \in Nat /\ childTable[r].len <= Total(KLengths(childTable))
    BY <1>2, <2>1, <2>2, KWrite
  <2>4. bytes.len \in Nat
    BY <1>2, KSlotKinds
  <2> QED
    BY <1>1, <1>4, <2>3, <2>4
<1>6. /\ ownerTable' \in [KReps -> KSlots] /\ IsFiniteSet(Units(KLengths(ownerTable')))
      /\ Total(KLengths(ownerTable')) = Total(KLengths(ownerTable)) - 0 + bytes.len
      /\ Total(KLengths(ownerTable)) \in Nat
  <2>1. ownerTable \in [KReps -> KSlots] /\ IsFiniteSet(Units(KLengths(ownerTable)))
    BY <1>0 DEF KBudgetInv, KTablesTyped
  <2>2. PICK s \in KSlots : s = bytes
    BY <1>2
  <2>3. i \in KReps /\ ownerTable' = [ownerTable EXCEPT ![i] = s]
    BY <1>2, <1>3, <2>2
  <2>4. /\ ownerTable' \in [KReps -> KSlots] /\ IsFiniteSet(Units(KLengths(ownerTable')))
        /\ Total(KLengths(ownerTable')) = Total(KLengths(ownerTable)) - ownerTable[i].len + s.len
        /\ Total(KLengths(ownerTable)) \in Nat
    BY <2>1, <2>3, KWrite
  <2> QED
    BY <1>3, <1>4, <2>2, <2>4
<1>7. Away' = {b} /\ crossing'[b] = i /\ ChildHolds' = ChildHolds \ {b}
  BY <1>2 DEF Away, ChildHolds
<1>8. \A j \in KReps : /\ childTable'[j] = IF j = r THEN Nothing ELSE childTable[j]
                       /\ ownerTable'[j] = IF j = i THEN bytes ELSE Nothing
  BY <1>0, <1>2, <1>3 DEF KTablesTyped
<1>9. KTablesTyped'
  BY <1>0, <1>2, <1>3, <1>5, <1>6, <1>7 DEF KTablesTyped, Away
<1>10. KRepsDiffer'
  BY <1>0, <1>2 DEF KRepsDiffer
<1>11. ChildFits'
  <2>1. ASSUME NEW c \in ChildHolds' PROVE childTable'[kRep'[c]].of = c
    <3>1. c \in ChildHolds /\ c # b /\ c \in KIds /\ kRep[c] \in KReps /\ kRep[c] # 0
      BY <1>0, <1>7, <2>1 DEF ChildHolds, KTablesTyped
    <3>2. kRep[c] # r
      BY <1>0, <1>1, <3>1 DEF KRepsDiffer
    <3> QED
      BY <1>0, <1>2, <1>8, <3>1, <3>2 DEF ChildFits
  <2>2. ASSUME NEW j \in KReps, childTable'[j] # Nothing
        PROVE  childTable'[j].of \in ChildHolds' /\ kRep'[childTable'[j].of] = j
    <3>1. j # r /\ childTable'[j] = childTable[j] /\ childTable[j] # Nothing
      BY <1>8, <2>2
    <3>2. childTable[j].of \in ChildHolds /\ kRep[childTable[j].of] = j
      BY <1>0, <3>1 DEF ChildFits
    <3>3. childTable[j].of # b
      BY <1>1, <3>1, <3>2
    <3> QED
      BY <1>2, <1>7, <3>1, <3>2, <3>3
  <2> QED
    BY <2>1, <2>2 DEF ChildFits
<1>12. OneCrosses'
  <2>1. kRep'[b] # 0 /\ kRep'[b] = r /\ childTable'[r] = Nothing /\ ownerTable'[crossing'[b]].of = b
    BY <1>1, <1>2, <1>3, <1>7, <1>8 DEF ChildHolds
  <2>2. \A j \in KReps : ownerTable'[j] # Nothing => j = i
    BY <1>8
  <2> QED
    BY <1>7, <2>1, <2>2 DEF OneCrosses
<1>13. KBudgetIsExact'
  BY <1>0, <1>2, <1>5, <1>6 DEF KBudgetIsExact
<1> QED
  BY <1>5, <1>6, <1>9, <1>10, <1>11, <1>12, <1>13 DEF KBudgetInv

\* The answer: the bytes come back to the slot they left, which is empty.
LEMMA CrossBackKeeps ==
    ASSUME KBudgetInv, NEW b \in KIds, CrossBack(b)
    PROVE  KBudgetInv'
<1>0. KTablesTyped /\ KRepsDiffer /\ ChildFits /\ OneCrosses /\ KBudgetIsExact
  BY DEF KBudgetInv
<1>1. PICK r, i, bytes : r = kRep[b] /\ i = crossing[b] /\ bytes = ownerTable[i]
  OBVIOUS
<1>2. /\ b \in Away /\ r \in KReps /\ r # 0 /\ i \in KReps /\ bytes \in KSlots /\ bytes.of = b
      /\ childTable[r] = Nothing /\ Away = {b}
      /\ childTable' = [childTable EXCEPT ![r] = bytes] /\ childTotal' = childTotal + bytes.len
      /\ ownerTable' = [ownerTable EXCEPT ![i] = Nothing] /\ ownerTotal' = ownerTotal - bytes.len
      /\ crossing' = [c \in Away \ {b} |-> crossing[c]]
      /\ kMade' = kMade /\ kRep' = kRep
  <2>1. b \in Away
    BY DEF CrossBack
  <2>2. r \in KReps /\ r # 0 /\ i \in KReps /\ bytes \in KSlots /\ bytes.of = b /\ childTable[r] = Nothing
    BY <1>0, <1>1, <2>1 DEF OneCrosses, KTablesTyped
  <2>3. Away = {b}
    BY <1>0, <2>1 DEF OneCrosses
  <2> QED
    BY <1>1, <2>1, <2>2, <2>3 DEF CrossBack, Lands, Counted
<1>3. PICK none \in KSlots : none = Nothing /\ none.len = 0
  BY KSlotKinds
<1>4. /\ childTable' \in [KReps -> KSlots] /\ IsFiniteSet(Units(KLengths(childTable')))
      /\ Total(KLengths(childTable')) = Total(KLengths(childTable)) - 0 + bytes.len
      /\ Total(KLengths(childTable)) \in Nat
  <2>1. childTable \in [KReps -> KSlots] /\ IsFiniteSet(Units(KLengths(childTable)))
    BY <1>0 DEF KBudgetInv, KTablesTyped
  <2>2. PICK s \in KSlots : s = bytes
    BY <1>2
  <2>3. r \in KReps /\ childTable' = [childTable EXCEPT ![r] = s]
    BY <1>2, <2>2
  <2>4. /\ childTable' \in [KReps -> KSlots] /\ IsFiniteSet(Units(KLengths(childTable')))
        /\ Total(KLengths(childTable')) = Total(KLengths(childTable)) - childTable[r].len + s.len
        /\ Total(KLengths(childTable)) \in Nat
    BY <2>1, <2>3, KWrite
  <2> QED
    BY <1>2, <1>3, <2>2, <2>4
<1>5. /\ ownerTable' \in [KReps -> KSlots] /\ IsFiniteSet(Units(KLengths(ownerTable')))
      /\ Total(KLengths(ownerTable')) = Total(KLengths(ownerTable)) - bytes.len + 0
      /\ Total(KLengths(ownerTable)) \in Nat /\ bytes.len <= Total(KLengths(ownerTable)) /\ bytes.len \in Nat
  <2>1. ownerTable \in [KReps -> KSlots] /\ IsFiniteSet(Units(KLengths(ownerTable)))
    BY <1>0 DEF KBudgetInv, KTablesTyped
  <2>2. i \in KReps /\ ownerTable' = [ownerTable EXCEPT ![i] = none]
    BY <1>2, <1>3
  <2>3. /\ ownerTable' \in [KReps -> KSlots] /\ IsFiniteSet(Units(KLengths(ownerTable')))
        /\ Total(KLengths(ownerTable')) = Total(KLengths(ownerTable)) - ownerTable[i].len + none.len
        /\ Total(KLengths(ownerTable)) \in Nat /\ ownerTable[i].len <= Total(KLengths(ownerTable))
    BY <2>1, <2>2, KWrite
  <2>4. bytes.len \in Nat
    BY <1>2, KSlotKinds
  <2> QED
    BY <1>1, <1>3, <2>3, <2>4
<1>6. Away' = {} /\ ChildHolds' = ChildHolds \cup {b} /\ b \notin ChildHolds
  BY <1>1, <1>2 DEF Away, ChildHolds
<1>7. \A j \in KReps : /\ childTable'[j] = IF j = r THEN bytes ELSE childTable[j]
                       /\ ownerTable'[j] = IF j = i THEN Nothing ELSE ownerTable[j]
  BY <1>0, <1>2 DEF KTablesTyped
<1>8. KTablesTyped'
  BY <1>0, <1>2, <1>4, <1>5, <1>6 DEF KTablesTyped, Away
<1>9. KRepsDiffer'
  BY <1>0, <1>2 DEF KRepsDiffer
<1>10. ChildFits'
  <2>1. ASSUME NEW c \in ChildHolds' PROVE childTable'[kRep'[c]].of = c
    <3>1. CASE c = b
      BY <1>1, <1>2, <1>7, <3>1
    <3>2. CASE c # b
      <4>1. c \in ChildHolds /\ c \in KIds /\ kRep[c] \in KReps /\ kRep[c] # 0
        BY <1>0, <1>6, <2>1, <3>2 DEF ChildHolds, KTablesTyped
      <4>2. kRep[c] # r
        BY <1>0, <1>1, <3>2, <4>1 DEF KRepsDiffer
      <4> QED
        BY <1>0, <1>2, <1>7, <4>1, <4>2 DEF ChildFits
    <3> QED
      BY <3>1, <3>2
  <2>2. ASSUME NEW j \in KReps, childTable'[j] # Nothing
        PROVE  childTable'[j].of \in ChildHolds' /\ kRep'[childTable'[j].of] = j
    <3>1. CASE j = r
      BY <1>1, <1>2, <1>6, <1>7, <3>1
    <3>2. CASE j # r
      <4>1. childTable'[j] = childTable[j] /\ childTable[j].of \in ChildHolds /\ kRep[childTable[j].of] = j
        BY <1>0, <1>7, <2>2, <3>2 DEF ChildFits
      <4> QED
        BY <1>2, <1>6, <4>1
    <3> QED
      BY <3>1, <3>2
  <2> QED
    BY <2>1, <2>2 DEF ChildFits
<1>11. OneCrosses'
  <2>1. \A j \in KReps : ownerTable'[j] = Nothing
    BY <1>0, <1>1, <1>2, <1>7 DEF OneCrosses
  <2> QED
    BY <1>6, <2>1 DEF OneCrosses
<1>12. KBudgetIsExact'
  BY <1>0, <1>2, <1>4, <1>5 DEF KBudgetIsExact
<1> QED
  BY <1>4, <1>5, <1>8, <1>9, <1>10, <1>11, <1>12 DEF KBudgetInv

\* The owner's run ends: its table goes, and the child's buffer comes back empty.
LEMMA SeveredKeeps ==
    ASSUME KBudgetInv, Severed
    PROVE  KBudgetInv'
<1>0. KTablesTyped /\ KRepsDiffer /\ ChildFits /\ OneCrosses /\ KBudgetIsExact
  BY DEF KBudgetInv
<1>1. PICK b \in Away : Away = {b}
  BY <1>0 DEF Severed, OneCrosses
<1>2. PICK r : r = kRep[b]
  OBVIOUS
<1>3. /\ b \in KIds /\ r \in KReps /\ r # 0 /\ childTable[r] = Nothing
      /\ ownerTable' = [j \in KReps |-> Nothing] /\ ownerTotal' = 0
      /\ crossing' = [c \in {} |-> 0] /\ childTotal' = childTotal /\ kMade' = kMade /\ kRep' = kRep
  BY <1>0, <1>1, <1>2 DEF Severed, OneCrosses, KTablesTyped
<1>4. PICK s \in KSlots : s = Bytes(b, 0) /\ s.of = b /\ s.len = 0 /\ s # Nothing
  <2>1. 0 \in 0 .. KMaxLen
    BY KBuffersAssumption
  <2> QED
    BY <1>3, <2>1, KSlotKinds
<1>5. childTable' = [childTable EXCEPT ![r] = s]
  <2>1. (CHOOSE c \in Away : kRep[c] = r) = b
    BY <1>1, <1>2
  <2>2. childTable' = [j \in KReps |-> IF j = r THEN s ELSE childTable[j]]
    BY <1>1, <1>2, <1>4, <2>1 DEF Severed
  <2> QED
    BY <1>0, <1>3, <2>2 DEF KTablesTyped
<1>6. /\ childTable' \in [KReps -> KSlots] /\ IsFiniteSet(Units(KLengths(childTable')))
      /\ Total(KLengths(childTable')) = Total(KLengths(childTable))
  <2>1. childTable \in [KReps -> KSlots] /\ IsFiniteSet(Units(KLengths(childTable)))
    BY <1>0 DEF KBudgetInv, KTablesTyped
  <2>2. r \in KReps
    BY <1>3
  <2>3. /\ childTable' \in [KReps -> KSlots] /\ IsFiniteSet(Units(KLengths(childTable')))
        /\ Total(KLengths(childTable')) = Total(KLengths(childTable)) - childTable[r].len + s.len
        /\ Total(KLengths(childTable)) \in Nat
    BY <1>5, <2>1, <2>2, KWrite
  <2>4. childTable[r].len = 0
    BY <1>3, KSlotKinds
  <2> QED
    BY <1>4, <2>3, <2>4
<1>7. /\ ownerTable' \in [KReps -> KSlots] /\ IsFiniteSet(Units(KLengths(ownerTable')))
      /\ Total(KLengths(ownerTable')) = 0
  BY <1>3, KEmpty
<1>8. Away' = {} /\ ChildHolds' = ChildHolds \cup {b} /\ b \notin ChildHolds
  BY <1>1, <1>2, <1>3 DEF Away, ChildHolds
<1>9. \A j \in KReps : childTable'[j] = IF j = r THEN s ELSE childTable[j]
  BY <1>0, <1>5 DEF KTablesTyped
<1>10. KTablesTyped'
  BY <1>0, <1>3, <1>6, <1>7, <1>8 DEF KTablesTyped, Away
<1>11. KRepsDiffer'
  BY <1>0, <1>3 DEF KRepsDiffer
<1>12. ChildFits'
  <2>1. ASSUME NEW c \in ChildHolds' PROVE childTable'[kRep'[c]].of = c
    <3>1. CASE c = b
      BY <1>2, <1>3, <1>4, <1>9, <3>1
    <3>2. CASE c # b
      <4>1. c \in ChildHolds /\ c \in KIds /\ kRep[c] \in KReps /\ kRep[c] # 0
        BY <1>0, <1>8, <2>1, <3>2 DEF ChildHolds, KTablesTyped
      <4>2. kRep[c] # r
        BY <1>0, <1>2, <1>3, <3>2, <4>1 DEF KRepsDiffer
      <4> QED
        BY <1>0, <1>3, <1>9, <4>1, <4>2 DEF ChildFits
    <3> QED
      BY <3>1, <3>2
  <2>2. ASSUME NEW j \in KReps, childTable'[j] # Nothing
        PROVE  childTable'[j].of \in ChildHolds' /\ kRep'[childTable'[j].of] = j
    <3>1. CASE j = r
      BY <1>2, <1>3, <1>4, <1>8, <1>9, <3>1
    <3>2. CASE j # r
      <4>1. childTable'[j] = childTable[j] /\ childTable[j].of \in ChildHolds /\ kRep[childTable[j].of] = j
        BY <1>0, <1>9, <2>2, <3>2 DEF ChildFits
      <4> QED
        BY <1>3, <1>8, <4>1
    <3> QED
      BY <3>1, <3>2
  <2> QED
    BY <2>1, <2>2 DEF ChildFits
<1>13. OneCrosses'
  <2>1. \A j \in KReps : ownerTable'[j] = Nothing
    BY <1>3
  <2> QED
    BY <1>8, <2>1 DEF OneCrosses
<1>14. KBudgetIsExact'
  BY <1>0, <1>3, <1>6, <1>7 DEF KBudgetIsExact
<1> QED
  BY <1>6, <1>7, <1>10, <1>11, <1>12, <1>13, <1>14 DEF KBudgetInv

LEMMA KBudgetKeeps ==
    ASSUME ~Overlaps
    PROVE  KBudgetInv /\ [KBuffersNext]_kbufVars => KBudgetInv'
<1> SUFFICES ASSUME KBudgetInv, [KBuffersNext]_kbufVars PROVE KBudgetInv'
  OBVIOUS
<1>1. CASE UNCHANGED kbufVars
  BY <1>1 DEF kbufVars, KBudgetInv, KTablesTyped, KRepsDiffer, ChildFits, OneCrosses,
              KBudgetIsExact, Away, ChildHolds
<1>2. ASSUME NEW n \in 0 .. KMaxLen, KAlloc(n) PROVE KBudgetInv'
  BY <1>2, KAllocKeeps
<1>3. ASSUME NEW b \in KIds, KFree(b) PROVE KBudgetInv'
  BY <1>3, KFreeKeeps
<1>4. ASSUME NEW b \in KIds, Cross(b) PROVE KBudgetInv'
  BY <1>4, CrossKeeps
<1>5. ASSUME NEW b \in KIds, CrossBack(b) PROVE KBudgetInv'
  BY <1>5, CrossBackKeeps
<1>6. CASE Severed
  BY <1>6, SeveredKeeps
<1> QED
  BY <1>1, <1>2, <1>3, <1>4, <1>5, <1>6 DEF KBuffersNext

\* Neither the hosted table nor the kernel's drifts from its total_bytes, whatever
\* is allocated, freed, lent, answered or severed, for a child that makes one gate
\* call at a time (BufferTable of eo9-runtime/src/task.rs and of wasm/shellfs.rs).
THEOREM BudgetsStayExact ==
    ASSUME ~Overlaps
    PROVE  BuffersSpec /\ KBuffersSpec => []BudgetsAreExact
<1>1. BudgetInv /\ KBudgetInv => BudgetsAreExact
  BY DEF BudgetInv, KBudgetInv, BudgetsAreExact
<1>2. KBudgetInv /\ [KBuffersNext]_kbufVars => KBudgetInv'
  BY KBudgetKeeps
<1> QED
  BY <1>1, <1>2, InitBudget, BudgetKeeps, InitKBudget, PTL DEF BuffersSpec, KBuffersSpec

----------------------------------------------------------------------------
(***************************************************************************)
(* TaskDrive. A wakeup is a fact about one parent and one child: the wait  *)
(* is to be polled again, is being polled, or is registered with a bell    *)
(* that has not been rung. The invariant says so for each pair, and what   *)
(* is to be polled keeps its task, and so the chain up to the root, from   *)
(* being taken for blocked.                                                *)
(***************************************************************************)

Futures == Tasks \cup {Io}
PastTakes == {"futures", "register", "reobserve", "pending"}
Frames == [task : Tasks, pc : PastTakes \cup {"kids"}, budget : 0 .. BudgetMax, todo : Seq(Futures)]
Ringing == [bell : Tasks, pc : {"store", "drain"}]

DriveTyped ==
    /\ rung \in [Tasks -> BOOLEAN] /\ parked \in [Tasks -> BOOLEAN] /\ busy \in [Tasks -> BOOLEAN]
    /\ waiters \in [Tasks -> SUBSET (Tasks \cup {Thread})]
    /\ outcome \in [Tasks -> {"unborn", "running", "done", "killed"}]
    /\ carried \in [Tasks -> 0 .. BudgetMax]
    /\ await \in [Tasks -> SUBSET Futures] /\ woken \in [Tasks -> SUBSET Futures]
    /\ \A t \in Tasks : await[t] \cup woken[t] \subseteq {Io} \cup KidSet(t)
    /\ prov \in [Tasks -> {Quiet} \cup Ringing]
    /\ stack \in Seq(Frames) /\ token \in BOOLEAN
    /\ emb \in {"resume", "observe", "register", "reobserve", "park", "stop"}

\* The nested resumes are a path of the tree, from the innermost up to the
\* root, of tasks that are not parked; only the innermost is past its children.
FrameOK(f) ==
    /\ f.todo \in Seq(IF f.pc = "kids" THEN KidSet(f.task) ELSE {Io} \cup KidSet(f.task))
    /\ f.pc # "kids" => f.budget >= 1
IsPath(s) ==
    /\ \A i \in 1 .. Len(s) : /\ FrameOK(s[i]) /\ (i > 1 => s[i].pc = "kids")
                              /\ i = Len(s) => s[i].task = Root
                              /\ i < Len(s) => s[i].task # Root /\ Parent[s[i].task] = s[i + 1].task
    /\ \A i, j \in 1 .. Len(s) : s[i].task = s[j].task => i = j
OnPath(s, t) == \E i \in 1 .. Len(s) : s[i].task = t
StackIsPath ==
    /\ IsPath(stack) /\ \A t \in Tasks : OnPath(stack, t) => ~parked[t] /\ outcome[t] # "unborn"
    /\ stack # <<>> => emb = "resume"

\* Who has a ring of b's bell under way.
Storing(b) == \E t \in Tasks : prov[t] # Quiet /\ prov[t].bell = b /\ prov[t].pc = "store"
Draining(b) == \E t \in Tasks : prov[t] # Quiet /\ prov[t].bell = b /\ prov[t].pc = "drain"

\* p's wait for k: to be polled again, being polled, or registered with k's
\* bell, which is silent or about to be drained.
PollsNow(p, k) ==
    stack # <<>> /\ Top.task = p /\ Top.pc \in PastTakes \ {"pending"} /\ k \in ToSet(Top.todo)
Registered(p, k) == p \in waiters[k] /\ Running(k) /\ (IsRunnable(k) => Draining(k))
WaitsAreKept ==
    \A p, k \in Tasks : Running(p) /\ k \in await[p] => k \in woken[p] \/ PollsNow(p, k) \/ Registered(p, k)

\* poll_edge between its steps.
MidPoll ==
    stack # <<>> /\ Top.pc \in {"register", "reobserve"} =>
        /\ Top.todo # <<>> /\ Head(Top.todo) \in Tasks /\ Running(Head(Top.todo))
        /\ Top.pc = "reobserve" /\ Head(Top.todo) \in await[Top.task] =>
             Top.task \in waiters[Head(Top.todo)] \/ Head(Top.todo) \in woken[Top.task]

\* What is to be polled again has rung, or is about to ring, its task's bell,
\* or the task goes on without it.
PastTake(p) == stack # <<>> /\ Top.task = p /\ Top.pc \in PastTakes
WakesAreKept ==
    \A p \in Tasks : Running(p) /\ woken[p] # {} => rung[p] \/ Storing(p) \/ (~parked[p] /\ ~PastTake(p))

UnbornAreIdle == \A t \in Tasks : outcome[t] = "unborn" => await[t] = {} /\ woken[t] = {}

\* The park: once the thread is registered, a ring of the root's bell gives it
\* the token.
ParkIsKept ==
    stack = <<>> /\ ~token =>
        /\ emb \in {"reobserve", "park"} => Thread \in waiters[Root]
        /\ emb = "park" => (IsRunnable(Root) => Draining(Root))

DriveInv ==
    /\ WellFormed /\ DriveTyped /\ StackIsPath /\ WaitsAreKept /\ MidPoll /\ WakesAreKept
    /\ UnbornAreIdle /\ ParkIsKept

----------------------------------------------------------------------------
\* A sequence of a finite set holds all of it.
LEMMA SetToSeqFacts ==
    ASSUME NEW S, IsFiniteSet(S)
    PROVE  SetToSeq(S) \in Seq(S) /\ ToSet(SetToSeq(S)) = S
<1> DEFINE n == Cardinality(S)
<1>1. n \in Nat /\ ExistsBijection(1 .. n, S)
  BY FS_CardinalityType
<1>2. PICK g : g \in [1 .. n -> S] /\ IsInjective(g)
  BY <1>1 DEF ExistsBijection, Bijection, Injection
<1>3. PICK f : f = SetToSeq(S)
  OBVIOUS
<1>4. f \in [1 .. n -> S] /\ IsInjective(f)
  BY <1>2, <1>3 DEF SetToSeq
<1>5. f \in Injection(1 .. n, S) /\ IsFiniteSet(1 .. n) /\ Cardinality(1 .. n) = n
  BY <1>1, <1>4, FS_Interval DEF Injection
<1>6. f \in Surjection(1 .. n, S)
  BY <1>5, FS_Injection
<1>7. \A x \in S : \E i \in 1 .. n : f[i] = x
  BY <1>6 DEF Surjection
<1>8. DOMAIN f = 1 .. n /\ f \in Seq(S)
  BY <1>1, <1>4
<1> QED
  BY <1>3, <1>4, <1>7, <1>8 DEF ToSet

\* The children in a table, and what a guest waits for, are finitely many.
LEMMA KidsAreFinite ==
    ASSUME WellFormed, NEW t \in Tasks, NEW S, S \subseteq {Io} \cup KidSet(t)
    PROVE  IsFiniteSet(S)
<1>1. PICK s : s = Kids[t]
  OBVIOUS
<1>2. s \in Seq(Tasks) /\ DOMAIN s = 1 .. Len(s) /\ Len(s) \in Nat /\ KidSet(t) = {s[i] : i \in 1 .. Len(s)}
  BY <1>1 DEF WellFormed, KidSet, ToSet
<1>3. s \in Surjection(1 .. Len(s), KidSet(t))
  BY <1>2 DEF Surjection
<1>4. IsFiniteSet(1 .. Len(s))
  BY <1>2, FS_Interval
<1>5. IsFiniteSet(KidSet(t))
  BY <1>3, <1>4, FS_Surjection
<1>6. IsFiniteSet(KidSet(t) \cup {Io})
  BY <1>5, FS_AddElement
<1> QED
  BY <1>6, FS_Subset

\* Changing, adding and taking away the innermost frame.
LEMMA TopChanged ==
    ASSUME NEW F, NEW s \in Seq(F), s # <<>>, NEW f \in F, NEW q, q = <<f>> \o Tail(s)
    PROVE  /\ q \in Seq(F) /\ q # <<>> /\ Len(q) = Len(s) /\ q[1] = f /\ Head(q) = f
           /\ \A i \in 2 .. Len(s) : q[i] = s[i]
  OBVIOUS

LEMMA TopAdded ==
    ASSUME NEW F, NEW s \in Seq(F), s # <<>>, NEW f \in F, NEW g \in F, NEW q, q = <<f, g>> \o Tail(s)
    PROVE  /\ q \in Seq(F) /\ q # <<>> /\ Len(q) = Len(s) + 1 /\ q[1] = f /\ Head(q) = f /\ q[2] = g
           /\ \A i \in 2 .. Len(s) : q[i + 1] = s[i]
<1>1. Len(s) \in Nat \ {0} /\ Tail(s) \in Seq(F) /\ Len(Tail(s)) = Len(s) - 1
      /\ \A i \in 1 .. (Len(s) - 1) : Tail(s)[i] = s[i + 1]
  OBVIOUS
<1>2. <<f, g>> \in Seq(F) /\ Len(<<f, g>>) = 2
  OBVIOUS
<1>3. q \in Seq(F) /\ Len(q) = Len(s) + 1
  BY <1>1, <1>2
<1>4. \A i \in 1 .. Len(q) : q[i] = IF i <= 2 THEN <<f, g>>[i] ELSE Tail(s)[i - 2]
  BY <1>1, <1>2
<1>5. q[1] = f /\ q[2] = g
  BY <1>1, <1>3, <1>4
<1>6. ASSUME NEW i \in 2 .. Len(s) PROVE q[i + 1] = s[i]
  <2>1. i + 1 \in 1 .. Len(q) /\ ~(i + 1 <= 2) /\ (i + 1) - 2 = i - 1 /\ i - 1 \in 1 .. (Len(s) - 1) /\ (i - 1) + 1 = i
    BY <1>1, <1>3
  <2> QED
    BY <1>1, <1>4, <2>1
<1> QED
  BY <1>1, <1>3, <1>5, <1>6

LEMMA SeqIsEmpty ==
    ASSUME NEW F, NEW q \in Seq(F)
    PROVE  q = <<>> <=> Len(q) = 0
  OBVIOUS

LEMMA TopRemoved ==
    ASSUME NEW F, NEW s \in Seq(F), s # <<>>, NEW q, q = Tail(s)
    PROVE  /\ q \in Seq(F) /\ Len(q) = Len(s) - 1 /\ (q = <<>> <=> Len(s) = 1)
           /\ \A i \in 1 .. (Len(s) - 1) : q[i] = s[i + 1]
           /\ q # <<>> => Head(q) = s[2] /\ Len(s) > 1
<1>1. /\ Len(s) \in Nat \ {0} /\ q \in Seq(F) /\ Len(q) = Len(s) - 1
      /\ \A i \in 1 .. (Len(s) - 1) : q[i] = s[i + 1]
  OBVIOUS
<1>2. q = <<>> <=> Len(s) = 1
  <2>1. q = <<>> <=> Len(q) = 0
    <3>1. q \in Seq(F)
      BY <1>1
    <3> QED
      BY <3>1, SeqIsEmpty
  <2> QED
    BY <1>1, <2>1
<1>3. ASSUME q # <<>> PROVE Head(q) = s[2] /\ Len(s) > 1
  <2>1. Len(s) > 1 /\ 1 \in 1 .. (Len(s) - 1)
    BY <1>1, <1>2, <1>3
  <2>2. q[1] = s[2]
    BY <1>1, <2>1
  <2> QED
    BY <1>1, <1>3, <2>1, <2>2
<1> QED
  BY <1>1, <1>2, <1>3

LEMMA PathTop ==
    ASSUME NEW s \in Seq(Frames), s # <<>>, IsPath(s), NEW f \in Frames, FrameOK(f), f.task = s[1].task,
           NEW q, q = <<f>> \o Tail(s)
    PROVE  IsPath(q) /\ \A t \in Tasks : OnPath(q, t) <=> OnPath(s, t)
<1>1. /\ Len(q) = Len(s) /\ q[1] = f /\ \A i \in 2 .. Len(s) : q[i] = s[i]
  BY TopChanged
<1>2. Len(s) \in Nat \ {0}
  OBVIOUS
<1>3. \A i \in 1 .. Len(s) : q[i].task = s[i].task
  BY <1>1, <1>2
<1>4. ASSUME NEW i \in 1 .. Len(q) PROVE FrameOK(q[i]) /\ (i > 1 => q[i].pc = "kids")
  <2>1. CASE i = 1
    BY <1>1, <2>1
  <2>2. CASE i # 1
    <3>1. i \in 2 .. Len(s) /\ i \in 1 .. Len(s)
      BY <1>1, <1>2, <2>2
    <3> QED
      BY <1>1, <3>1 DEF IsPath
  <2> QED
    BY <2>1, <2>2
<1>5. ASSUME NEW i \in 1 .. Len(q)
      PROVE  /\ i = Len(q) => q[i].task = Root
             /\ i < Len(q) => q[i].task # Root /\ Parent[q[i].task] = q[i + 1].task
  <2>1. i \in 1 .. Len(s) /\ (i < Len(q) => i + 1 \in 1 .. Len(s)) /\ Len(q) = Len(s)
    BY <1>1, <1>2
  <2>2. q[i].task = s[i].task /\ (i < Len(q) => q[i + 1].task = s[i + 1].task)
    BY <1>3, <2>1
  <2> QED
    BY <2>1, <2>2 DEF IsPath
<1>6. \A i, j \in 1 .. Len(q) : q[i].task = q[j].task => i = j
  BY <1>1, <1>3 DEF IsPath
<1> QED
  BY <1>1, <1>3, <1>4, <1>5, <1>6 DEF IsPath, OnPath

\* No task below the innermost frame is one of its children.
LEMMA KidIsOff ==
    ASSUME WellFormed, NEW s \in Seq(Frames), s # <<>>, IsPath(s), NEW k \in KidSet(s[1].task)
    PROVE  ~OnPath(s, k)
<1> SUFFICES ASSUME NEW i \in 1 .. Len(s), s[i].task = k PROVE FALSE
  BY DEF OnPath
<1>0. Len(s) \in Nat \ {0} /\ s[1] \in Frames
  OBVIOUS
<1>1. Len(s) \in Nat \ {0} /\ s[1].task \in Tasks
  BY <1>0 DEF Frames
<1>2. k # Root /\ Parent[k] = s[1].task
  BY <1>1 DEF WellFormed
<1>3. i < Len(s)
  BY <1>1, <1>2 DEF IsPath
<1>4. s[i + 1].task = s[1].task /\ i + 1 \in 1 .. Len(s) /\ 1 \in 1 .. Len(s)
  BY <1>1, <1>2, <1>3 DEF IsPath
<1>5. i + 1 = 1
  BY <1>4 DEF IsPath
<1> QED
  BY <1>1, <1>5

LEMMA PathPush ==
    ASSUME WellFormed, NEW s \in Seq(Frames), s # <<>>, IsPath(s), NEW f \in Frames, NEW g \in Frames,
           FrameOK(f), FrameOK(g), g.pc = "kids", g.task = s[1].task, f.task \in KidSet(s[1].task),
           NEW q, Len(q) = Len(s) + 1, q[1] = f, q[2] = g, \A i \in 2 .. Len(s) : q[i + 1] = s[i]
    PROVE  IsPath(q) /\ \A t \in Tasks : OnPath(q, t) => OnPath(s, t) \/ t = f.task
<1>1. /\ Len(q) = Len(s) + 1 /\ q[1] = f /\ q[2] = g /\ \A i \in 2 .. Len(s) : q[i + 1] = s[i]
  OBVIOUS
<1>0. Len(s) \in Nat \ {0} /\ s[1] \in Frames
  OBVIOUS
<1>2. Len(s) \in Nat \ {0} /\ s[1].task \in Tasks
  BY <1>0 DEF Frames
<1>3. f.task # Root /\ Parent[f.task] = s[1].task /\ f.task \in Tasks
  BY <1>2 DEF WellFormed
<1>4. \A i \in 1 .. Len(s) : q[i + 1].task = s[i].task
  <2> SUFFICES ASSUME NEW i \in 1 .. Len(s) PROVE q[i + 1].task = s[i].task
    OBVIOUS
  <2>1. CASE i = 1
    BY <1>1, <2>1
  <2>2. CASE i \in 2 .. Len(s)
    BY <1>1, <2>2
  <2> QED
    BY <1>2, <2>1, <2>2
<1>5. ASSUME NEW i \in 1 .. Len(q) PROVE i = 1 \/ (i - 1 \in 1 .. Len(s) /\ (i - 1) + 1 = i)
  BY <1>1, <1>2
<1>6. ASSUME NEW i \in 1 .. Len(q)
      PROVE  FrameOK(q[i]) /\ (i > 1 => q[i].pc = "kids")
  <2>1. CASE i <= 2
    BY <1>1, <2>1
  <2>2. CASE i > 2
    <3>1. i - 1 \in 2 .. Len(s) /\ i - 1 \in 1 .. Len(s) /\ (i - 1) + 1 = i /\ i - 1 > 1
      BY <1>1, <1>2, <2>2
    <3>2. q[i] = s[i - 1]
      BY <1>1, <3>1
    <3> QED
      BY <3>1, <3>2 DEF IsPath
  <2> QED
    BY <2>1, <2>2
<1>7. ASSUME NEW i \in 1 .. Len(q)
      PROVE  /\ i = Len(q) => q[i].task = Root
             /\ i < Len(q) => q[i].task # Root /\ Parent[q[i].task] = q[i + 1].task
  <2>1. CASE i = 1
    BY <1>1, <1>2, <1>3, <2>1
  <2>2. CASE i # 1
    <3>1. PICK j \in 1 .. Len(s) : j = i - 1
      BY <1>5, <2>2
    <3>2. j + 1 = i /\ q[i].task = s[j].task /\ (i = Len(q) <=> j = Len(s)) /\ (i < Len(q) <=> j < Len(s))
      BY <1>1, <1>2, <1>4, <3>1
    <3>3. i < Len(q) => i \in 1 .. Len(s) /\ q[i + 1].task = s[j + 1].task
      BY <1>1, <1>2, <1>4, <3>1, <3>2
    <3> QED
      BY <3>2, <3>3 DEF IsPath
  <2> QED
    BY <2>1, <2>2
<1>8. ASSUME NEW i \in 1 .. Len(s) PROVE s[i].task # f.task
  BY <1>8, KidIsOff DEF OnPath
<1>9. ASSUME NEW i \in 1 .. Len(q), NEW j \in 1 .. Len(q), q[i].task = q[j].task PROVE i = j
  <2>1. CASE i = 1 \/ j = 1
    <3>1. ASSUME NEW a \in 1 .. Len(q), a # 1 PROVE q[a].task # f.task
      <4>1. PICK b \in 1 .. Len(s) : b = a - 1
        BY <1>5, <3>1
      <4>2. b + 1 = a
        BY <1>2, <4>1
      <4> QED
        BY <1>4, <1>8, <4>2
    <3> QED
      BY <1>1, <1>9, <2>1, <3>1
  <2>2. CASE i # 1 /\ j # 1
    <3>1. PICK a, b \in 1 .. Len(s) : a = i - 1 /\ b = j - 1
      BY <1>5, <2>2
    <3>2. a + 1 = i /\ b + 1 = j
      BY <1>1, <1>2, <3>1
    <3>3. s[a].task = s[b].task
      BY <1>4, <1>9, <3>2
    <3>4. a = b
      BY <3>3 DEF IsPath
    <3> QED
      BY <3>2, <3>4
  <2> QED
    BY <2>1, <2>2
<1>10. ASSUME NEW t \in Tasks, OnPath(q, t) PROVE OnPath(s, t) \/ t = f.task
  <2>1. PICK i \in 1 .. Len(q) : q[i].task = t
    BY <1>10 DEF OnPath
  <2>2. CASE i = 1
    BY <1>1, <2>1, <2>2
  <2>3. CASE i # 1
    <3>1. PICK j \in 1 .. Len(s) : j = i - 1
      BY <1>5, <2>3
    <3>2. j + 1 = i
      BY <1>2, <3>1
    <3> QED
      BY <1>4, <2>1, <3>2 DEF OnPath
  <2> QED
    BY <2>2, <2>3
<1> QED
  BY <1>6, <1>7, <1>9, <1>10 DEF IsPath

LEMMA PathPop ==
    ASSUME NEW s \in Seq(Frames), s # <<>>, IsPath(s), NEW q, q = Tail(s)
    PROVE  /\ IsPath(q) /\ \A t \in Tasks : OnPath(q, t) => OnPath(s, t) /\ t # s[1].task
           /\ q # <<>> => Head(q) = s[2] /\ s[2].pc = "kids"
<1>1. /\ Len(q) = Len(s) - 1 /\ (q = <<>> <=> Len(s) = 1)
      /\ \A i \in 1 .. (Len(s) - 1) : q[i] = s[i + 1]
      /\ q # <<>> => Head(q) = s[2] /\ Len(s) > 1
  <2>1. s \in Seq(Frames) /\ s # <<>> /\ q = Tail(s)
    OBVIOUS
  <2> QED
    BY <2>1, TopRemoved
<1>2. Len(s) \in Nat \ {0}
  OBVIOUS
<1>3. \A i \in 1 .. Len(q) : i + 1 \in 1 .. Len(s) /\ i + 1 > 1 /\ q[i] = s[i + 1]
                             /\ (i = Len(q) <=> i + 1 = Len(s)) /\ (i < Len(q) <=> i + 1 < Len(s))
  BY <1>1, <1>2
<1>4. ASSUME NEW i \in 1 .. Len(q), i < Len(q) PROVE q[i + 1] = s[(i + 1) + 1]
  BY <1>1, <1>2, <1>4
<1>5. \A i \in 1 .. Len(q) : /\ FrameOK(q[i]) /\ (i > 1 => q[i].pc = "kids")
                             /\ i = Len(q) => q[i].task = Root
                             /\ i < Len(q) => q[i].task # Root /\ Parent[q[i].task] = q[i + 1].task
  BY <1>3, <1>4 DEF IsPath
<1>6. ASSUME NEW i \in 1 .. Len(q), NEW j \in 1 .. Len(q), q[i].task = q[j].task PROVE i = j
  <2>1. i + 1 = j + 1
    BY <1>3, <1>6 DEF IsPath
  <2> QED
    BY <1>1, <1>2, <2>1
<1>7. ASSUME NEW t \in Tasks, NEW i \in 1 .. Len(q), q[i].task = t PROVE OnPath(s, t) /\ t # s[1].task
  <2>1. i + 1 \in 1 .. Len(s) /\ s[i + 1].task = t /\ i + 1 # 1 /\ 1 \in 1 .. Len(s)
    BY <1>2, <1>3, <1>7
  <2> QED
    BY <2>1 DEF OnPath, IsPath
<1>8. q # <<>> => s[2].pc = "kids"
  <2>1. q # <<>> => 2 \in 1 .. Len(s) /\ 2 > 1
    BY <1>1, <1>2
  <2> QED
    BY <2>1 DEF IsPath
<1> QED
  BY <1>1, <1>5, <1>6, <1>7, <1>8 DEF IsPath, OnPath


----------------------------------------------------------------------------
\* The innermost resume.
LEMMA TopFacts ==
    ASSUME DriveInv, stack # <<>>
    PROVE  /\ Top \in Frames /\ Top.task \in Tasks /\ Top.todo \in Seq(Futures) /\ FrameOK(Top)
           /\ ~parked[Top.task] /\ outcome[Top.task] # "unborn" /\ emb = "resume"
           /\ stack \in Seq(Frames) /\ stack[1] = Top /\ IsPath(stack)
           /\ \A t \in Tasks : OnPath(stack, t) => ~parked[t] /\ outcome[t] # "unborn"
<1>1. stack \in Seq(Frames) /\ IsPath(stack) /\ emb = "resume"
      /\ \A t \in Tasks : OnPath(stack, t) => ~parked[t] /\ outcome[t] # "unborn"
  BY DEF DriveInv, DriveTyped, StackIsPath
<1>2. Top \in Frames /\ stack[1] = Top /\ 1 \in 1 .. Len(stack)
  BY <1>1 DEF Top
<1>3. Top.task \in Tasks /\ Top.todo \in Seq(Futures)
  BY <1>2 DEF Frames
<1>4. FrameOK(Top)
  BY <1>1, <1>2 DEF IsPath
<1>5. OnPath(stack, Top.task)
  BY <1>2 DEF OnPath
<1> QED
  BY <1>1, <1>2, <1>3, <1>4, <1>5

LEMMA FrameChanged ==
    ASSUME DriveInv, stack # <<>>, NEW f \in Frames, FrameOK(f), f.task = Top.task, SetTop(f)
    PROVE  /\ stack' \in Seq(Frames) /\ stack' # <<>> /\ Head(stack') = f /\ IsPath(stack')
           /\ \A t \in Tasks : OnPath(stack', t) <=> OnPath(stack, t)
<1>1. stack \in Seq(Frames) /\ stack[1] = Top /\ IsPath(stack)
  BY TopFacts
<1>2. PICK s : s = stack
  OBVIOUS
<1>3. PICK q : q = stack'
  OBVIOUS
<1>4. /\ s \in Seq(Frames) /\ s # <<>> /\ IsPath(s) /\ f.task = s[1].task /\ q = <<f>> \o Tail(s)
  BY <1>1, <1>2, <1>3 DEF SetTop
<1>5. q \in Seq(Frames) /\ q # <<>> /\ Head(q) = f
  BY <1>4, TopChanged
<1>6. IsPath(q) /\ \A t \in Tasks : OnPath(q, t) <=> OnPath(s, t)
  BY <1>4, PathTop
<1> QED
  BY <1>2, <1>3, <1>5, <1>6

LEMMA FramePopped ==
    ASSUME DriveInv, stack # <<>>, stack' = Tail(stack)
    PROVE  /\ stack' \in Seq(Frames) /\ IsPath(stack')
           /\ \A t \in Tasks : OnPath(stack', t) => OnPath(stack, t) /\ t # Top.task
           /\ stack' # <<>> => Head(stack').pc = "kids" /\ Top.task # Root
<1>1. stack \in Seq(Frames) /\ stack[1] = Top /\ IsPath(stack)
  BY TopFacts
<1>2. PICK s : s = stack
  OBVIOUS
<1>3. PICK q : q = stack'
  OBVIOUS
<1>4. /\ s \in Seq(Frames) /\ s # <<>> /\ IsPath(s) /\ q = Tail(s) /\ s[1] = Top
  BY <1>1, <1>2, <1>3
<1>5. q \in Seq(Frames) /\ (q # <<>> => Len(s) > 1) /\ Len(s) \in Nat
  BY <1>4, TopRemoved
<1>6. /\ IsPath(q) /\ \A t \in Tasks : OnPath(q, t) => OnPath(s, t) /\ t # s[1].task
      /\ q # <<>> => Head(q) = s[2] /\ s[2].pc = "kids"
  BY <1>4, PathPop
<1>7. q # <<>> => Top.task # Root
  <2>1. q # <<>> => 1 \in 1 .. Len(s) /\ 1 < Len(s)
    BY <1>5
  <2> QED
    BY <1>4, <2>1 DEF IsPath
<1> QED
  BY <1>2, <1>3, <1>4, <1>5, <1>6, <1>7

\* A resume begins with the children, whoever is in the table.
LEMMA FreshFrame ==
    ASSUME WellFormed, NEW t \in Tasks, NEW budget \in 1 .. BudgetMax
    PROVE  Frame(t, budget) \in Frames /\ FrameOK(Frame(t, budget))
<1>1. PICK s : s = Kids[t]
  OBVIOUS
<1>2. s \in Seq(Tasks) /\ KidSet(t) = {s[i] : i \in DOMAIN s}
  BY <1>1 DEF WellFormed, KidSet, ToSet
<1>3. s \in Seq(KidSet(t)) /\ s \in Seq(Futures)
  BY <1>2 DEF Futures
<1>4. budget \in 0 .. BudgetMax /\ budget >= 1
  BY DEF WellFormed
<1> QED
  BY <1>1, <1>3, <1>4 DEF Frame, Frames, FrameOK

LEMMA FramePushed ==
    ASSUME DriveInv, stack # <<>>, NEW f \in Frames, FrameOK(f), f.task \in KidSet(Top.task),
           NEW g \in Frames, FrameOK(g), g.task = Top.task, g.pc = "kids",
           stack' = <<f, g>> \o Tail(stack)
    PROVE  /\ stack' \in Seq(Frames) /\ stack' # <<>> /\ Head(stack') = f /\ IsPath(stack')
           /\ \A t \in Tasks : OnPath(stack', t) => OnPath(stack, t) \/ t = f.task
<1>1. stack \in Seq(Frames) /\ stack[1] = Top /\ IsPath(stack) /\ WellFormed
  BY TopFacts DEF DriveInv
<1>2. PICK s : s = stack
  OBVIOUS
<1>3. PICK q : q = stack'
  OBVIOUS
<1>4. /\ s \in Seq(Frames) /\ s # <<>> /\ IsPath(s) /\ f.task \in KidSet(s[1].task) /\ g.task = s[1].task
      /\ q = <<f, g>> \o Tail(s)
  BY <1>1, <1>2, <1>3
<1>5. q \in Seq(Frames) /\ q # <<>> /\ Head(q) = f
  BY <1>4, TopAdded
<1>6. IsPath(q) /\ \A t \in Tasks : OnPath(q, t) => OnPath(s, t) \/ t = f.task
  <2>1. Len(q) = Len(s) + 1 /\ q[1] = f /\ q[2] = g /\ \A i \in 2 .. Len(s) : q[i + 1] = s[i]
    BY <1>4, TopAdded
  <2>2. WellFormed /\ g.task = s[1].task /\ f.task \in KidSet(s[1].task)
    BY <1>1, <1>4
  <2> QED
    <3>1. s \in Seq(Frames) /\ s # <<>> /\ IsPath(s) /\ f \in Frames /\ g \in Frames /\ FrameOK(f) /\ FrameOK(g)
      BY <1>4
    <3>2. g.pc = "kids"
      OBVIOUS
    <3>3. IsPath(q)
      BY <2>1, <2>2, <3>1, <3>2, PathPush
    <3>4. ASSUME NEW t \in Tasks PROVE OnPath(q, t) => OnPath(s, t) \/ t = f.task
      BY <2>1, <2>2, <3>1, <3>2, PathPush
    <3> QED
      BY <3>3, <3>4
<1> QED
  BY <1>2, <1>3, <1>5, <1>6

----------------------------------------------------------------------------
\* Ringing t's bell leaves each wait registered as it was, or to be polled again
\* by a task whose bell has rung too.
LEMMA RingKeeps ==
    ASSUME WellFormed, DriveTyped, NEW t \in Tasks, NEW again, again \subseteq {Io} \cup KidSet(t),
           RingBy(t, again)
    PROVE  /\ rung' \in [Tasks -> BOOLEAN] /\ waiters' \in [Tasks -> SUBSET (Tasks \cup {Thread})]
           /\ woken' \in [Tasks -> SUBSET Futures] /\ token' \in BOOLEAN
           /\ \A x \in Tasks : woken'[x] \subseteq {Io} \cup KidSet(x)
           /\ rung'[t] /\ again \subseteq woken'[t]
           /\ \A x \in Tasks : (rung[x] => rung'[x]) /\ woken[x] \subseteq woken'[x]
           /\ \A p, k \in Tasks : k \in KidSet(p) /\ k \in await[p] /\ p \in waiters[k] =>
                 k \in woken'[p] \/ (p \in waiters'[k] /\ rung'[k] = rung[k] /\ k # t)
           /\ \A p \in Tasks : woken'[p] = woken[p] \/ rung'[p]
           /\ \A p \in Tasks : woken'[p] = woken[p] \/ p = t \/ await[p] # {}
<1>1. PICK rs : rs = Rings(t)
  OBVIOUS
<1>2. rs \subseteq Tasks /\ t \in rs
  BY <1>1 DEF Rings
<1>3. ASSUME NEW b \in rs, Wakes(b) PROVE Parent[b] \in rs
  <2>1. b \in Tasks /\ Parent[b] \in Tasks
    BY <1>2 DEF WellFormed
  <2>2. ASSUME NEW bs \in SUBSET Tasks, t \in bs, RingsOn(bs) PROVE Parent[b] \in bs
    <3>1. b \in bs
      BY <1>1, <1>3, <2>2 DEF Rings
    <3> QED
      BY <1>3, <2>2, <3>1 DEF RingsOn
  <2> QED
    BY <1>1, <2>1, <2>2 DEF Rings
<1>4. /\ rung' = [x \in Tasks |-> rung[x] \/ x \in rs]
      /\ waiters' = [x \in Tasks |-> IF x \in rs THEN {} ELSE waiters[x]]
      /\ woken' = [x \in Tasks |-> woken[x] \cup {y \in rs \cap KidSet(x) : Wakes(y)}
                                            \cup (IF x = t THEN again ELSE {})]
      /\ token' = (token \/ \E x \in rs : Thread \in waiters[x])
  BY <1>1 DEF RingBy
<1>5. \A p \in Tasks : KidSet(p) = {k \in Tasks \ {Root} : Parent[k] = p}
  BY DEF WellFormed
<1>6. /\ rung \in [Tasks -> BOOLEAN] /\ waiters \in [Tasks -> SUBSET (Tasks \cup {Thread})]
      /\ woken \in [Tasks -> SUBSET Futures] /\ token \in BOOLEAN
      /\ \A x \in Tasks : woken[x] \subseteq {Io} \cup KidSet(x)
  BY DEF DriveTyped
<1>7. rung' \in [Tasks -> BOOLEAN] /\ (\A x \in Tasks : rung[x] => rung'[x]) /\ (\A x \in rs : rung'[x])
  BY <1>2, <1>4, <1>6, Zenon
<1>8. waiters' \in [Tasks -> SUBSET (Tasks \cup {Thread})]
  BY <1>4, <1>6
<1>9. \A x \in Tasks : woken'[x] \subseteq {Io} \cup KidSet(x)
  BY <1>4, <1>6
<1>10. woken' \in [Tasks -> SUBSET Futures]
  <2>1. \A x \in Tasks : woken'[x] \subseteq Futures
    BY <1>5, <1>9 DEF Futures
  <2> QED
    BY <1>4, <2>1
<1>11. token' \in BOOLEAN
  BY <1>4, <1>6, Zenon
<1>12. again \subseteq woken'[t] /\ \A x \in Tasks : woken[x] \subseteq woken'[x]
  BY <1>4
<1>13. ASSUME NEW p \in Tasks, NEW k \in Tasks, k \in KidSet(p), k \in await[p], p \in waiters[k]
       PROVE  k \in woken'[p] \/ (p \in waiters'[k] /\ rung'[k] = rung[k] /\ k # t)
  <2>1. Wakes(k) /\ Parent[k] = p
    BY <1>5, <1>13 DEF Wakes
  <2>2. CASE k \in rs
    BY <1>4, <1>13, <2>1, <2>2
  <2>3. CASE k \notin rs
    <3>1. rung'[k] = rung[k]
      BY <1>4, <1>6, <2>3, Zenon
    <3>2. p \in waiters'[k] /\ k # t
      BY <1>2, <1>4, <1>13, <2>3
    <3> QED
      BY <3>1, <3>2
  <2> QED
    BY <2>2, <2>3
<1>14. ASSUME NEW p \in Tasks, woken'[p] # woken[p] PROVE rung'[p] /\ (p = t \/ await[p] # {})
  <2>1. CASE p = t
    BY <1>2, <1>7, <2>1
  <2>2. CASE p # t
    <3>1. PICK y \in rs \cap KidSet(p) : Wakes(y)
      BY <1>4, <1>14, <2>2
    <3>2. Parent[y] = p /\ p \in rs /\ y \in await[p]
      BY <1>3, <1>5, <3>1 DEF Wakes
    <3> QED
      BY <1>7, <3>2
  <2> QED
    BY <2>1, <2>2
<1> QED
  BY <1>2, <1>7, <1>8, <1>9, <1>10, <1>11, <1>12, <1>13, <1>14


----------------------------------------------------------------------------
\* Fuel added to fuel is fuel; what is added is at least a quantum.
LEMMA FuelAdded ==
    ASSUME WellFormed, NEW a \in 0 .. BudgetMax, NEW b \in 1 .. BudgetMax
    PROVE  AddFuel(a, b) \in 1 .. BudgetMax
BY DEF WellFormed, AddFuel

LEMMA ResumeRootKeeps ==
    ASSUME DriveInv, ResumeRoot
    PROVE  DriveInv'
<1>1. /\ stack = <<>> /\ emb = "resume"
      /\ UNCHANGED <<bells, outcome, carried, busy, await, woken, prov, token>>
  BY DEF ResumeRoot, Idle
<1>2. WellFormed /\ DriveTyped /\ StackIsPath /\ WaitsAreKept /\ WakesAreKept /\ UnbornAreIdle
  BY DEF DriveInv
<1>3. CASE ~Running(Root)
  <2>1. emb' = "stop" /\ parked' = parked /\ stack' = stack
    BY <1>3 DEF ResumeRoot
  <2>2. DriveTyped' /\ WellFormed'
    BY <1>1, <1>2, <2>1 DEF DriveTyped, WellFormed, bells
  <2>3. StackIsPath' /\ UnbornAreIdle' /\ MidPoll' /\ ParkIsKept'
    BY <1>1, <1>2, <2>1 DEF StackIsPath, UnbornAreIdle, MidPoll, ParkIsKept, IsPath, OnPath, FrameOK
  <2>4. WaitsAreKept'
    BY <1>1, <1>2, <2>1 DEF WaitsAreKept, PollsNow, Registered, Running, IsRunnable, Draining, bells
  <2>5. WakesAreKept'
    BY <1>1, <1>2, <2>1 DEF WakesAreKept, PastTake, Storing, Running, bells
  <2> QED
    BY <2>2, <2>3, <2>4, <2>5 DEF DriveInv
<1>4. CASE Running(Root)
  <2> DEFINE f == Frame(Root, AddFuel(carried[Root], Donation))
  <2>1. parked' = [parked EXCEPT ![Root] = FALSE] /\ stack' = <<f>> /\ emb' = emb
    BY <1>4 DEF ResumeRoot
  <2>2. Root \in Tasks /\ Donation \in 1 .. BudgetMax /\ carried[Root] \in 0 .. BudgetMax
    BY <1>2 DEF WellFormed, DriveTyped
  <2>3. f \in Frames /\ FrameOK(f)
    BY <1>2, <2>2, FuelAdded, FreshFrame
  <2>4. f.task = Root /\ f.pc = "kids"
    BY DEF Frame
  <2> HIDE DEF f
  <2>5. stack' \in Seq(Frames) /\ stack' # <<>> /\ Head(stack') = f /\ Len(stack') = 1 /\ stack'[1] = f
    BY <2>1, <2>3
  <2>6. parked' \in [Tasks -> BOOLEAN]
    BY <1>2, <2>1 DEF DriveTyped
  <2>7. DriveTyped'
    BY <1>1, <1>2, <2>1, <2>5, <2>6 DEF DriveTyped, bells
  <2>8. IsPath(stack') /\ \A t \in Tasks : OnPath(stack', t) => t = Root
    BY <2>3, <2>4, <2>5 DEF IsPath, OnPath
  <2>9. StackIsPath'
    <3>1. ~parked'[Root] /\ outcome'[Root] # "unborn"
      BY <1>1, <1>2, <1>4, <2>1, <2>2 DEF DriveTyped, Running
    <3> QED
      BY <1>1, <2>1, <2>8, <3>1 DEF StackIsPath
  <2>10. WaitsAreKept'
    <3> SUFFICES ASSUME NEW p \in Tasks, NEW k \in Tasks, Running(p), k \in await[p]
                 PROVE  k \in woken[p] \/ Registered(p, k)'
      BY <1>1 DEF WaitsAreKept, Running
    <3>1. k \in KidSet(p)
      BY <1>2 DEF DriveTyped, WellFormed
    <3>2. k # Root
      BY <1>2, <3>1 DEF WellFormed
    <3>4. parked'[k] = parked[k]
      BY <1>2, <2>1, <3>2 DEF DriveTyped
    <3>3. k \in woken[p] \/ Registered(p, k)
      BY <1>1, <1>2 DEF WaitsAreKept, PollsNow
    <3> QED
      BY <1>1, <3>3, <3>4 DEF Registered, Running, IsRunnable, Draining, bells
  <2>11. MidPoll'
    BY <2>4, <2>5 DEF MidPoll, Top
  <2>12. WakesAreKept'
    <3> SUFFICES ASSUME NEW p \in Tasks, Running(p), woken[p] # {}
                 PROVE  rung[p] \/ Storing(p) \/ ~parked'[p]
      BY <1>1, <2>4, <2>5 DEF WakesAreKept, PastTake, PastTakes, Running, Storing, Top, bells
    <3> QED
      BY <1>2, <2>1, <2>2 DEF WakesAreKept, DriveTyped
  <2>13. UnbornAreIdle' /\ ParkIsKept' /\ WellFormed'
    BY <1>1, <1>2, <2>5 DEF UnbornAreIdle, ParkIsKept, WellFormed
  <2> QED
    BY <2>7, <2>9, <2>10, <2>11, <2>12, <2>13 DEF DriveInv
<1> QED
  BY <1>3, <1>4

\* The observations of the root's bell and the park: only emb and the token change.
LEMMA EmbedderKeeps ==
    ASSUME DriveInv, stack = <<>>, emb' \in {"resume", "observe", "register", "reobserve", "park"},
           UNCHANGED <<rung, taskVars, busy, await, woken, prov, stack>>, token' \in BOOLEAN,
           waiters' \in [Tasks -> SUBSET (Tasks \cup {Thread})], \A t \in Tasks : waiters[t] \subseteq waiters'[t],
           emb' \in {"reobserve", "park"} /\ ~token' => Thread \in waiters'[Root],
           emb' = "park" /\ ~token' => ~IsRunnable(Root)
    PROVE  DriveInv'
<1>1. WellFormed /\ DriveTyped /\ StackIsPath /\ WaitsAreKept /\ WakesAreKept /\ UnbornAreIdle
  BY DEF DriveInv
<1>2. DriveTyped'
  BY <1>1 DEF DriveTyped, taskVars
<1>3. StackIsPath' /\ UnbornAreIdle' /\ MidPoll' /\ WellFormed'
  BY <1>1 DEF StackIsPath, UnbornAreIdle, MidPoll, WellFormed, taskVars, IsPath, OnPath, FrameOK
<1>4. WaitsAreKept'
  BY <1>1 DEF WaitsAreKept, PollsNow, Registered, Running, IsRunnable, Draining, taskVars
<1>5. WakesAreKept'
  BY <1>1 DEF WakesAreKept, PastTake, Storing, Running, taskVars
<1>6. ParkIsKept'
  BY DEF ParkIsKept, IsRunnable, Running, taskVars
<1> QED
  BY <1>2, <1>3, <1>4, <1>5, <1>6 DEF DriveInv

LEMMA ObserveKeeps ==
    ASSUME DriveInv, Observe("observe", "register") \/ Observe("reobserve", "park")
    PROVE  DriveInv'
<1>1. DriveTyped /\ ParkIsKept
  BY DEF DriveInv
<1>2. stack = <<>> /\ UNCHANGED <<bells, taskVars, busy, await, woken, prov, stack, token>>
  BY DEF Observe, Idle
<1>3. /\ emb' \in {"resume", "register", "park"}
      /\ emb' = "park" => emb = "reobserve" /\ ~IsRunnable(Root)
  BY DEF Observe, Idle
<1>4. emb' = "park" /\ ~token' => Thread \in waiters'[Root]
  BY <1>1, <1>2, <1>3 DEF ParkIsKept, bells
<1>5. /\ UNCHANGED <<rung, taskVars, busy, await, woken, prov, stack>> /\ token' \in BOOLEAN
      /\ waiters' \in [Tasks -> SUBSET (Tasks \cup {Thread})] /\ \A t \in Tasks : waiters[t] \subseteq waiters'[t]
  BY <1>1, <1>2 DEF DriveTyped, bells
<1> QED
  BY <1>2, <1>3, <1>4, <1>5, EmbedderKeeps

LEMMA RegisterThreadKeeps ==
    ASSUME DriveInv, RegisterThread
    PROVE  DriveInv'
<1>1. DriveTyped /\ Root \in Tasks
  BY DEF DriveInv, WellFormed
<1>2. /\ stack = <<>> /\ UNCHANGED <<rung, taskVars, busy, await, woken, prov, stack, token>>
      /\ waiters' = [waiters EXCEPT ![Root] = @ \cup {Thread}] /\ emb' = "reobserve"
  BY DEF RegisterThread, Idle
<1>3. /\ waiters' \in [Tasks -> SUBSET (Tasks \cup {Thread})] /\ \A t \in Tasks : waiters[t] \subseteq waiters'[t]
      /\ Thread \in waiters'[Root] /\ token' \in BOOLEAN
  BY <1>1, <1>2 DEF DriveTyped
<1> QED
  BY <1>2, <1>3, EmbedderKeeps

LEMMA ParkKeeps ==
    ASSUME DriveInv, Park
    PROVE  DriveInv'
<1>1. DriveTyped
  BY DEF DriveInv
<1>2. /\ stack = <<>> /\ UNCHANGED <<rung, taskVars, busy, await, woken, prov, stack>>
      /\ waiters' = waiters /\ emb' = "observe" /\ token' = FALSE
  BY DEF Park, Idle, bells
<1>3. waiters' \in [Tasks -> SUBSET (Tasks \cup {Thread})] /\ \A t \in Tasks : waiters[t] \subseteq waiters'[t]
  BY <1>1, <1>2 DEF DriveTyped
<1> QED
  BY <1>2, <1>3, EmbedderKeeps


----------------------------------------------------------------------------
\* Among the children: no task is parked, nothing is polled.
LEMMA AmongTheKids ==
    ASSUME DriveInv, In("kids"), UNCHANGED <<bells, outcome, busy, await, woken, prov, emb, token>>,
           carried' \in [Tasks -> 0 .. BudgetMax], parked' \in [Tasks -> BOOLEAN],
           \A t \in Tasks : (parked'[t] => parked[t]) /\ (IsRunnable(t)' => IsRunnable(t)),
           stack' \in Seq(Frames), IsPath(stack'), stack' # <<>> => Head(stack').pc = "kids",
           \A t \in Tasks : OnPath(stack', t) => ~parked'[t] /\ outcome[t] # "unborn"
    PROVE  DriveInv'
<1>1. /\ WellFormed /\ DriveTyped /\ StackIsPath /\ WaitsAreKept /\ WakesAreKept /\ UnbornAreIdle
      /\ emb = "resume" /\ stack # <<>> /\ Top.pc = "kids"
  BY DEF DriveInv, StackIsPath, In
<1>2. DriveTyped' /\ WellFormed'
  BY <1>1 DEF DriveTyped, WellFormed, bells
<1>3. StackIsPath'
  BY <1>1 DEF StackIsPath
<1>4. UnbornAreIdle' /\ ParkIsKept'
  BY <1>1 DEF UnbornAreIdle, ParkIsKept
<1>5. MidPoll'
  BY DEF MidPoll, Top
<1>6. WaitsAreKept'
  <2> SUFFICES ASSUME NEW p \in Tasks, NEW k \in Tasks, Running(p), k \in await[p], k \notin woken[p]
               PROVE  Registered(p, k)'
    BY DEF WaitsAreKept, Running
  <2>1. Registered(p, k)
    BY <1>1 DEF WaitsAreKept, PollsNow, PastTakes
  <2> QED
    BY <2>1 DEF Registered, Running, Draining, bells
<1>7. WakesAreKept'
  BY <1>1 DEF WakesAreKept, PastTake, PastTakes, Storing, Running, Top, bells
<1> QED
  BY <1>2, <1>3, <1>4, <1>5, <1>6, <1>7 DEF DriveInv

LEMMA SeqOfSubset ==
    ASSUME NEW S, NEW T, S \subseteq T, NEW s \in Seq(S)
    PROVE  s \in Seq(T)
  OBVIOUS

\* The frame without the head of its todo list.
LEMMA TodoDropped ==
    ASSUME NEW S, NEW s \in Seq(S), s # <<>>
    PROVE  /\ Head(s) \in S /\ Tail(s) \in Seq(S) /\ ToSet(s) \subseteq S
           /\ \A x \in ToSet(s) : x = Head(s) \/ x \in ToSet(Tail(s))
           /\ ToSet(Tail(s)) \subseteq ToSet(s) /\ Head(s) \in ToSet(s)
<1>1. Len(s) \in Nat \ {0} /\ Tail(s) \in Seq(S) /\ Len(Tail(s)) = Len(s) - 1 /\ Head(s) = s[1]
      /\ (\A i \in 1 .. Len(s) : s[i] \in S)
      /\ \A i \in 1 .. (Len(s) - 1) : Tail(s)[i] = s[i + 1]
  OBVIOUS
<1>2. DOMAIN s = 1 .. Len(s) /\ DOMAIN Tail(s) = 1 .. (Len(s) - 1)
  BY <1>1
<1>3. 1 \in 1 .. Len(s)
  BY <1>1
<1>4. ASSUME NEW i \in 1 .. Len(s) PROVE s[i] = Head(s) \/ s[i] \in ToSet(Tail(s))
  <2>1. CASE i = 1
    BY <1>1, <2>1
  <2>2. CASE i # 1
    <3>1. PICK j \in 1 .. (Len(s) - 1) : i = j + 1
      <4>1. i - 1 \in 1 .. (Len(s) - 1) /\ i = (i - 1) + 1
        BY <1>1, <2>2
      <4> QED
        BY <4>1
    <3> QED
      BY <1>1, <1>2, <3>1 DEF ToSet
  <2> QED
    BY <2>1, <2>2
<1>5. ASSUME NEW j \in 1 .. (Len(s) - 1) PROVE Tail(s)[j] \in ToSet(s)
  <2>1. j + 1 \in 1 .. Len(s)
    BY <1>1
  <2> QED
    BY <1>1, <1>2, <2>1 DEF ToSet
<1> QED
  BY <1>1, <1>2, <1>3, <1>4, <1>5 DEF ToSet

LEMMA DriveChildKeeps ==
    ASSUME DriveInv, DriveChild
    PROVE  DriveInv'
<1>1. /\ In("kids") /\ stack # <<>> /\ Top.pc = "kids" /\ Top.todo # <<>> /\ Top.budget >= 1
      /\ UNCHANGED <<bells, outcome, carried, busy, await, woken, prov, token>> /\ emb' = emb
  BY DEF DriveChild, In
<1>2. WellFormed /\ DriveTyped
  BY DEF DriveInv
<1>3. /\ Top \in Frames /\ Top.task \in Tasks /\ FrameOK(Top)
      /\ \A t \in Tasks : OnPath(stack, t) => ~parked[t] /\ outcome[t] # "unborn"
  BY <1>1, TopFacts
<1> DEFINE k == Head(Top.todo)
           f == [Top EXCEPT !.todo = Tail(@)]
<1>4. /\ k \in KidSet(Top.task) /\ Tail(Top.todo) \in Seq(KidSet(Top.task))
  BY <1>1, <1>3, TodoDropped DEF FrameOK
<1>5. k \in Tasks /\ Tail(Top.todo) \in Seq(Futures)
  <2>1. KidSet(Top.task) \subseteq Tasks
    BY <1>2, <1>3 DEF WellFormed
  <2>2. Top.todo \in Seq(Futures)
    BY <1>1, TopFacts
  <2> QED
    BY <1>1, <1>4, <2>1, <2>2, TodoDropped
<1>6. /\ f \in Frames /\ f.task = Top.task /\ f.pc = "kids" /\ f.todo = Tail(Top.todo) /\ f.budget = Top.budget
  BY <1>1, <1>3, <1>5 DEF Frames
<1>7. FrameOK(f)
  BY <1>4, <1>6 DEF FrameOK
<1>8. CASE ~IsRunnable(k)
  <2>1. SetTop(f) /\ parked' = parked
    BY <1>8 DEF DriveChild
  <2> HIDE DEF f
  <2>2. /\ stack' \in Seq(Frames) /\ Head(stack') = f /\ IsPath(stack')
        /\ \A t \in Tasks : OnPath(stack', t) <=> OnPath(stack, t)
    BY <1>1, <1>6, <1>7, <2>1, FrameChanged
  <2>3. \A t \in Tasks : IsRunnable(t)' => IsRunnable(t)
    BY <1>1, <2>1 DEF IsRunnable, Running, bells
  <2> QED
    BY <1>1, <1>2, <1>3, <1>6, <2>1, <2>2, <2>3, AmongTheKids DEF DriveTyped
<1>9. CASE IsRunnable(k)
  <2> DEFINE g == [f EXCEPT !.budget = @ - 1]
             n == Frame(k, AddFuel(carried[k], 1))
  <2>1. stack' = <<n, g>> \o Tail(stack) /\ parked' = [parked EXCEPT ![k] = FALSE]
    BY <1>9 DEF DriveChild
  <2>2. n \in Frames /\ FrameOK(n)
    <3>1. carried[k] \in 0 .. BudgetMax /\ 1 \in 1 .. BudgetMax
      BY <1>2, <1>5 DEF DriveTyped, WellFormed
    <3> QED
      BY <1>2, <1>5, <3>1, FuelAdded, FreshFrame
  <2>3. n.task = k /\ n.pc = "kids"
    BY DEF Frame
  <2>4. g \in Frames /\ g.task = Top.task /\ g.pc = "kids" /\ g.todo = f.todo
    <3>1. Top.budget - 1 \in 0 .. BudgetMax
      BY <1>1, <1>2, <1>3 DEF Frames, WellFormed
    <3> QED
      BY <1>6, <3>1 DEF Frames
  <2>5. FrameOK(g)
    BY <1>6, <1>7, <2>4 DEF FrameOK
  <2> HIDE DEF f, g, n
  <2>6. /\ stack' \in Seq(Frames) /\ Head(stack') = n /\ IsPath(stack')
        /\ \A t \in Tasks : OnPath(stack', t) => OnPath(stack, t) \/ t = k
    BY <1>1, <1>4, <2>1, <2>2, <2>3, <2>4, <2>5, FramePushed
  <2>7. /\ parked' \in [Tasks -> BOOLEAN] /\ ~parked'[k]
        /\ \A t \in Tasks : (parked'[t] => parked[t]) /\ (t # k => parked'[t] = parked[t])
    BY <1>2, <1>5, <2>1 DEF DriveTyped
  <2>8. \A t \in Tasks : IsRunnable(t)' => IsRunnable(t)
    BY <1>1, <1>9, <2>7 DEF IsRunnable, Running, bells
  <2>9. \A t \in Tasks : OnPath(stack', t) => ~parked'[t] /\ outcome[t] # "unborn"
    BY <1>3, <1>9, <2>6, <2>7 DEF IsRunnable, Running
  <2>10. carried' \in [Tasks -> 0 .. BudgetMax]
    BY <1>1, <1>2 DEF DriveTyped
  <2> QED
    BY <1>1, <2>3, <2>6, <2>7, <2>8, <2>9, <2>10, AmongTheKids
<1> QED
  BY <1>8, <1>9

\* Returning: the caller, if any, is among its children.
LEMMA ReturnFacts ==
    ASSUME DriveInv, stack # <<>>, NEW budget \in 0 .. BudgetMax, NEW isParked \in BOOLEAN,
           Return(budget, isParked)
    PROVE  /\ stack' \in Seq(Frames) /\ IsPath(stack') /\ (stack' # <<>> => Head(stack').pc = "kids")
           /\ \A t \in Tasks : OnPath(stack', t) => OnPath(stack, t) /\ t # Top.task
           /\ carried' \in [Tasks -> 0 .. BudgetMax] /\ parked' \in [Tasks -> BOOLEAN]
           /\ parked'[Top.task] = isParked /\ \A t \in Tasks \ {Top.task} : parked'[t] = parked[t]
           /\ emb' \in {"resume", "observe"} /\ (stack' # <<>> => emb' = "resume") /\ (~isParked => emb' = "resume")
<1>1. DriveTyped /\ Top.task \in Tasks /\ emb = "resume"
  BY TopFacts DEF DriveInv
<1>2. /\ carried' = [carried EXCEPT ![Top.task] = budget] /\ parked' = [parked EXCEPT ![Top.task] = isParked]
      /\ stack' = Tail(stack) /\ emb' = IF Top.task = Root /\ isParked THEN "observe" ELSE emb
  BY DEF Return
<1>3. /\ stack' \in Seq(Frames) /\ IsPath(stack') /\ (stack' # <<>> => Head(stack').pc = "kids" /\ Top.task # Root)
      /\ \A t \in Tasks : OnPath(stack', t) => OnPath(stack, t) /\ t # Top.task
  BY <1>2, FramePopped
<1>4. carried' \in [Tasks -> 0 .. BudgetMax] /\ parked' \in [Tasks -> BOOLEAN]
  BY <1>1, <1>2 DEF DriveTyped
<1>5. parked'[Top.task] = isParked /\ \A t \in Tasks \ {Top.task} : parked'[t] = parked[t]
  BY <1>1, <1>2 DEF DriveTyped
<1> QED
  BY <1>1, <1>2, <1>3, <1>4, <1>5

LEMMA ChildrenAteTheBudgetKeeps ==
    ASSUME DriveInv, ChildrenAteTheBudget
    PROVE  DriveInv'
<1>1. /\ In("kids") /\ stack # <<>> /\ Return(Top.budget, FALSE)
      /\ UNCHANGED <<bells, outcome, busy, await, woken, prov, token>>
  BY DEF ChildrenAteTheBudget, In
<1>2. DriveTyped /\ WellFormed
  BY DEF DriveInv
<1>3. /\ Top \in Frames /\ Top.task \in Tasks /\ ~parked[Top.task] /\ emb = "resume"
      /\ \A t \in Tasks : OnPath(stack, t) => ~parked[t] /\ outcome[t] # "unborn"
  BY <1>1, TopFacts
<1>4. Top.budget \in 0 .. BudgetMax
  BY <1>3 DEF Frames
<1>5. /\ stack' \in Seq(Frames) /\ IsPath(stack') /\ (stack' # <<>> => Head(stack').pc = "kids")
      /\ \A t \in Tasks : OnPath(stack', t) => OnPath(stack, t) /\ t # Top.task
      /\ carried' \in [Tasks -> 0 .. BudgetMax] /\ parked' \in [Tasks -> BOOLEAN]
      /\ ~parked'[Top.task] /\ \A t \in Tasks \ {Top.task} : parked'[t] = parked[t]
      /\ emb' = "resume"
  BY <1>1, <1>4, ReturnFacts
<1>6. \A t \in Tasks : parked'[t] = parked[t]
  BY <1>2, <1>3, <1>5 DEF DriveTyped
<1>7. \A t \in Tasks : IsRunnable(t)' => IsRunnable(t)
  BY <1>1, <1>6 DEF IsRunnable, Running, bells
<1>8. \A t \in Tasks : OnPath(stack', t) => ~parked'[t] /\ outcome[t] # "unborn"
  BY <1>3, <1>5, <1>6
<1> QED
  BY <1>1, <1>3, <1>5, <1>6, <1>7, <1>8, AmongTheKids


----------------------------------------------------------------------------
\* The innermost resume goes on.
LEMMA GoesOn ==
    ASSUME DriveInv, stack # <<>>, NEW f \in Frames, FrameOK(f), f.task = Top.task, SetTop(f),
           UNCHANGED <<parked, outcome, emb>>
    PROVE  /\ StackIsPath' /\ ParkIsKept' /\ WellFormed'
           /\ stack' \in Seq(Frames) /\ stack' # <<>> /\ Top' = f
<1>1. /\ stack' \in Seq(Frames) /\ stack' # <<>> /\ Head(stack') = f /\ IsPath(stack')
      /\ \A t \in Tasks : OnPath(stack', t) <=> OnPath(stack, t)
  BY FrameChanged
<1>2. StackIsPath'
  BY <1>1, TopFacts DEF StackIsPath
<1>3. ParkIsKept' /\ WellFormed'
  BY <1>1 DEF ParkIsKept, DriveInv, WellFormed
<1> QED
  BY <1>1, <1>2, <1>3 DEF Top

LEMMA TakeKeeps ==
    ASSUME DriveInv, Take
    PROVE  DriveInv'
<1>1. /\ stack # <<>> /\ Top.pc = "kids" /\ Top.budget >= 1
      /\ UNCHANGED <<waiters, taskVars, busy, await, prov, emb, token>>
      /\ rung' = [rung EXCEPT ![Top.task] = FALSE] /\ woken' = [woken EXCEPT ![Top.task] = {}]
  BY DEF Take, In
<1>2. WellFormed /\ DriveTyped /\ WaitsAreKept /\ WakesAreKept /\ UnbornAreIdle
  BY DEF DriveInv
<1>3. Top \in Frames /\ Top.task \in Tasks /\ ~parked[Top.task]
  BY <1>1, TopFacts
<1> DEFINE t == Top.task
           todo == SetToSeq(woken[t])
           f == [Top EXCEPT !.pc = "futures", !.todo = todo]
<1>4. SetTop(f)
  BY DEF Take
<1>5. woken[t] \subseteq {Io} \cup KidSet(t) /\ woken[t] \subseteq Futures
  BY <1>2, <1>3 DEF DriveTyped
<1>6. todo \in Seq(woken[t]) /\ ToSet(todo) = woken[t]
  <2>1. IsFiniteSet(woken[t])
    BY <1>2, <1>3, <1>5, KidsAreFinite
  <2> QED
    BY <2>1, SetToSeqFacts
<1>7. f \in Frames /\ f.task = t /\ f.pc = "futures" /\ f.todo = todo /\ f.budget = Top.budget
  <2>1. todo \in Seq(Futures)
    BY <1>5, <1>6, SeqOfSubset
  <2> QED
    BY <1>3, <2>1 DEF Frames, PastTakes
<1>8. FrameOK(f)
  <2>1. todo \in Seq({Io} \cup KidSet(t))
    BY <1>5, <1>6, SeqOfSubset
  <2> QED
    BY <1>1, <1>7, <2>1 DEF FrameOK
<1> HIDE DEF f, todo
<1>9. /\ StackIsPath' /\ ParkIsKept' /\ WellFormed'
      /\ stack' \in Seq(Frames) /\ stack' # <<>> /\ Top' = f
  BY <1>1, <1>4, <1>7, <1>8, GoesOn DEF taskVars
<1>10. /\ rung' \in [Tasks -> BOOLEAN] /\ woken' \in [Tasks -> SUBSET Futures]
       /\ \A x \in Tasks : (rung'[x] => rung[x]) /\ (x # t => rung'[x] = rung[x] /\ woken'[x] = woken[x])
       /\ woken'[t] = {}
  BY <1>1, <1>2, <1>3 DEF DriveTyped
<1>11. DriveTyped'
  <2>1. \A x \in Tasks : await'[x] \cup woken'[x] \subseteq {Io} \cup KidSet(x)
    BY <1>1, <1>2, <1>10 DEF DriveTyped
  <2> QED
    BY <1>1, <1>2, <1>9, <1>10, <2>1 DEF DriveTyped, taskVars
<1>12. WaitsAreKept'
  <2> SUFFICES ASSUME NEW p \in Tasks, NEW k \in Tasks, Running(p), k \in await[p]
               PROVE  (k \in woken[p] \/ PollsNow(p, k) \/ Registered(p, k))'
    BY <1>1 DEF WaitsAreKept, Running, taskVars
  <2>1. k \in woken[p] \/ Registered(p, k)
    BY <1>1, <1>2 DEF WaitsAreKept, PollsNow, PastTakes
  <2>2. CASE Registered(p, k)
    BY <1>1, <1>10, <2>2 DEF Registered, Running, IsRunnable, Draining, taskVars
  <2>3. CASE k \in woken[p] /\ p # t
    BY <1>10, <2>3
  <2>4. CASE k \in woken[p] /\ p = t
    BY <1>6, <1>7, <1>9, <2>4 DEF PollsNow, PastTakes
  <2> QED
    BY <2>1, <2>2, <2>3, <2>4
<1>13. MidPoll'
  BY <1>7, <1>9 DEF MidPoll
<1>14. WakesAreKept'
  <2> SUFFICES ASSUME NEW p \in Tasks, Running(p), woken'[p] # {}
               PROVE  rung'[p] \/ Storing(p) \/ (~parked[p] /\ p # t)
    BY <1>1, <1>7, <1>9 DEF WakesAreKept, PastTake, Running, Storing, taskVars
  <2>1. p # t /\ rung'[p] = rung[p] /\ woken[p] # {}
    BY <1>10
  <2> QED
    BY <1>2, <2>1 DEF WakesAreKept
<1>15. UnbornAreIdle'
  BY <1>1, <1>2, <1>10 DEF UnbornAreIdle, taskVars
<1> QED
  BY <1>9, <1>11, <1>12, <1>13, <1>14, <1>15 DEF DriveInv

\* The frame of the next future.
LEMMA NextFutureFacts ==
    ASSUME DriveInv, stack # <<>>, Top.pc \in PastTakes \ {"pending"}, Top.todo # <<>>
    PROVE  /\ NextFuture \in Frames /\ FrameOK(NextFuture) /\ NextFuture.task = Top.task
           /\ NextFuture.pc = "futures" /\ NextFuture.todo = Tail(Top.todo)
           /\ Head(Top.todo) \in {Io} \cup KidSet(Top.task)
           /\ \A x \in ToSet(Top.todo) : x = Head(Top.todo) \/ x \in ToSet(NextFuture.todo)
<1>1. Top \in Frames /\ Top.todo \in Seq(Futures) /\ FrameOK(Top)
  BY TopFacts
<1>2. Top.todo \in Seq({Io} \cup KidSet(Top.task)) /\ Top.budget >= 1
  BY <1>1 DEF FrameOK, PastTakes
<1>3. /\ Head(Top.todo) \in {Io} \cup KidSet(Top.task)
      /\ Tail(Top.todo) \in Seq({Io} \cup KidSet(Top.task)) /\ Tail(Top.todo) \in Seq(Futures)
      /\ \A x \in ToSet(Top.todo) : x = Head(Top.todo) \/ x \in ToSet(Tail(Top.todo))
  BY <1>1, <1>2, TodoDropped
<1>4. /\ NextFuture \in Frames /\ NextFuture.task = Top.task /\ NextFuture.pc = "futures"
      /\ NextFuture.todo = Tail(Top.todo) /\ NextFuture.budget = Top.budget
  BY <1>1, <1>3 DEF NextFuture, Frames, PastTakes
<1>5. FrameOK(NextFuture)
  BY <1>2, <1>3, <1>4 DEF FrameOK
<1> QED
  BY <1>3, <1>4, <1>5

LEMMA FutureResolvesKeeps ==
    ASSUME DriveInv, FutureResolves
    PROVE  DriveInv'
<1>1. /\ stack # <<>> /\ Top.pc = "futures" /\ Top.todo # <<>> /\ SetTop(NextFuture)
      /\ await' = [await EXCEPT ![Top.task] = @ \ {Head(Top.todo)}] /\ busy' = [busy EXCEPT ![Top.task] = TRUE]
      /\ UNCHANGED <<bells, taskVars, woken, prov, emb, token>>
  BY DEF FutureResolves, Polling, In
<1>2. WellFormed /\ DriveTyped /\ WaitsAreKept /\ WakesAreKept /\ UnbornAreIdle
  BY DEF DriveInv
<1>3. Top.task \in Tasks /\ outcome[Top.task] # "unborn"
  BY <1>1, TopFacts
<1>4. /\ NextFuture \in Frames /\ FrameOK(NextFuture) /\ NextFuture.task = Top.task
      /\ NextFuture.pc = "futures" /\ NextFuture.todo = Tail(Top.todo)
      /\ \A x \in ToSet(Top.todo) : x = Head(Top.todo) \/ x \in ToSet(NextFuture.todo)
  BY <1>1, NextFutureFacts DEF PastTakes
<1>5. /\ StackIsPath' /\ ParkIsKept' /\ WellFormed'
      /\ stack' \in Seq(Frames) /\ stack' # <<>> /\ Top' = NextFuture
  BY <1>1, <1>4, GoesOn DEF taskVars
<1>6. /\ await' \in [Tasks -> SUBSET Futures] /\ busy' \in [Tasks -> BOOLEAN]
      /\ \A x \in Tasks : await'[x] \subseteq await[x] /\ (x = Top.task => Head(Top.todo) \notin await'[x])
  BY <1>1, <1>2, <1>3 DEF DriveTyped
<1>7. DriveTyped'
  <2>1. \A x \in Tasks : await'[x] \cup woken'[x] \subseteq {Io} \cup KidSet(x)
    BY <1>1, <1>2, <1>6 DEF DriveTyped
  <2> QED
    BY <1>1, <1>2, <1>5, <1>6, <2>1 DEF DriveTyped, taskVars, bells
<1>8. WaitsAreKept'
  <2> SUFFICES ASSUME NEW p \in Tasks, NEW k \in Tasks, Running(p), k \in await'[p]
               PROVE  k \in woken[p] \/ PollsNow(p, k)' \/ Registered(p, k)
    BY <1>1 DEF WaitsAreKept, Running, Registered, IsRunnable, Draining, taskVars, bells
  <2>1. k \in woken[p] \/ PollsNow(p, k) \/ Registered(p, k)
    BY <1>2, <1>6 DEF WaitsAreKept
  <2>2. CASE PollsNow(p, k)
    <3>1. p = Top.task /\ k \in ToSet(Top.todo) /\ k # Head(Top.todo)
      BY <1>6, <2>2 DEF PollsNow
    <3> QED
      BY <1>4, <1>5, <3>1 DEF PollsNow, PastTakes
  <2> QED
    BY <2>1, <2>2
<1>9. MidPoll'
  BY <1>4, <1>5 DEF MidPoll
<1>10. WakesAreKept'
  BY <1>1, <1>2, <1>4, <1>5 DEF WakesAreKept, PastTake, PastTakes, Running, Storing, taskVars, bells
<1>11. UnbornAreIdle'
  BY <1>1, <1>2, <1>6 DEF UnbornAreIdle, taskVars
<1> QED
  BY <1>5, <1>7, <1>8, <1>9, <1>10, <1>11 DEF DriveInv


----------------------------------------------------------------------------
\* A wait that is registered when t's bell is rung.
LEMMA RingWaits ==
    ASSUME DriveInv, NEW t \in Tasks, NEW again, again \subseteq {Io} \cup KidSet(t), RingBy(t, again),
           prov' = prov, NEW p \in Tasks, NEW k \in Tasks, k \in await[p], Registered(p, k),
           k # t => Running(k)' /\ parked'[k] = parked[k]
    PROVE  k \in woken'[p] \/ Registered(p, k)'
<1>1. WellFormed /\ DriveTyped
  BY DEF DriveInv
<1>2. k \in KidSet(p) /\ p \in waiters[k]
  BY <1>1 DEF DriveTyped, WellFormed, Registered
<1>3. k \in woken'[p] \/ (p \in waiters'[k] /\ rung'[k] = rung[k] /\ k # t)
  BY <1>1, <1>2, RingKeeps
<1> QED
  BY <1>3 DEF Registered, Running, IsRunnable, Draining

\* Ringing t's bell wakes tasks whose bells ring too, and that wait.
LEMMA RingWakes ==
    ASSUME DriveInv, NEW t \in Tasks, NEW again, again \subseteq {Io} \cup KidSet(t), RingBy(t, again),
           prov' = prov, outcome[t] # "unborn",
           \A p \in Tasks : /\ (Running(p)' => Running(p)) /\ (PastTake(p)' => PastTake(p))
                            /\ (parked'[p] => parked[p]) /\ await'[p] \subseteq await[p]
                            /\ outcome'[p] = "unborn" => outcome[p] = "unborn"
    PROVE  WakesAreKept' /\ UnbornAreIdle'
<1>1. WellFormed /\ DriveTyped /\ WakesAreKept /\ UnbornAreIdle
  BY DEF DriveInv
<1>2. \A p \in Tasks : /\ rung[p] => rung'[p]
                       /\ woken'[p] = woken[p] \/ rung'[p]
                       /\ woken'[p] = woken[p] \/ p = t \/ await[p] # {}
  BY <1>1, RingKeeps
<1>3. WakesAreKept'
  <2> SUFFICES ASSUME NEW p \in Tasks, Running(p)', woken'[p] # {}, ~rung'[p]
               PROVE  Storing(p) \/ (~parked'[p] /\ ~PastTake(p)')
    BY DEF WakesAreKept, Storing
  <2>1. Running(p) /\ woken[p] # {} /\ ~rung[p]
    BY <1>2
  <2>2. Storing(p) \/ (~parked[p] /\ ~PastTake(p))
    BY <1>1, <2>1 DEF WakesAreKept
  <2> QED
    BY <2>2
<1>4. UnbornAreIdle'
  <2> SUFFICES ASSUME NEW p \in Tasks, outcome'[p] = "unborn" PROVE await'[p] = {} /\ woken'[p] = {}
    BY DEF UnbornAreIdle
  <2>1. outcome[p] = "unborn" /\ await[p] = {} /\ woken[p] = {} /\ p # t
    BY <1>1 DEF UnbornAreIdle
  <2> QED
    BY <1>2, <2>1
<1> QED
  BY <1>3, <1>4

\* The innermost resume rings its own bell and goes on: polled, and done with
\* the head of its list if it leaves it.
LEMMA RingsItself ==
    ASSUME DriveInv, stack # <<>>, Top.pc \in PastTakes, NEW f \in Frames, FrameOK(f), f.task = Top.task,
           f.pc \in {"futures", "pending"}, SetTop(f), NEW again, again \subseteq {Io} \cup KidSet(Top.task),
           RingBy(Top.task, again), UNCHANGED <<taskVars, busy, await, prov, emb>>,
           \A x \in ToSet(Top.todo) \cap Tasks : x \in again \/ (f.pc = "futures" /\ x \in ToSet(f.todo))
    PROVE  DriveInv'
<1>1. WellFormed /\ DriveTyped /\ WaitsAreKept
  BY DEF DriveInv
<1>2. Top.task \in Tasks /\ outcome[Top.task] # "unborn"
  BY TopFacts
<1>3. /\ StackIsPath' /\ ParkIsKept' /\ WellFormed'
      /\ stack' \in Seq(Frames) /\ stack' # <<>> /\ Top' = f
  BY GoesOn DEF taskVars
<1>4. /\ rung' \in [Tasks -> BOOLEAN] /\ waiters' \in [Tasks -> SUBSET (Tasks \cup {Thread})]
      /\ woken' \in [Tasks -> SUBSET Futures] /\ token' \in BOOLEAN
      /\ \A x \in Tasks : woken'[x] \subseteq {Io} \cup KidSet(x)
      /\ again \subseteq woken'[Top.task] /\ \A x \in Tasks : woken[x] \subseteq woken'[x]
  BY <1>1, <1>2, RingKeeps
<1>5. DriveTyped'
  <2>1. \A x \in Tasks : await'[x] \cup woken'[x] \subseteq {Io} \cup KidSet(x)
    BY <1>1, <1>4 DEF DriveTyped
  <2> QED
    BY <1>1, <1>3, <1>4, <2>1 DEF DriveTyped, taskVars
<1>6. WaitsAreKept'
  <2> SUFFICES ASSUME NEW p \in Tasks, NEW k \in Tasks, Running(p), k \in await[p]
               PROVE  (k \in woken[p] \/ PollsNow(p, k) \/ Registered(p, k))'
    BY DEF WaitsAreKept, Running, taskVars
  <2>1. k \in woken[p] \/ PollsNow(p, k) \/ Registered(p, k)
    BY <1>1 DEF WaitsAreKept
  <2>2. CASE k \in woken[p]
    BY <1>4, <2>2
  <2>3. CASE PollsNow(p, k)
    <3>1. p = Top.task /\ (k \in again \/ (f.pc = "futures" /\ k \in ToSet(f.todo)))
      BY <2>3 DEF PollsNow
    <3>2. CASE k \in again
      BY <1>4, <3>1, <3>2
    <3>3. CASE f.pc = "futures" /\ k \in ToSet(f.todo)
      BY <1>3, <3>1, <3>3 DEF PollsNow, PastTakes
    <3> QED
      BY <3>1, <3>2, <3>3
  <2>4. CASE Registered(p, k)
    <3>1. Running(k)' /\ parked'[k] = parked[k]
      BY <2>4 DEF Registered, Running, taskVars
    <3> QED
      BY <1>2, <2>4, <3>1, RingWaits
  <2> QED
    BY <2>1, <2>2, <2>3, <2>4
<1>7. MidPoll'
  BY <1>3 DEF MidPoll
<1>8. WakesAreKept' /\ UnbornAreIdle'
  <2>1. \A p \in Tasks : /\ (Running(p)' => Running(p)) /\ (PastTake(p)' => PastTake(p))
                         /\ (parked'[p] => parked[p]) /\ await'[p] \subseteq await[p]
                         /\ outcome'[p] = "unborn" => outcome[p] = "unborn"
    BY <1>3 DEF Running, PastTake, taskVars
  <2> QED
    BY <1>2, <2>1, RingWakes
<1> QED
  BY <1>3, <1>5, <1>6, <1>7, <1>8 DEF DriveInv

\* The innermost resume goes on without ringing; what it was to poll is kept or
\* is registered.
LEMMA GoesOnSilently ==
    ASSUME DriveInv, stack # <<>>, Top.pc \in PastTakes, NEW f \in Frames, FrameOK(f), f.task = Top.task,
           f.pc \in PastTakes, SetTop(f), UNCHANGED <<rung, taskVars, busy, await, woken, prov, emb, token>>,
           waiters' \in [Tasks -> SUBSET (Tasks \cup {Thread})], \A t \in Tasks : waiters[t] \subseteq waiters'[t],
           \A k \in ToSet(Top.todo) \cap Tasks :
              \/ f.pc # "pending" /\ k \in ToSet(f.todo)
              \/ k \in await[Top.task] => k \in woken[Top.task] \/ Registered(Top.task, k),
           MidPoll'
    PROVE  DriveInv'
<1>1. WellFormed /\ DriveTyped /\ WaitsAreKept /\ WakesAreKept /\ UnbornAreIdle
  BY DEF DriveInv
<1>2. /\ StackIsPath' /\ ParkIsKept' /\ WellFormed'
      /\ stack' \in Seq(Frames) /\ stack' # <<>> /\ Top' = f
  BY GoesOn DEF taskVars
<1>3. DriveTyped' /\ UnbornAreIdle'
  BY <1>1, <1>2 DEF DriveTyped, UnbornAreIdle, taskVars
<1>4. WaitsAreKept'
  <2> SUFFICES ASSUME NEW p \in Tasks, NEW k \in Tasks, Running(p), k \in await[p]
               PROVE  k \in woken[p] \/ PollsNow(p, k)' \/ Registered(p, k)
    BY DEF WaitsAreKept, Running, Registered, IsRunnable, Draining, taskVars
  <2>1. k \in woken[p] \/ PollsNow(p, k) \/ Registered(p, k)
    BY <1>1 DEF WaitsAreKept
  <2>2. CASE PollsNow(p, k)
    <3>1. p = Top.task /\ k \in ToSet(Top.todo)
      BY <2>2 DEF PollsNow
    <3> QED
      BY <1>2, <3>1 DEF PollsNow
  <2> QED
    BY <2>1, <2>2
<1>5. WakesAreKept'
  BY <1>1, <1>2 DEF WakesAreKept, PastTake, Running, Storing, taskVars
<1> QED
  BY <1>2, <1>3, <1>4, <1>5 DEF DriveInv


----------------------------------------------------------------------------
\* Polling the wait on one child: look, register, look again.
LEMMA WaitCheckKeeps ==
    ASSUME DriveInv, WaitCheck
    PROVE  DriveInv'
<1> DEFINE k == Head(Top.todo)
<1>1. /\ stack # <<>> /\ Top.pc = "futures" /\ Top.todo # <<>> /\ ~Resolves(k)
      /\ UNCHANGED <<taskVars, busy, await, prov, emb>>
  BY DEF WaitCheck, Polling, In
<1>2. WellFormed /\ DriveTyped
  BY DEF DriveInv
<1>3. /\ Top \in Frames /\ Top.task \in Tasks /\ FrameOK(Top)
  BY <1>1, TopFacts
<1>4. /\ NextFuture \in Frames /\ FrameOK(NextFuture) /\ NextFuture.task = Top.task
      /\ NextFuture.pc = "futures" /\ NextFuture.todo = Tail(Top.todo)
      /\ k \in {Io} \cup KidSet(Top.task)
      /\ \A x \in ToSet(Top.todo) : x = k \/ x \in ToSet(NextFuture.todo)
  BY <1>1, NextFutureFacts DEF PastTakes
<1>5. k \in KidSet(Top.task) /\ k \in Tasks /\ Running(k)
  <2>1. k # Io /\ Running(k)
    BY <1>1 DEF Resolves
  <2> QED
    BY <1>2, <1>3, <1>4, <2>1 DEF WellFormed
<1>6. CASE IsRunnable(k)
  <2>1. RingBy(Top.task, {k}) /\ SetTop(NextFuture)
    BY <1>6 DEF WaitCheck
  <2>2. \A x \in ToSet(Top.todo) \cap Tasks :
           x \in {k} \/ (NextFuture.pc = "futures" /\ x \in ToSet(NextFuture.todo))
    BY <1>4
  <2>3. {k} \subseteq {Io} \cup KidSet(Top.task) /\ Top.pc \in PastTakes /\ NextFuture.pc \in {"futures", "pending"}
    BY <1>1, <1>4, <1>5 DEF PastTakes
  <2> HIDE DEF k
  <2> QED
    BY <1>1, <1>4, <2>1, <2>2, <2>3, RingsItself
<1>7. CASE ~IsRunnable(k)
  <2> DEFINE f == [Top EXCEPT !.pc = "register"]
  <2>1. SetTop(f) /\ UNCHANGED <<bells, woken, token>>
    BY <1>7 DEF WaitCheck
  <2>2. f \in Frames /\ f.task = Top.task /\ f.pc = "register" /\ f.todo = Top.todo /\ f.budget = Top.budget
    BY <1>3 DEF Frames, PastTakes
  <2>3. FrameOK(f)
    BY <1>1, <1>3, <2>2 DEF FrameOK
  <2> HIDE DEF f
  <2>4. stack' # <<>> /\ Top' = f
    BY <1>1, <2>1, <2>2, <2>3, GoesOn DEF taskVars
  <2>5. MidPoll'
    BY <1>1, <1>5, <2>2, <2>4 DEF MidPoll, Running, taskVars
  <2>6. waiters' \in [Tasks -> SUBSET (Tasks \cup {Thread})] /\ \A t \in Tasks : waiters[t] \subseteq waiters'[t]
    BY <1>2, <2>1 DEF DriveTyped, bells
  <2> QED
    BY <1>1, <2>1, <2>2, <2>3, <2>5, <2>6, GoesOnSilently DEF PastTakes, bells
<1> QED
  BY <1>6, <1>7

LEMMA WaitRegisterKeeps ==
    ASSUME DriveInv, WaitRegister
    PROVE  DriveInv'
<1> DEFINE k == Head(Top.todo)
           f == [Top EXCEPT !.pc = "reobserve"]
<1>1. /\ stack # <<>> /\ Top.pc = "register" /\ SetTop(f)
      /\ waiters' = [waiters EXCEPT ![k] = @ \cup {Top.task}]
      /\ UNCHANGED <<rung, taskVars, busy, await, woken, prov, emb, token>>
  BY DEF WaitRegister, In
<1>2. WellFormed /\ DriveTyped /\ MidPoll
  BY DEF DriveInv
<1>3. /\ Top \in Frames /\ Top.task \in Tasks /\ FrameOK(Top)
  BY <1>1, TopFacts
<1>4. Top.todo # <<>> /\ k \in Tasks /\ Running(k)
  BY <1>1, <1>2 DEF MidPoll
<1>5. f \in Frames /\ f.task = Top.task /\ f.pc = "reobserve" /\ f.todo = Top.todo /\ f.budget = Top.budget
  BY <1>3 DEF Frames, PastTakes
<1>6. FrameOK(f)
  BY <1>1, <1>3, <1>5 DEF FrameOK
<1> HIDE DEF f
<1>7. stack' # <<>> /\ Top' = f
  BY <1>1, <1>5, <1>6, GoesOn DEF taskVars
<1>8. /\ waiters' \in [Tasks -> SUBSET (Tasks \cup {Thread})] /\ \A t \in Tasks : waiters[t] \subseteq waiters'[t]
      /\ Top.task \in waiters'[k]
  BY <1>1, <1>2, <1>3, <1>4 DEF DriveTyped
<1>9. MidPoll'
  BY <1>1, <1>4, <1>5, <1>7, <1>8 DEF MidPoll, Running, taskVars
<1> QED
  BY <1>1, <1>5, <1>6, <1>8, <1>9, GoesOnSilently DEF PastTakes

LEMMA WaitReobserveKeeps ==
    ASSUME DriveInv, WaitReobserve
    PROVE  DriveInv'
<1> DEFINE k == Head(Top.todo)
<1>1. /\ stack # <<>> /\ Top.pc = "reobserve" /\ SetTop(NextFuture)
      /\ UNCHANGED <<taskVars, busy, await, prov, emb>>
  BY DEF WaitReobserve, In
<1>2. WellFormed /\ DriveTyped /\ MidPoll
  BY DEF DriveInv
<1>3. /\ Top.todo # <<>> /\ k \in Tasks /\ Running(k)
      /\ k \in await[Top.task] => Top.task \in waiters[k] \/ k \in woken[Top.task]
  BY <1>1, <1>2 DEF MidPoll
<1>4. /\ NextFuture \in Frames /\ FrameOK(NextFuture) /\ NextFuture.task = Top.task
      /\ NextFuture.pc = "futures" /\ NextFuture.todo = Tail(Top.todo)
      /\ k \in {Io} \cup KidSet(Top.task)
      /\ \A x \in ToSet(Top.todo) : x = k \/ x \in ToSet(NextFuture.todo)
  BY <1>1, <1>3, NextFutureFacts DEF PastTakes
<1>5. CASE IsRunnable(k)
  <2>1. RingBy(Top.task, {k})
    BY <1>5 DEF WaitReobserve
  <2>2. \A x \in ToSet(Top.todo) \cap Tasks :
           x \in {k} \/ (NextFuture.pc = "futures" /\ x \in ToSet(NextFuture.todo))
    BY <1>4
  <2>3. {k} \subseteq {Io} \cup KidSet(Top.task) /\ Top.pc \in PastTakes /\ NextFuture.pc \in {"futures", "pending"}
    BY <1>1, <1>4 DEF PastTakes
  <2> HIDE DEF k
  <2> QED
    BY <1>1, <1>4, <2>1, <2>2, <2>3, RingsItself
<1>6. CASE ~IsRunnable(k)
  <2>1. UNCHANGED <<bells, woken, token>>
    BY <1>6 DEF WaitReobserve
  <2>2. stack' # <<>> /\ Top' = NextFuture
    BY <1>1, <1>4, GoesOn DEF taskVars
  <2>3. MidPoll'
    BY <1>4, <2>2 DEF MidPoll
  <2>4. waiters' \in [Tasks -> SUBSET (Tasks \cup {Thread})] /\ \A t \in Tasks : waiters[t] \subseteq waiters'[t]
    BY <1>2, <2>1 DEF DriveTyped, bells
  <2>5. k \in await[Top.task] => k \in woken[Top.task] \/ Registered(Top.task, k)
    BY <1>3, <1>6 DEF Registered
  <2>6. \A x \in ToSet(Top.todo) \cap Tasks :
              \/ NextFuture.pc # "pending" /\ x \in ToSet(NextFuture.todo)
              \/ x \in await[Top.task] => x \in woken[Top.task] \/ Registered(Top.task, x)
    BY <1>4, <2>5
  <2>7. UNCHANGED <<rung, taskVars, busy, await, woken, prov, emb, token>> /\ Top.pc \in PastTakes /\ NextFuture.pc \in PastTakes
    BY <1>1, <1>4, <2>1 DEF bells, PastTakes
  <2> QED
    BY <1>1, <1>4, <2>3, <2>4, <2>6, <2>7, GoesOnSilently
<1> QED
  BY <1>5, <1>6

----------------------------------------------------------------------------
\* The guest's turn: what it was woken for has been polled.
LEMMA GuestFacts ==
    ASSUME DriveInv, In("futures"), Top.todo = <<>>
    PROVE  /\ stack # <<>> /\ Top.pc = "futures" /\ Top.pc \in PastTakes
           /\ Top \in Frames /\ Top.task \in Tasks /\ FrameOK(Top) /\ Top.budget \in 1 .. BudgetMax
           /\ ~parked[Top.task] /\ outcome[Top.task] # "unborn" /\ emb = "resume"
           /\ ToSet(Top.todo) = {} /\ \A p, k \in Tasks : ~PollsNow(p, k)
<1>1. stack # <<>> /\ Top.pc = "futures" /\ Top.pc \in PastTakes
  BY DEF In, PastTakes
<1>2. /\ Top \in Frames /\ Top.task \in Tasks /\ FrameOK(Top)
      /\ ~parked[Top.task] /\ outcome[Top.task] # "unborn" /\ emb = "resume"
  BY <1>1, TopFacts
<1>3. Top.budget \in 1 .. BudgetMax
  <2>1. Top.budget \in 0 .. BudgetMax /\ Top.budget >= 1 /\ BudgetMax \in Nat
    BY <1>1, <1>2 DEF FrameOK, Frames, DriveInv, WellFormed
  <2> QED
    BY <2>1
<1>4. ToSet(Top.todo) = {}
  BY DEF ToSet
<1> QED
  BY <1>1, <1>2, <1>3, <1>4 DEF PollsNow

LEMMA PendingFrame ==
    ASSUME NEW g \in Frames, FrameOK(g), g.pc = "futures"
    PROVE  /\ [g EXCEPT !.pc = "pending"] \in Frames /\ FrameOK([g EXCEPT !.pc = "pending"])
           /\ [g EXCEPT !.pc = "pending"].task = g.task /\ [g EXCEPT !.pc = "pending"].pc = "pending"
BY DEF Frames, FrameOK, PastTakes

LEMMA GuestYieldsKeeps ==
    ASSUME DriveInv, GuestYields
    PROVE  DriveInv'
<1> DEFINE f == [Top EXCEPT !.pc = "pending"]
<1>1. /\ In("futures") /\ Top.todo = <<>> /\ RingBy(Top.task, {}) /\ SetTop(f)
      /\ UNCHANGED <<taskVars, busy, await, prov, emb>>
  BY DEF GuestYields, GuestRuns
<1>2. f \in Frames /\ FrameOK(f) /\ f.task = Top.task /\ f.pc = "pending"
  BY <1>1, GuestFacts, PendingFrame
<1>3. /\ stack # <<>> /\ Top.pc \in PastTakes /\ ToSet(Top.todo) = {}
  BY <1>1, GuestFacts
<1> HIDE DEF f
<1>4. {} \subseteq {Io} \cup KidSet(Top.task) /\ f.pc \in {"futures", "pending"}
      /\ \A x \in ToSet(Top.todo) \cap Tasks : x \in {} \/ (f.pc = "futures" /\ x \in ToSet(f.todo))
  BY <1>2, <1>3
<1> QED
  BY <1>1, <1>2, <1>3, <1>4, RingsItself

LEMMA GuestWaitsKeeps ==
    ASSUME DriveInv, GuestWaits
    PROVE  DriveInv'
<1> DEFINE f == [Top EXCEPT !.pc = "pending"]
<1>1. /\ In("futures") /\ Top.todo = <<>> /\ SetTop(f)
      /\ UNCHANGED <<bells, taskVars, busy, await, woken, prov, emb, token>>
  BY DEF GuestWaits
<1>2. f \in Frames /\ FrameOK(f) /\ f.task = Top.task /\ f.pc = "pending"
  BY <1>1, GuestFacts, PendingFrame
<1>3. stack # <<>> /\ Top.pc \in PastTakes /\ ToSet(Top.todo) = {}
  BY <1>1, GuestFacts
<1> HIDE DEF f
<1>4. stack' # <<>> /\ Top' = f
  BY <1>1, <1>2, <1>3, GoesOn DEF taskVars
<1>5. MidPoll'
  BY <1>2, <1>4 DEF MidPoll
<1>6. waiters' \in [Tasks -> SUBSET (Tasks \cup {Thread})] /\ \A t \in Tasks : waiters[t] \subseteq waiters'[t]
  BY <1>1 DEF DriveInv, DriveTyped, bells
<1> QED
  BY <1>1, <1>2, <1>3, <1>5, <1>6, GoesOnSilently DEF PastTakes, bells


LEMMA GuestSpawnsKeeps ==
    ASSUME DriveInv, NEW c \in Tasks, GuestSpawns(c)
    PROVE  DriveInv'
<1>1. /\ In("futures") /\ Top.todo = <<>> /\ outcome[c] = "unborn"
      /\ outcome' = [outcome EXCEPT ![c] = "running"] /\ busy' = [busy EXCEPT ![c] = TRUE]
      /\ UNCHANGED <<bells, parked, carried, await, woken, prov, stack, emb, token>>
  BY DEF GuestSpawns, GuestRuns
<1>2. WellFormed /\ DriveTyped /\ StackIsPath /\ WaitsAreKept /\ WakesAreKept /\ UnbornAreIdle
  BY DEF DriveInv
<1>3. stack # <<>> /\ Top.pc = "futures" /\ \A p, k \in Tasks : ~PollsNow(p, k)
  BY <1>1, GuestFacts
<1>4. /\ outcome' \in [Tasks -> {"unborn", "running", "done", "killed"}] /\ busy' \in [Tasks -> BOOLEAN]
      /\ outcome'[c] = "running" /\ \A t \in Tasks \ {c} : outcome'[t] = outcome[t]
  BY <1>1, <1>2 DEF DriveTyped
<1>5. await[c] = {} /\ woken[c] = {}
  BY <1>1, <1>2 DEF UnbornAreIdle
<1>6. DriveTyped' /\ WellFormed'
  BY <1>1, <1>2, <1>4 DEF DriveTyped, WellFormed, bells
<1>7. StackIsPath'
  BY <1>1, <1>2, <1>4 DEF StackIsPath, IsPath, OnPath, FrameOK
<1>8. WaitsAreKept'
  <2> SUFFICES ASSUME NEW p \in Tasks, NEW k \in Tasks, Running(p)', k \in await[p]
               PROVE  k \in woken[p] \/ Registered(p, k)'
    BY <1>1 DEF WaitsAreKept
  <2>1. p # c /\ Running(p)
    BY <1>4, <1>5 DEF Running
  <2>2. k \in woken[p] \/ Registered(p, k)
    BY <1>2, <1>3, <2>1 DEF WaitsAreKept
  <2>3. ASSUME Registered(p, k) PROVE Registered(p, k)'
    <3>1. k # c
      BY <1>1, <2>3 DEF Registered, Running
    <3> QED
      BY <1>1, <1>4, <2>3, <3>1 DEF Registered, Running, IsRunnable, Draining, bells
  <2> QED
    BY <2>2, <2>3
<1>9. MidPoll' /\ ParkIsKept'
  BY <1>1, <1>3 DEF MidPoll, ParkIsKept, Top
<1>10. WakesAreKept'
  <2> SUFFICES ASSUME NEW p \in Tasks, Running(p)', woken[p] # {}
               PROVE  rung[p] \/ Storing(p) \/ (~parked[p] /\ ~PastTake(p))
    BY <1>1 DEF WakesAreKept, Storing, PastTake, Top, bells
  <2>1. Running(p)
    BY <1>4, <1>5 DEF Running
  <2> QED
    BY <1>2, <2>1 DEF WakesAreKept
<1>11. UnbornAreIdle'
  BY <1>1, <1>2, <1>4 DEF UnbornAreIdle
<1> QED
  BY <1>6, <1>7, <1>8, <1>9, <1>10, <1>11 DEF DriveInv

LEMMA GuestAwaitsKeeps ==
    ASSUME DriveInv, NEW what, GuestAwaits(what)
    PROVE  DriveInv'
<1> DEFINE t == Top.task
           new == what \ (await[t] \cup {Io})
           todo == SetToSeq(new)
           f == [Top EXCEPT !.todo = todo]
<1>1. /\ In("futures") /\ Top.todo = <<>> /\ what \in Uses[t] /\ await[t] \subseteq what
      /\ await' = [await EXCEPT ![t] = what] /\ busy' = [busy EXCEPT ![t] = FALSE] /\ SetTop(f)
      /\ UNCHANGED <<bells, taskVars, woken, prov, emb, token>>
  BY DEF GuestAwaits, GuestRuns
<1>2. WellFormed /\ DriveTyped /\ StackIsPath /\ WaitsAreKept /\ WakesAreKept /\ UnbornAreIdle
  BY DEF DriveInv
<1>3. /\ stack # <<>> /\ Top.pc = "futures" /\ Top \in Frames /\ t \in Tasks /\ Top.budget \in 1 .. BudgetMax
      /\ outcome[t] # "unborn" /\ \A p, k \in Tasks : ~PollsNow(p, k)
  BY <1>1, GuestFacts
<1>4. what \subseteq {Io} \cup KidSet(t)
  BY <1>1, <1>2, <1>3 DEF WellFormed
<1>5. what \subseteq Futures /\ new \subseteq {Io} \cup KidSet(t) /\ new \subseteq Futures
  BY <1>2, <1>3, <1>4 DEF WellFormed, Futures
<1>6. todo \in Seq(new) /\ ToSet(todo) = new
  <2>1. IsFiniteSet(new)
    BY <1>2, <1>3, <1>5, KidsAreFinite
  <2> HIDE DEF new
  <2> QED
    BY <2>1, SetToSeqFacts
<1> HIDE DEF todo
<1>7. todo \in Seq(Futures) /\ todo \in Seq({Io} \cup KidSet(t))
  <2> HIDE DEF new
  <2> QED
    BY <1>5, <1>6, SeqOfSubset
<1>8. f \in Frames /\ f.task = t /\ f.pc = "futures" /\ f.todo = todo /\ f.budget = Top.budget
  BY <1>3, <1>7 DEF Frames, PastTakes
<1>9. FrameOK(f)
  BY <1>3, <1>7, <1>8 DEF FrameOK
<1> HIDE DEF f
<1>10. /\ StackIsPath' /\ ParkIsKept' /\ WellFormed'
       /\ stack' \in Seq(Frames) /\ stack' # <<>> /\ Top' = f
  BY <1>1, <1>3, <1>8, <1>9, GoesOn DEF taskVars
<1>11. /\ await' \in [Tasks -> SUBSET Futures] /\ busy' \in [Tasks -> BOOLEAN]
       /\ await'[t] = what /\ \A x \in Tasks \ {t} : await'[x] = await[x]
  BY <1>1, <1>2, <1>3, <1>5 DEF DriveTyped
<1>12. DriveTyped'
  <2>1. \A x \in Tasks : await'[x] \cup woken'[x] \subseteq {Io} \cup KidSet(x)
    BY <1>1, <1>2, <1>4, <1>11 DEF DriveTyped
  <2> QED
    BY <1>1, <1>2, <1>10, <1>11, <2>1 DEF DriveTyped, taskVars, bells
<1>13. WaitsAreKept'
  <2> SUFFICES ASSUME NEW p \in Tasks, NEW k \in Tasks, Running(p), k \in await'[p]
               PROVE  k \in woken[p] \/ PollsNow(p, k)' \/ Registered(p, k)
    BY <1>1 DEF WaitsAreKept, Running, Registered, IsRunnable, Draining, taskVars, bells
  <2>1. CASE k \in await[p]
    BY <1>2, <1>3, <2>1 DEF WaitsAreKept
  <2>2. CASE k \notin await[p]
    <3>1. p = t /\ k \in new
      BY <1>2, <1>11, <2>2 DEF WellFormed
    <3> QED
      BY <1>6, <1>8, <1>10, <3>1 DEF PollsNow, PastTakes
  <2> QED
    BY <2>1, <2>2
<1>14. MidPoll'
  BY <1>8, <1>10 DEF MidPoll
<1>15. WakesAreKept'
  BY <1>1, <1>2, <1>3, <1>8, <1>10 DEF WakesAreKept, PastTake, PastTakes, Running, Storing, taskVars, bells
<1>16. UnbornAreIdle'
  BY <1>1, <1>2, <1>3, <1>11 DEF UnbornAreIdle, taskVars
<1> QED
  BY <1>10, <1>12, <1>13, <1>14, <1>15, <1>16 DEF DriveInv

\* A store goes, its bell is rung, and its wait ends with it.
LEMMA EndKeeps ==
    ASSUME DriveInv, In("futures"), Top.todo = <<>>, NEW t \in Tasks, NEW how \in {"done", "killed"},
           End(t, how), RingBy(t, {}), prov' = prov, outcome[t] # "unborn",
           carried' \in [Tasks -> 0 .. BudgetMax], parked' \in [Tasks -> BOOLEAN],
           \A x \in Tasks \ {t} : parked'[x] = parked[x], parked'[t] => parked[t], StackIsPath',
           stack' \in Seq(Frames), emb' = "resume", stack' = stack \/ (stack' # <<>> => Top'.pc = "kids")
    PROVE  DriveInv'
<1>1. WellFormed /\ DriveTyped /\ WaitsAreKept /\ UnbornAreIdle
  BY DEF DriveInv
<1>2. stack # <<>> /\ Top.pc = "futures" /\ \A p, k \in Tasks : ~PollsNow(p, k)
  BY GuestFacts
<1>3. /\ outcome' \in [Tasks -> {"unborn", "running", "done", "killed"}] /\ busy' \in [Tasks -> BOOLEAN]
      /\ await' \in [Tasks -> SUBSET Futures]
      /\ outcome'[t] = how /\ \A x \in Tasks \ {t} : outcome'[x] = outcome[x] /\ await'[x] = await[x]
      /\ \A x \in Tasks : await'[x] \subseteq await[x]
  BY <1>1 DEF End, DriveTyped
<1>4. /\ rung' \in [Tasks -> BOOLEAN] /\ waiters' \in [Tasks -> SUBSET (Tasks \cup {Thread})]
      /\ woken' \in [Tasks -> SUBSET Futures] /\ token' \in BOOLEAN
      /\ \A x \in Tasks : woken'[x] \subseteq {Io} \cup KidSet(x)
      /\ \A x \in Tasks : woken[x] \subseteq woken'[x]
  <2>1. {} \subseteq {Io} \cup KidSet(t)
    OBVIOUS
  <2> QED
    BY <1>1, <2>1, RingKeeps
<1>5. DriveTyped' /\ WellFormed'
  <2>1. \A x \in Tasks : await'[x] \cup woken'[x] \subseteq {Io} \cup KidSet(x)
    BY <1>1, <1>3, <1>4 DEF DriveTyped
  <2> QED
    BY <1>1, <1>3, <1>4, <2>1 DEF DriveTyped, WellFormed
<1>6. WaitsAreKept'
  <2> SUFFICES ASSUME NEW p \in Tasks, NEW k \in Tasks, Running(p)', k \in await'[p]
               PROVE  k \in woken'[p] \/ Registered(p, k)'
    BY DEF WaitsAreKept
  <2>1. p # t /\ Running(p) /\ k \in await[p]
    BY <1>3 DEF Running
  <2>2. k \in woken[p] \/ Registered(p, k)
    BY <1>1, <1>2, <2>1 DEF WaitsAreKept
  <2>3. ASSUME Registered(p, k) PROVE k \in woken'[p] \/ Registered(p, k)'
    <3>1. k # t => Running(k)' /\ parked'[k] = parked[k]
      BY <1>3, <2>3 DEF Registered, Running
    <3>2. {} \subseteq {Io} \cup KidSet(t)
      OBVIOUS
    <3> QED
      BY <2>1, <2>3, <3>1, <3>2, RingWaits
  <2> QED
    BY <1>4, <2>2, <2>3
<1>7. MidPoll' /\ ParkIsKept'
  BY <1>2 DEF MidPoll, ParkIsKept, Top
<1>8. WakesAreKept' /\ UnbornAreIdle'
  <2>1. \A p \in Tasks : /\ (Running(p)' => Running(p)) /\ (PastTake(p)' => PastTake(p))
                         /\ (parked'[p] => parked[p]) /\ await'[p] \subseteq await[p]
                         /\ outcome'[p] = "unborn" => outcome[p] = "unborn"
    BY <1>3 DEF Running, PastTake, PastTakes, Top
  <2>2. {} \subseteq {Io} \cup KidSet(t)
    OBVIOUS
  <2> QED
    BY <2>1, <2>2, RingWakes
<1> QED
  BY <1>5, <1>6, <1>7, <1>8 DEF DriveInv

LEMMA GuestFinishesKeeps ==
    ASSUME DriveInv, GuestFinishes
    PROVE  DriveInv'
<1>1. /\ In("futures") /\ Top.todo = <<>> /\ End(Top.task, "done") /\ RingBy(Top.task, {})
      /\ Return(Top.budget, FALSE) /\ prov' = prov
  BY DEF GuestFinishes, GuestRuns
<1>2. /\ stack # <<>> /\ Top.task \in Tasks /\ Top.budget \in 0 .. BudgetMax
      /\ ~parked[Top.task] /\ outcome[Top.task] # "unborn"
      /\ \A t \in Tasks : OnPath(stack, t) => ~parked[t] /\ outcome[t] # "unborn"
  BY <1>1, GuestFacts, TopFacts
<1>3. /\ stack' \in Seq(Frames) /\ IsPath(stack') /\ (stack' # <<>> => Head(stack').pc = "kids")
      /\ \A t \in Tasks : OnPath(stack', t) => OnPath(stack, t) /\ t # Top.task
      /\ carried' \in [Tasks -> 0 .. BudgetMax] /\ parked' \in [Tasks -> BOOLEAN]
      /\ ~parked'[Top.task] /\ \A t \in Tasks \ {Top.task} : parked'[t] = parked[t]
      /\ emb' = "resume"
  BY <1>1, <1>2, ReturnFacts
<1>4. StackIsPath'
  <2>1. \A t \in Tasks \ {Top.task} : outcome'[t] = outcome[t]
    BY <1>1 DEF End, DriveInv, DriveTyped
  <2> QED
    BY <1>2, <1>3, <2>1 DEF StackIsPath
<1> QED
  BY <1>1, <1>2, <1>3, <1>4, EndKeeps DEF Top

LEMMA GuestKillsKeeps ==
    ASSUME DriveInv, NEW k \in Tasks, GuestKills(k)
    PROVE  DriveInv'
<1>1. /\ In("futures") /\ Top.todo = <<>> /\ End(k, "killed") /\ RingBy(k, {}) /\ Running(k)
      /\ UNCHANGED <<parked, carried, prov, stack, emb>>
  BY DEF GuestKills, GuestRuns
<1>2. DriveTyped /\ StackIsPath /\ emb = "resume" /\ outcome[k] # "unborn"
  BY <1>1, GuestFacts DEF DriveInv, Running
<1>3. StackIsPath'
  <2>1. \A t \in Tasks : outcome'[t] = outcome[t] \/ outcome'[t] = "killed"
    BY <1>1, <1>2 DEF End, DriveTyped
  <2> QED
    BY <1>1, <1>2, <2>1 DEF StackIsPath, IsPath, OnPath, FrameOK
<1> QED
  BY <1>1, <1>2, <1>3, EndKeeps DEF DriveTyped


----------------------------------------------------------------------------
\* Pending: the task's bell is taken, and without a ring it is parked.
LEMMA PendingKeeps ==
    ASSUME DriveInv, Pending
    PROVE  DriveInv'
<1> DEFINE t == Top.task
<1>1. /\ stack # <<>> /\ Top.pc = "pending" /\ rung' = [rung EXCEPT ![t] = FALSE]
      /\ UNCHANGED <<waiters, outcome, busy, await, woken, prov, token>>
  BY DEF Pending, In
<1>2. WellFormed /\ DriveTyped /\ StackIsPath /\ WaitsAreKept /\ WakesAreKept /\ UnbornAreIdle
  BY DEF DriveInv
<1>3. /\ Top \in Frames /\ t \in Tasks /\ FrameOK(Top) /\ ~parked[t] /\ emb = "resume"
      /\ \A x \in Tasks : OnPath(stack, x) => ~parked[x] /\ outcome[x] # "unborn"
  BY <1>1, TopFacts
<1>4. Top.budget \in 1 .. BudgetMax /\ Top.budget - 1 \in 0 .. BudgetMax
  <2>1. Top.budget \in 0 .. BudgetMax /\ Top.budget >= 1 /\ BudgetMax \in Nat
    BY <1>1, <1>2, <1>3 DEF FrameOK, Frames, WellFormed
  <2> QED
    BY <2>1
<1>5. /\ rung' \in [Tasks -> BOOLEAN] /\ ~rung'[t]
      /\ \A x \in Tasks \ {t} : rung'[x] = rung[x]
  BY <1>1, <1>2, <1>3 DEF DriveTyped
\* However it goes on: the frame is among the children or gone.
<1>6. /\ stack' \in Seq(Frames) /\ IsPath(stack') /\ (stack' # <<>> => Head(stack').pc = "kids")
      /\ \A x \in Tasks : OnPath(stack', x) => ~parked'[x] /\ outcome[x] # "unborn"
      /\ carried' \in [Tasks -> 0 .. BudgetMax] /\ parked' \in [Tasks -> BOOLEAN]
      /\ \A x \in Tasks \ {t} : parked'[x] = parked[x]
      /\ rung[t] => ~parked'[t]
      /\ ~rung[t] => parked'[t]
      /\ emb' \in {"resume", "observe"} /\ (stack' # <<>> => emb' = "resume")
  <2>1. CASE ~rung[t]
    <3>1. Return(Top.budget, TRUE) /\ Top.budget \in 0 .. BudgetMax
      BY <1>3, <2>1 DEF Pending, Frames
    <3>2. /\ stack' \in Seq(Frames) /\ IsPath(stack') /\ (stack' # <<>> => Head(stack').pc = "kids")
          /\ \A x \in Tasks : OnPath(stack', x) => OnPath(stack, x) /\ x # t
          /\ carried' \in [Tasks -> 0 .. BudgetMax] /\ parked' \in [Tasks -> BOOLEAN]
          /\ parked'[t] = TRUE /\ \A x \in Tasks \ {t} : parked'[x] = parked[x]
          /\ emb' \in {"resume", "observe"} /\ (stack' # <<>> => emb' = "resume")
      BY <1>1, <3>1, ReturnFacts
    <3> QED
      BY <1>3, <2>1, <3>2
  <2>2. CASE rung[t] /\ Top.budget - 1 < 1
    <3>1. Return(Top.budget - 1, FALSE)
      BY <2>2 DEF Pending
    <3>2. /\ stack' \in Seq(Frames) /\ IsPath(stack') /\ (stack' # <<>> => Head(stack').pc = "kids")
          /\ \A x \in Tasks : OnPath(stack', x) => OnPath(stack, x) /\ x # t
          /\ carried' \in [Tasks -> 0 .. BudgetMax] /\ parked' \in [Tasks -> BOOLEAN]
          /\ parked'[t] = FALSE /\ \A x \in Tasks \ {t} : parked'[x] = parked[x]
          /\ emb' = "resume"
      BY <1>1, <1>4, <3>1, ReturnFacts
    <3> QED
      BY <1>3, <2>2, <3>2
  <2>3. CASE rung[t] /\ ~(Top.budget - 1 < 1)
    <3> DEFINE f == Frame(t, Top.budget - 1)
    <3>1. SetTop(f) /\ UNCHANGED <<carried, parked, emb>>
      BY <2>3 DEF Pending
    <3>2. f \in Frames /\ FrameOK(f)
      <4>1. Top.budget - 1 \in 1 .. BudgetMax
        BY <1>4, <2>3
      <4> QED
        BY <1>2, <1>3, <4>1, FreshFrame
    <3>3. f.task = t /\ f.pc = "kids"
      BY DEF Frame
    <3> HIDE DEF f
    <3>4. /\ stack' \in Seq(Frames) /\ Head(stack') = f /\ IsPath(stack')
          /\ \A x \in Tasks : OnPath(stack', x) <=> OnPath(stack, x)
      BY <1>1, <3>1, <3>2, <3>3, FrameChanged
    <3> QED
      BY <1>2, <1>3, <2>3, <3>1, <3>3, <3>4 DEF DriveTyped
  <2> QED
    BY <2>1, <2>2, <2>3
<1>7. DriveTyped' /\ WellFormed'
  BY <1>1, <1>2, <1>5, <1>6 DEF DriveTyped, WellFormed
<1>8. StackIsPath'
  BY <1>1, <1>6 DEF StackIsPath
<1>9. WaitsAreKept'
  <2> SUFFICES ASSUME NEW p \in Tasks, NEW k \in Tasks, Running(p), k \in await[p], k \notin woken[p]
               PROVE  Registered(p, k)'
    BY <1>1 DEF WaitsAreKept, Running
  <2>1. Registered(p, k)
    BY <1>1, <1>2 DEF WaitsAreKept, PollsNow
  <2>2. IsRunnable(k)' => IsRunnable(k)
    <3>1. CASE k = t
      BY <1>1, <1>3, <3>1 DEF IsRunnable, Running
    <3>2. CASE k # t
      BY <1>1, <1>5, <1>6, <3>2 DEF IsRunnable, Running
    <3> QED
      BY <3>1, <3>2
  <2> QED
    BY <1>1, <2>1, <2>2 DEF Registered, Running, Draining
<1>10. MidPoll' /\ ParkIsKept'
  BY <1>6 DEF MidPoll, ParkIsKept, Top
<1>11. WakesAreKept'
  <2> SUFFICES ASSUME NEW p \in Tasks, Running(p), woken[p] # {}
               PROVE  rung'[p] \/ Storing(p) \/ ~parked'[p]
    BY <1>1, <1>6 DEF WakesAreKept, PastTake, PastTakes, Running, Storing, Top
  <2>1. rung[p] \/ Storing(p) \/ (~parked[p] /\ ~PastTake(p))
    BY <1>2 DEF WakesAreKept
  <2>2. CASE p = t
    <3>1. PastTake(p)
      BY <1>1, <2>2 DEF PastTake, PastTakes
    <3> QED
      BY <1>6, <2>1, <2>2, <3>1
  <2>3. CASE p # t
    BY <1>5, <1>6, <2>1, <2>3
  <2> QED
    BY <2>2, <2>3
<1>12. UnbornAreIdle'
  BY <1>1, <1>2 DEF UnbornAreIdle
<1> QED
  BY <1>7, <1>8, <1>9, <1>10, <1>11, <1>12 DEF DriveInv

----------------------------------------------------------------------------
\* What a provider thread is ringing, and where it is.
LEMMA RingingFacts ==
    ASSUME DriveInv, NEW t \in Tasks, prov[t] # Quiet
    PROVE  prov[t] \in Ringing /\ prov[t].bell \in Tasks /\ prov[t].pc \in {"store", "drain"}
BY DEF DriveInv, DriveTyped, Ringing

LEMMA StackStays ==
    ASSUME DriveInv, UNCHANGED <<stack, parked, outcome, emb>>
    PROVE  StackIsPath' /\ WellFormed'
BY DEF DriveInv, StackIsPath, WellFormed, IsPath, OnPath, FrameOK

LEMMA CompleteKeeps ==
    ASSUME DriveInv, NEW t \in Tasks, Complete(t)
    PROVE  DriveInv'
<1> DEFINE r == [bell |-> t, pc |-> "store"]
<1>1. /\ Io \in await[t] /\ prov[t] = Quiet
      /\ woken' = [woken EXCEPT ![t] = @ \cup {Io}] /\ prov' = [prov EXCEPT ![t] = r]
      /\ UNCHANGED <<bells, taskVars, busy, await, stack, emb, token>>
  BY DEF Complete
<1>2. WellFormed /\ DriveTyped /\ WaitsAreKept /\ MidPoll /\ WakesAreKept /\ UnbornAreIdle /\ ParkIsKept
  BY DEF DriveInv
<1>3. r \in Ringing /\ r # Quiet /\ r.bell = t /\ r.pc = "store"
  BY <1>2 DEF Ringing, WellFormed
<1> HIDE DEF r
<1>4. /\ woken' \in [Tasks -> SUBSET Futures] /\ prov' \in [Tasks -> {Quiet} \cup Ringing]
      /\ woken'[t] = woken[t] \cup {Io} /\ prov'[t] = r
      /\ \A x \in Tasks \ {t} : woken'[x] = woken[x] /\ prov'[x] = prov[x]
  BY <1>1, <1>2, <1>3 DEF DriveTyped, Futures
<1>5. \A b \in Tasks : /\ Storing(b) => Storing(b)'
                       /\ Draining(b) => Draining(b)'
  BY <1>1, <1>4 DEF Storing, Draining
<1>6. Storing(t)'
  BY <1>3, <1>4 DEF Storing
<1>7. DriveTyped'
  <2>1. \A x \in Tasks : await'[x] \cup woken'[x] \subseteq {Io} \cup KidSet(x)
    BY <1>1, <1>2, <1>4 DEF DriveTyped
  <2> QED
    BY <1>1, <1>2, <1>4, <2>1 DEF DriveTyped, taskVars, bells
<1>8. StackIsPath' /\ WellFormed'
  BY <1>1, StackStays DEF taskVars
<1>9. WaitsAreKept'
  <2> SUFFICES ASSUME NEW p \in Tasks, NEW k \in Tasks, Running(p), k \in await[p], k \notin woken'[p]
               PROVE  PollsNow(p, k) \/ Registered(p, k)'
    BY <1>1 DEF WaitsAreKept, Running, PollsNow, Top, taskVars
  <2>1. PollsNow(p, k) \/ Registered(p, k)
    BY <1>2, <1>4 DEF WaitsAreKept
  <2> QED
    BY <1>1, <1>5, <2>1 DEF Registered, Running, IsRunnable, taskVars, bells
<1>10. MidPoll'
  <2>1. \A x \in Tasks : woken[x] \subseteq woken'[x]
    BY <1>4
  <2>2. stack # <<>> => Top.task \in Tasks
    BY TopFacts
  <2> QED
    BY <1>1, <1>2, <2>1, <2>2 DEF MidPoll, Running, Top, taskVars, bells
<1>11. WakesAreKept'
  <2> SUFFICES ASSUME NEW p \in Tasks, Running(p), woken'[p] # {}
               PROVE  rung[p] \/ Storing(p)' \/ (~parked[p] /\ ~PastTake(p))
    BY <1>1 DEF WakesAreKept, Running, PastTake, Top, taskVars, bells
  <2> QED
    BY <1>2, <1>4, <1>5, <1>6 DEF WakesAreKept
<1>12. UnbornAreIdle'
  BY <1>1, <1>2, <1>4 DEF UnbornAreIdle, taskVars
<1>13. ParkIsKept'
  BY <1>1, <1>2, <1>5 DEF ParkIsKept, IsRunnable, Running, WellFormed, taskVars, bells
<1> QED
  BY <1>7, <1>8, <1>9, <1>10, <1>11, <1>12, <1>13 DEF DriveInv

LEMMA RingStoreKeeps ==
    ASSUME DriveInv, NEW t \in Tasks, RingStore(t)
    PROVE  DriveInv'
<1>0. PICK b : b = prov[t].bell
  OBVIOUS
<1> DEFINE r == [prov[t] EXCEPT !.pc = "drain"]
<1>1. /\ prov[t] # Quiet /\ prov[t].pc = "store" /\ rung' = [rung EXCEPT ![b] = TRUE]
      /\ prov' = [prov EXCEPT ![t] = r]
      /\ UNCHANGED <<waiters, taskVars, busy, await, woken, stack, emb, token>>
  BY <1>0 DEF RingStore
<1>2. WellFormed /\ DriveTyped /\ WaitsAreKept /\ MidPoll /\ WakesAreKept /\ UnbornAreIdle /\ ParkIsKept
  BY DEF DriveInv
<1>3. prov[t] \in Ringing /\ b \in Tasks
  BY <1>0, <1>1, RingingFacts
<1>4. r \in Ringing /\ r # Quiet /\ r.bell = b /\ r.pc = "drain"
  BY <1>0, <1>2, <1>3 DEF Ringing, WellFormed
<1> HIDE DEF r
<1>5. /\ rung' \in [Tasks -> BOOLEAN] /\ prov' \in [Tasks -> {Quiet} \cup Ringing]
      /\ rung'[b] /\ prov'[t] = r
      /\ \A x \in Tasks \ {b} : rung'[x] = rung[x]
      /\ \A x \in Tasks \ {t} : prov'[x] = prov[x]
  BY <1>1, <1>2, <1>3, <1>4 DEF DriveTyped
<1>6. Draining(b)'
  BY <1>4, <1>5 DEF Draining
<1>7. \A x \in Tasks : Draining(x) => Draining(x)'
  BY <1>1, <1>5 DEF Draining
<1>8. \A x \in Tasks \ {b} : Storing(x) => Storing(x)'
  BY <1>0, <1>5 DEF Storing
<1>9. \A x \in Tasks : IsRunnable(x)' => IsRunnable(x) \/ Draining(x)'
  <2> SUFFICES ASSUME NEW x \in Tasks, IsRunnable(x)' PROVE IsRunnable(x) \/ Draining(x)'
    OBVIOUS
  <2>1. CASE x = b
    BY <1>6, <2>1
  <2>2. CASE x # b
    BY <1>1, <1>5, <2>2 DEF IsRunnable, Running, taskVars
  <2> QED
    BY <2>1, <2>2
<1>10. DriveTyped' /\ StackIsPath' /\ WellFormed'
  BY <1>1, <1>2, <1>5, StackStays DEF DriveTyped, taskVars
<1>11. WaitsAreKept'
  <2> SUFFICES ASSUME NEW p \in Tasks, NEW k \in Tasks, Running(p), k \in await[p], k \notin woken[p]
               PROVE  PollsNow(p, k) \/ Registered(p, k)'
    BY <1>1 DEF WaitsAreKept, Running, PollsNow, Top, taskVars
  <2>1. PollsNow(p, k) \/ Registered(p, k)
    BY <1>2 DEF WaitsAreKept
  <2> QED
    BY <1>1, <1>7, <1>9, <2>1 DEF Registered, Running, taskVars
<1>12. MidPoll'
  BY <1>1, <1>2 DEF MidPoll, Running, Top, taskVars
<1>13. WakesAreKept'
  <2> SUFFICES ASSUME NEW p \in Tasks, Running(p), woken[p] # {}
               PROVE  rung'[p] \/ Storing(p)' \/ (~parked[p] /\ ~PastTake(p))
    BY <1>1 DEF WakesAreKept, Running, PastTake, Top, taskVars
  <2> QED
    BY <1>2, <1>5, <1>8 DEF WakesAreKept
<1>14. UnbornAreIdle'
  BY <1>1, <1>2 DEF UnbornAreIdle, taskVars
<1>15. ParkIsKept'
  BY <1>1, <1>2, <1>7, <1>9 DEF ParkIsKept, WellFormed
<1> QED
  BY <1>10, <1>11, <1>12, <1>13, <1>14, <1>15 DEF DriveInv


LEMMA RingDrainKeeps ==
    ASSUME DriveInv, NEW t \in Tasks, RingDrain(t)
    PROVE  DriveInv'
<1> DEFINE b == prov[t].bell
           r == [bell |-> Parent[b], pc |-> "store"]
<1>1. /\ prov[t] # Quiet /\ prov[t].pc = "drain"
      /\ token' = (token \/ Thread \in waiters[b]) /\ waiters' = [waiters EXCEPT ![b] = {}]
      /\ UNCHANGED <<rung, taskVars, busy, await, stack, emb>>
  BY DEF RingDrain
<1>2. WellFormed /\ DriveTyped /\ WaitsAreKept /\ MidPoll /\ WakesAreKept /\ UnbornAreIdle /\ ParkIsKept
  BY DEF DriveInv
<1>3. b \in Tasks /\ Parent[b] \in Tasks
  BY <1>1, <1>2, RingingFacts DEF WellFormed
<1>4. r \in Ringing /\ r # Quiet /\ r.bell = Parent[b] /\ r.pc = "store"
  BY <1>2, <1>3 DEF Ringing, WellFormed
<1>5. waiters' \in [Tasks -> SUBSET (Tasks \cup {Thread})] /\ \A x \in Tasks \ {b} : waiters'[x] = waiters[x]
  BY <1>1, <1>2, <1>3 DEF DriveTyped
<1>6. /\ prov' \in [Tasks -> {Quiet} \cup Ringing] /\ woken' \in [Tasks -> SUBSET Futures]
      /\ \A x \in Tasks \ {t} : prov'[x] = prov[x]
      /\ \A x \in Tasks : \/ woken'[x] = woken[x]
                          \/ woken'[x] = woken[x] \cup {b} /\ Wakes(b) /\ x = Parent[b] /\ prov'[t] = r
      /\ Wakes(b) => b \in woken'[Parent[b]]
  <2>1. CASE Wakes(b)
    <3>1. woken' = [woken EXCEPT ![Parent[b]] = @ \cup {b}] /\ prov' = [prov EXCEPT ![t] = r]
      BY <2>1 DEF RingDrain
    <3> HIDE DEF b, r
    <3>2. b \in Futures
      BY <1>3 DEF Futures
    <3> QED
      BY <1>2, <1>3, <1>4, <2>1, <3>1, <3>2 DEF DriveTyped
  <2>2. CASE ~Wakes(b)
    <3>1. woken' = woken /\ prov' = [prov EXCEPT ![t] = Quiet]
      BY <2>2 DEF RingDrain
    <3> QED
      BY <1>2, <2>2, <3>1 DEF DriveTyped
  <2> QED
    BY <2>1, <2>2
<1>7. \A x \in Tasks : Storing(x) => Storing(x)'
  BY <1>1, <1>6 DEF Storing
<1>8. \A x \in Tasks \ {b} : Draining(x) => Draining(x)'
  BY <1>6 DEF Draining
<1>9. \A x \in Tasks : woken'[x] = woken[x] \/ (Storing(x)' /\ b \in await[x] /\ b \in KidSet(x))
  <2> SUFFICES ASSUME NEW x \in Tasks, woken'[x] # woken[x]
               PROVE  Storing(x)' /\ b \in await[x] /\ b \in KidSet(x)
    OBVIOUS
  <2>1. Wakes(b) /\ x = Parent[b] /\ prov'[t] = r
    BY <1>6
  <2>2. b \in await[x]
    BY <2>1 DEF Wakes
  <2>3. b \in KidSet(x)
    BY <1>2, <1>3, <2>2 DEF DriveTyped, WellFormed
  <2> QED
    BY <1>4, <2>1, <2>2, <2>3 DEF Storing
<1>10. \A x \in Tasks : woken[x] \subseteq woken'[x]
  BY <1>6
<1> HIDE DEF b, r
\* A wait that was registered with the bell is to be polled again.
<1>11. ASSUME NEW p \in Tasks, p \in waiters[b], b \in await[p] PROVE b \in woken'[p]
  <2>1. b \in KidSet(p)
    BY <1>2, <1>3, <1>11 DEF DriveTyped, WellFormed
  <2>2. Parent[b] = p
    BY <1>2, <2>1 DEF WellFormed
  <2> QED
    BY <1>6, <1>11, <2>2 DEF Wakes
<1>12. DriveTyped' /\ StackIsPath' /\ WellFormed'
  <2>1. \A x \in Tasks : await'[x] \cup woken'[x] \subseteq {Io} \cup KidSet(x)
    BY <1>1, <1>2, <1>6, <1>9 DEF DriveTyped
  <2>2. token' \in BOOLEAN
    BY <1>1, <1>2 DEF DriveTyped
  <2> QED
    BY <1>1, <1>2, <1>5, <1>6, <2>1, <2>2, StackStays DEF DriveTyped, taskVars
<1>13. WaitsAreKept'
  <2> SUFFICES ASSUME NEW p \in Tasks, NEW k \in Tasks, Running(p), k \in await[p], k \notin woken'[p]
               PROVE  PollsNow(p, k) \/ Registered(p, k)'
    BY <1>1 DEF WaitsAreKept, Running, PollsNow, Top, taskVars
  <2>1. PollsNow(p, k) \/ Registered(p, k)
    BY <1>2, <1>10 DEF WaitsAreKept
  <2>2. ASSUME Registered(p, k) PROVE Registered(p, k)'
    <3>1. k # b
      BY <1>11, <2>2 DEF Registered
    <3> QED
      BY <1>1, <1>5, <1>8, <2>2, <3>1 DEF Registered, Running, IsRunnable, taskVars
  <2> QED
    BY <2>1, <2>2
<1>14. MidPoll'
  <2>1. stack # <<>> => Top.task \in Tasks
    BY TopFacts
  <2> SUFFICES ASSUME stack # <<>>, Top.pc \in {"register", "reobserve"}
               PROVE  /\ Top.todo # <<>> /\ Head(Top.todo) \in Tasks /\ Running(Head(Top.todo))
                      /\ Top.pc = "reobserve" /\ Head(Top.todo) \in await[Top.task] =>
                           Top.task \in waiters'[Head(Top.todo)] \/ Head(Top.todo) \in woken'[Top.task]
    BY <1>1 DEF MidPoll, Running, Top, taskVars
  <2>2. /\ Top.todo # <<>> /\ Head(Top.todo) \in Tasks /\ Running(Head(Top.todo))
        /\ Top.pc = "reobserve" /\ Head(Top.todo) \in await[Top.task] =>
             Top.task \in waiters[Head(Top.todo)] \/ Head(Top.todo) \in woken[Top.task]
    BY <1>2 DEF MidPoll
  <2>3. CASE Head(Top.todo) = b
    BY <1>10, <1>11, <2>1, <2>2, <2>3
  <2>4. CASE Head(Top.todo) # b
    BY <1>5, <1>10, <2>1, <2>2, <2>4
  <2> QED
    BY <2>3, <2>4
<1>15. WakesAreKept'
  <2> SUFFICES ASSUME NEW p \in Tasks, Running(p), woken'[p] # {}
               PROVE  rung[p] \/ Storing(p)' \/ (~parked[p] /\ ~PastTake(p))
    BY <1>1 DEF WakesAreKept, Running, PastTake, Top, taskVars
  <2> QED
    BY <1>2, <1>7, <1>9 DEF WakesAreKept
<1>16. UnbornAreIdle'
  BY <1>1, <1>2, <1>9 DEF UnbornAreIdle, taskVars
<1>17. ParkIsKept'
  <2> SUFFICES ASSUME stack = <<>>, ~token'
               PROVE  /\ emb \in {"reobserve", "park"} => Thread \in waiters'[Root]
                      /\ emb = "park" => (IsRunnable(Root) => Draining(Root)')
    BY <1>1 DEF ParkIsKept, IsRunnable, Running, taskVars
  <2>1. ~token /\ Thread \notin waiters[b] /\ Root \in Tasks
    BY <1>1, <1>2 DEF WellFormed
  <2>2. emb \in {"reobserve", "park"} => Thread \in waiters[Root] /\ Root # b
    BY <1>2, <2>1 DEF ParkIsKept
  <2> QED
    BY <1>2, <1>5, <1>8, <2>1, <2>2 DEF ParkIsKept
<1> QED
  BY <1>12, <1>13, <1>14, <1>15, <1>16, <1>17 DEF DriveInv

----------------------------------------------------------------------------
LEMMA DriveBegins ==
    ASSUME WellFormed, DriveInit
    PROVE  DriveInv
<1>1. DriveTyped
  <2>1. /\ rung \in [Tasks -> BOOLEAN] /\ parked \in [Tasks -> BOOLEAN]
        /\ waiters \in [Tasks -> SUBSET (Tasks \cup {Thread})]
        /\ outcome \in [Tasks -> {"unborn", "running", "done", "killed"}]
    BY DEF DriveInit
  <2>2. busy \in [Tasks -> BOOLEAN]
    <3>1. \A t \in Tasks : (t = Root) \in BOOLEAN
      OBVIOUS
    <3> QED
      BY <3>1 DEF DriveInit
  <2>3. carried \in [Tasks -> 0 .. BudgetMax]
    BY DEF WellFormed, DriveInit
  <2>4. /\ await \in [Tasks -> SUBSET Futures] /\ woken \in [Tasks -> SUBSET Futures]
        /\ \A t \in Tasks : await[t] = {} /\ woken[t] = {}
        /\ prov \in [Tasks -> {Quiet} \cup Ringing]
    BY DEF DriveInit
  <2>5. stack \in Seq(Frames) /\ token \in BOOLEAN /\ emb = "resume"
    <3>1. stack = <<>> /\ token = FALSE /\ emb = "resume"
      BY DEF DriveInit
    <3>2. <<>> \in Seq(Frames)
      OBVIOUS
    <3> QED
      BY <3>1, <3>2
  <2> QED
    BY <2>1, <2>2, <2>3, <2>4, <2>5 DEF DriveTyped
<1>2. StackIsPath
  BY DEF DriveInit, StackIsPath, IsPath, OnPath
<1>3. WaitsAreKept /\ MidPoll /\ WakesAreKept /\ UnbornAreIdle /\ ParkIsKept
  BY DEF DriveInit, WaitsAreKept, MidPoll, WakesAreKept, UnbornAreIdle, ParkIsKept
<1> QED
  BY <1>1, <1>2, <1>3 DEF DriveInv

LEMMA DriveGoesOn ==
    ASSUME DriveInv, [DriveNext]_driveVars
    PROVE  DriveInv'
<1>1. CASE Embedder
  BY <1>1, ResumeRootKeeps, ObserveKeeps, RegisterThreadKeeps, ParkKeeps DEF Embedder
<1>2. CASE Resume
  <2>1. CASE DriveChild \/ ChildrenAteTheBudget \/ Take
    BY <2>1, DriveChildKeeps, ChildrenAteTheBudgetKeeps, TakeKeeps
  <2>2. CASE FutureResolves \/ WaitCheck \/ WaitRegister \/ WaitReobserve
    BY <2>2, FutureResolvesKeeps, WaitCheckKeeps, WaitRegisterKeeps, WaitReobserveKeeps
  <2>3. CASE GuestYields \/ GuestFinishes \/ GuestWaits
    BY <2>3, GuestYieldsKeeps, GuestFinishesKeeps, GuestWaitsKeeps
  <2>4. CASE \E k \in Tasks : GuestSpawns(k) \/ GuestKills(k)
    BY <2>4, GuestSpawnsKeeps, GuestKillsKeeps
  <2>5. CASE \E what \in UNION {Uses[t] : t \in Tasks} : GuestAwaits(what)
    BY <2>5, GuestAwaitsKeeps
  <2>6. CASE Pending
    BY <2>6, PendingKeeps
  <2> QED
    BY <1>2, <2>1, <2>2, <2>3, <2>4, <2>5, <2>6 DEF Resume
<1>3. CASE \E t \in Tasks : Complete(t) \/ RingStore(t) \/ RingDrain(t)
  BY <1>3, CompleteKeeps, RingStoreKeeps, RingDrainKeeps
<1>4. CASE UNCHANGED driveVars
  <2>1. UNCHANGED <<rung, waiters, parked, outcome, carried, busy, await, woken, prov, stack, emb, token>>
    BY <1>4 DEF driveVars, bells, taskVars
  <2>2. WellFormed' /\ DriveTyped' /\ StackIsPath' /\ MidPoll' /\ UnbornAreIdle' /\ ParkIsKept'
    BY <2>1 DEF DriveInv, WellFormed, DriveTyped, StackIsPath, IsPath, OnPath, FrameOK, MidPoll, Running, Top,
                UnbornAreIdle, ParkIsKept, IsRunnable, Draining
  <2>3. WaitsAreKept'
    BY <2>1 DEF DriveInv, WaitsAreKept, PollsNow, Registered, Running, IsRunnable, Draining, Top
  <2>4. WakesAreKept'
    BY <2>1 DEF DriveInv, WakesAreKept, Running, Storing, PastTake, Top
  <2> QED
    BY <2>2, <2>3, <2>4 DEF DriveInv
<1> QED
  BY <1>1, <1>2, <1>3, <1>4 DEF DriveNext

\* While the thread is parked and nobody rings, no attended task could run: the
\* tasks that could not are closed under what the code attends.
LEMMA ParkedIsBlocked ==
    ASSUME DriveInv
    PROVE  NoLostWakeup
<1> SUFFICES ASSUME Idle("park"), ~token, \A t \in Tasks : prov[t] = Quiet
             PROVE  \A t \in Tasks : Attended(t) /\ Running(t) =>
                        /\ ~IsRunnable(t)
                        /\ woken[t] \cap await[t] = {}
                        /\ \A k \in await[t] \ {Io} : Running(k)
  BY DEF NoLostWakeup
<1>1. WellFormed /\ DriveTyped /\ WaitsAreKept /\ WakesAreKept /\ ParkIsKept /\ stack = <<>> /\ emb = "park"
  BY DEF DriveInv, Idle
<1>2. \A b \in Tasks : ~Storing(b) /\ ~Draining(b)
  BY DEF Storing, Draining
<1> DEFINE S == {t \in Tasks : Running(t) => ~IsRunnable(t)}
<1>3. ASSUME NEW p \in S, Running(p)
      PROVE  woken[p] = {} /\ \A k \in await[p] \ {Io} : k \in Tasks /\ Running(k) /\ ~IsRunnable(k)
  <2>1. p \in Tasks /\ parked[p] /\ ~rung[p]
    BY <1>3 DEF IsRunnable
  <2>2. woken[p] = {}
    BY <1>1, <1>2, <1>3, <2>1 DEF WakesAreKept
  <2>3. ASSUME NEW k \in await[p] \ {Io} PROVE k \in Tasks /\ Running(k) /\ ~IsRunnable(k)
    <3>1. k \in KidSet(p)
      BY <1>1, <2>1 DEF DriveTyped
    <3>2. k \in Tasks
      BY <1>1, <2>1, <3>1 DEF WellFormed
    <3>3. Registered(p, k)
      BY <1>1, <1>3, <2>1, <2>2, <3>2 DEF WaitsAreKept, PollsNow
    <3> QED
      BY <1>2, <3>2, <3>3 DEF Registered
  <2> QED
    BY <2>2, <2>3
<1>4. Root \in S
  BY <1>1, <1>2 DEF ParkIsKept, WellFormed
<1>5. Attends(S)
  BY <1>3, <1>4 DEF Attends
<1>6. \A t \in Tasks : Attended(t) => t \in S
  BY <1>5 DEF Attended
<1> HIDE DEF S
<1>7. ASSUME NEW t \in Tasks, t \in S, Running(t) PROVE ~IsRunnable(t)
  BY <1>7 DEF S
<1> QED
  BY <1>3, <1>6, <1>7

\* No lost wakeup in any tree of tasks, whatever the guests wait for, however
\* much fuel is given and however provider threads and resumes interleave: the
\* embedder thread stays parked only while no task it attends could run.
THEOREM NoWakeupIsLost == WellFormed /\ DriveSpec => []NoLostWakeup
<1>1. WellFormed /\ DriveInit => DriveInv
  BY DriveBegins
<1>2. DriveInv /\ [DriveNext]_driveVars => DriveInv'
  BY DriveGoesOn
<1>3. DriveInv => NoLostWakeup
  BY ParkedIsBlocked
<1> QED
  BY <1>1, <1>2, <1>3, PTL DEF DriveSpec

LEMMA DriveIsTyped ==
    ASSUME DriveInv
    PROVE  DriveTypeOK
<1>1. DriveTyped
  BY DEF DriveInv
<1>2. ASSUME NEW i \in DOMAIN stack PROVE stack[i].budget \in 0 .. BudgetMax
  <2>1. stack[i] \in Frames
    BY <1>1 DEF DriveTyped
  <2> QED
    BY <2>1 DEF Frames
<1> QED
  BY <1>1, <1>2 DEF DriveTyped, DriveTypeOK

\* Every bell, every budget and the drive loop keep their types: no resume holds
\* more fuel than a u64 does.
THEOREM DriveTypeCorrect == WellFormed /\ DriveSpec => []DriveTypeOK
<1>1. WellFormed /\ DriveInit => DriveInv
  BY DriveBegins
<1>2. DriveInv /\ [DriveNext]_driveVars => DriveInv'
  BY DriveGoesOn
<1>3. DriveInv => DriveTypeOK
  BY DriveIsTyped
<1> QED
  BY <1>1, <1>2, <1>3, PTL DEF DriveSpec

=============================================================================
