---------------------------- MODULE Sched_proofs ----------------------------
(***************************************************************************)
(* Proofs about Sched for any number of tasks, any fuel limit and both     *)
(* policies: the run queue, the single resumer, the task tree and the fuel *)
(* accounts never get out of step.                                         *)
(***************************************************************************)
EXTENDS Sched, Units_proofs

\* Taking position i out of a sequence keeps the other elements in order:
\* policy.rs, VecDeque::remove(index).
LEMMA RemoveAtFacts ==
    ASSUME NEW S, NEW q \in Seq(S), NEW i \in DOMAIN q
    PROVE  /\ RemoveAt(q, i) \in Seq(S)
           /\ Len(RemoveAt(q, i)) = Len(q) - 1
           /\ \A j \in 1 .. (Len(q) - 1) :
                RemoveAt(q, i)[j] = IF j < i THEN q[j] ELSE q[j + 1]
<1>1. i \in 1 .. Len(q) /\ Len(q) \in Nat /\ \A j \in 1 .. Len(q) : q[j] \in S
  OBVIOUS
<1> DEFINE l == SubSeq(q, 1, i - 1)
           r == SubSeq(q, i + 1, Len(q))
<1>2. /\ l \in Seq(S) /\ Len(l) = i - 1
      /\ \A j \in 1 .. (i - 1) : l[j] = q[j]
  BY <1>1
<1>3. /\ r \in Seq(S) /\ Len(r) = Len(q) - i
      /\ \A j \in 1 .. (Len(q) - i) : r[j] = q[j + i]
  BY <1>1
<1>4. RemoveAt(q, i) = l \o r
  BY DEF RemoveAt
<1> HIDE DEF l, r
<1>5. /\ l \o r \in Seq(S)
      /\ Len(l \o r) = Len(q) - 1
  BY <1>1, <1>2, <1>3
<1>6. ASSUME NEW j \in 1 .. (Len(q) - 1)
      PROVE  (l \o r)[j] = IF j < i THEN q[j] ELSE q[j + 1]
  <2>1. CASE j < i
    BY <1>1, <1>2, <1>3, <2>1
  <2>2. CASE ~(j < i)
    <3>1. (l \o r)[j] = r[j - (i - 1)]
      BY <1>1, <1>2, <1>3, <2>2
    <3>2. j - (i - 1) \in 1 .. (Len(q) - i) /\ (j - (i - 1)) + i = j + 1
      BY <1>1, <2>2
    <3> QED
      BY <1>3, <2>2, <3>1, <3>2
  <2> QED
    BY <2>1, <2>2
<1> QED
  BY <1>4, <1>5, <1>6

\* Removing one occurrence from a queue without duplicates removes exactly
\* that element: what dequeue and remove both rely on.
LEMMA RemoveAtUnique ==
    ASSUME NEW S, NEW q \in Seq(S), NEW i \in DOMAIN q,
           Distinct(q)
    PROVE  /\ RemoveAt(q, i) \in Seq(S)
           /\ Distinct(RemoveAt(q, i))
           /\ \A t : Queued(RemoveAt(q, i), t) <=> (Queued(q, t) /\ t # q[i])
<1> DEFINE r == RemoveAt(q, i)
<1>1. /\ r \in Seq(S) /\ Len(r) = Len(q) - 1
      /\ \A j \in 1 .. (Len(q) - 1) : r[j] = IF j < i THEN q[j] ELSE q[j + 1]
  BY RemoveAtFacts
<1>2. Len(q) \in Nat /\ DOMAIN q = 1 .. Len(q) /\ DOMAIN r = 1 .. (Len(q) - 1)
  BY <1>1
<1> HIDE DEF r
<1>3. ASSUME NEW a \in DOMAIN r, NEW b \in DOMAIN r, r[a] = r[b]
      PROVE  a = b
  <2>1. PICK x \in DOMAIN q : r[a] = q[x] /\ x = IF a < i THEN a ELSE a + 1
    BY <1>1, <1>2
  <2>2. PICK y \in DOMAIN q : r[b] = q[y] /\ y = IF b < i THEN b ELSE b + 1
    BY <1>1, <1>2
  <2>3. x = y
    BY <1>3, <2>1, <2>2 DEF Distinct
  <2> QED
    BY <1>2, <2>1, <2>2, <2>3
<1>4. ASSUME NEW t, NEW a \in DOMAIN r, r[a] = t
      PROVE  (\E b \in DOMAIN q : q[b] = t) /\ t # q[i]
  <2>1. PICK x \in DOMAIN q : r[a] = q[x] /\ x # i
    <3>1. CASE a < i
      BY <1>1, <1>2, <3>1
    <3>2. CASE ~(a < i)
      <4>1. a + 1 \in DOMAIN q /\ r[a] = q[a + 1] /\ a + 1 # i
        BY <1>1, <1>2, <3>2
      <4> QED
        BY <4>1
    <3> QED
      BY <3>1, <3>2
  <2> QED
    BY <1>4, <2>1 DEF Distinct
<1>5. ASSUME NEW t, NEW b \in DOMAIN q, q[b] = t, t # q[i]
      PROVE  \E a \in DOMAIN r : r[a] = t
  <2>1. CASE b < i
    <3>1. b \in DOMAIN r /\ r[b] = t
      BY <1>1, <1>2, <1>5, <2>1
    <3> QED
      BY <3>1
  <2>2. CASE ~(b < i)
    <3>1. b - 1 \in DOMAIN r /\ r[b - 1] = t
      BY <1>1, <1>2, <1>5, <2>2
    <3> QED
      BY <3>1
  <2> QED
    BY <2>1, <2>2
<1> QED
  BY <1>1, <1>3, <1>4, <1>5 DEF r, Distinct, Queued

\* Enqueueing a task that is not queued keeps the queue free of duplicates.
LEMMA EnqueueUnique ==
    ASSUME NEW S, NEW q \in Seq(S), NEW e \in S,
           Distinct(q), ~Queued(q, e)
    PROVE  /\ Enqueue(q, e) \in Seq(S)
           /\ Distinct(Enqueue(q, e))
           /\ \A t : Queued(Enqueue(q, e), t) <=> (Queued(q, t) \/ t = e)
<1> DEFINE r == Enqueue(q, e)
<1>1. /\ r \in Seq(S) /\ Len(r) = Len(q) + 1 /\ r[Len(q) + 1] = e
      /\ \A j \in 1 .. Len(q) : r[j] = q[j]
  BY DEF Enqueue
<1>2. Len(q) \in Nat /\ DOMAIN q = 1 .. Len(q) /\ DOMAIN r = 1 .. (Len(q) + 1)
  BY <1>1
<1> HIDE DEF r
<1>3. \A a, b \in DOMAIN r : r[a] = r[b] => a = b
  BY <1>1, <1>2 DEF Distinct, Queued
<1>4. \A t : (\E a \in DOMAIN r : r[a] = t)
                <=> ((\E a \in DOMAIN q : q[a] = t) \/ t = e)
  BY <1>1, <1>2
<1> QED
  BY <1>1, <1>3, <1>4 DEF r, Distinct, Queued

\* The states of a fresh scheduler satisfy the invariant.
LEMMA InitInv == Init => SchedInv
<1> SUFFICES ASSUME Init PROVE SchedInv
  OBVIOUS
<1> USE BoundsAssumption, NamesAssumption
<1>1. Tracked = {}
  BY DEF Init, Tracked
<1>2. TypeOK
  BY <1>1 DEF Init, TypeOK, TaskState, TaskId
<1>3. QueueIsRunnable /\ SingleResumer /\ TreeSound /\ DoneHoldsNoFuel /\ FreshIds
  BY <1>1 DEF Init, QueueIsRunnable, Queued, Distinct, SingleResumer, TreeSound, DoneHoldsNoFuel, FreshIds
<1> QED
  BY <1>2, <1>3 DEF SchedInv

LEMMA SpawnInv ==
    ASSUME SchedInv, NEW p \in TaskId \cup {NoTask}, Spawn(p)
    PROVE  SchedInv'
<1> USE BoundsAssumption, NamesAssumption DEF SchedInv
<1>1. next_id \in TaskId /\ state[next_id] = "Absent"
  BY DEF Spawn, TypeOK, TaskId, FreshIds
<1>2. Tracked' = Tracked \cup {next_id} /\ next_id \notin Tracked
  BY <1>1 DEF Spawn, TypeOK, Tracked
<1>3. balances' \in [{Pool} \cup Tracked' -> Nat]
      /\ \A x \in Tracked : balances'[x] = balances[x]
  BY <1>1, <1>2 DEF Spawn, TypeOK, Open, Tracked
<1>4. p \in TaskId => p \in Tracked /\ p < next_id
  BY <1>1 DEF Spawn, Live, Tracked, FreshIds, TypeOK, TaskId
<1>5. /\ queue' \in Seq(TaskId)
      /\ Distinct(queue')
      /\ \A t : Queued(queue', t)
                  <=> (Queued(queue, t) \/ t = next_id)
  <2>1. ~Queued(queue, next_id)
    BY <1>1 DEF QueueIsRunnable
  <2> QED
    BY <1>1, <2>1, EnqueueUnique DEF Spawn, TypeOK, QueueIsRunnable
<1>6. TypeOK'
  BY <1>1, <1>3, <1>5 DEF Spawn, TypeOK, TaskState, TaskId, totals
<1>7. QueueIsRunnable'
  BY <1>1, <1>5 DEF Spawn, TypeOK, QueueIsRunnable
<1>8. SingleResumer'
  BY <1>1 DEF Spawn, TypeOK, SingleResumer
<1>9. TreeSound'
  <2>1. \A t \in Tracked' : parent'[t] # NoTask => parent'[t] \in Tracked' /\ parent'[t] < t
    BY <1>1, <1>2, <1>4 DEF Spawn, TypeOK, TreeSound, Tracked
  <2>2. ASSUME NEW q \in TaskId, NEW t \in TaskId
        PROVE  t \in children'[q] <=> (t \in Tracked' /\ parent'[t] = q)
    <3>1. CASE q = next_id
      <4>1. children'[q] = {}
        BY <3>1 DEF Spawn
      <4>2. t \in Tracked' => parent'[t] # q
        BY <1>1, <1>2, <1>4, <3>1 DEF Spawn, TypeOK, TreeSound, Tracked, TaskId
      <4> QED
        BY <4>1, <4>2
    <3>2. CASE q # next_id
      BY <1>1, <1>2, <1>4, <3>2 DEF Spawn, TypeOK, TreeSound
    <3> QED
      BY <3>1, <3>2
  <2> QED
    BY <2>1, <2>2 DEF TreeSound
<1>10. DoneHoldsNoFuel'
  BY <1>1, <1>3 DEF Spawn, TypeOK, DoneHoldsNoFuel, Tracked
<1>11. FreshIds'
  BY <1>1 DEF Spawn, TypeOK, FreshIds, TaskId
<1> QED
  BY <1>6, <1>7, <1>8, <1>9, <1>10, <1>11

LEMMA KillInv ==
    ASSUME SchedInv, NEW t \in TaskId, Kill(t)
    PROVE  SchedInv'
<1> USE BoundsAssumption, NamesAssumption DEF SchedInv
<1>1. Tracked' = Tracked /\ t \in Tracked
  BY DEF Kill, TypeOK, Tracked
<1>2. /\ balances' \in [{Pool} \cup Tracked -> Nat] /\ balances'[t] = 0
      /\ \A x \in Tracked \ {t} : balances'[x] = balances[x]
  <2>1. Tracked \subseteq TaskId
    BY DEF Tracked
  <2> QED
    BY <1>1, <2>1 DEF Kill, TypeOK, ReclaimAll, Transfer
<1>3. /\ queue' \in Seq(TaskId)
      /\ Distinct(queue')
      /\ \A x : Queued(queue', x)
                  <=> (Queued(queue, x) /\ x # t)
  <2>1. CASE state[t] = "Runnable"
    <3> DEFINE i == CHOOSE a \in DOMAIN queue : queue[a] = t
    <3>1. i \in DOMAIN queue /\ queue[i] = t
      BY <2>1 DEF QueueIsRunnable, Queued
    <3>2. queue' = RemoveAt(queue, i)
      BY <2>1 DEF Kill, Unqueue
    <3> HIDE DEF i
    <3> QED
      BY <3>1, <3>2, RemoveAtUnique DEF TypeOK, QueueIsRunnable
  <2>2. CASE state[t] # "Runnable"
    BY <2>2 DEF Kill, TypeOK, QueueIsRunnable
  <2> QED
    BY <2>1, <2>2
<1>4. TypeOK'
  BY <1>1, <1>2, <1>3 DEF Kill, TypeOK, TaskState, tableVars, totals
<1>5. QueueIsRunnable'
  BY <1>3 DEF Kill, TypeOK, QueueIsRunnable
<1>6. SingleResumer'
  BY DEF Kill, TypeOK, SingleResumer
<1>7. TreeSound'
  BY <1>1 DEF Kill, TreeSound, tableVars
<1>8. DoneHoldsNoFuel'
  BY <1>2 DEF Kill, TypeOK, DoneHoldsNoFuel, Tracked
<1>9. FreshIds'
  BY DEF Kill, TypeOK, FreshIds, tableVars
<1> QED
  BY <1>4, <1>5, <1>6, <1>7, <1>8, <1>9

LEMMA ReapInv ==
    ASSUME SchedInv, NEW t \in TaskId, Reap(t)
    PROVE  SchedInv'
<1> USE BoundsAssumption, NamesAssumption DEF SchedInv
<1>1. Tracked' = Tracked \ {t} /\ t \in Tracked
  BY DEF Reap, TypeOK, Tracked
<1>2. /\ balances' \in [{Pool} \cup Tracked' -> Nat]
      /\ \A x \in Tracked' : balances'[x] = balances[x]
  BY <1>1 DEF Reap, TypeOK, Close
<1>3. TypeOK'
  BY <1>2 DEF Reap, TypeOK, TaskState, totals
<1>4. QueueIsRunnable'
  BY DEF Reap, TypeOK, QueueIsRunnable
<1>5. SingleResumer'
  BY DEF Reap, TypeOK, SingleResumer
<1>6. TreeSound'
  <2>1. \A x \in Tracked : parent[x] # t
    BY <1>1 DEF Reap, TreeSound, Tracked
  <2>2. \A x \in Tracked' : parent'[x] # NoTask => parent'[x] \in Tracked' /\ parent'[x] < x
    BY <1>1, <2>1 DEF Reap, TypeOK, TreeSound, Tracked
  <2>3. ASSUME NEW q \in TaskId, NEW x \in TaskId
        PROVE  x \in children'[q] <=> (x \in Tracked' /\ parent'[x] = q)
    BY <1>1, <2>1 DEF Reap, TypeOK, TreeSound
  <2> QED
    BY <2>2, <2>3 DEF TreeSound
<1>7. DoneHoldsNoFuel'
  BY <1>1, <1>2 DEF Reap, TypeOK, DoneHoldsNoFuel, Tracked
<1>8. FreshIds'
  BY DEF Reap, TypeOK, FreshIds
<1> QED
  BY <1>3, <1>4, <1>5, <1>6, <1>7, <1>8

LEMMA ReadyInv ==
    ASSUME SchedInv, NEW t \in TaskId, Ready(t)
    PROVE  SchedInv'
<1> USE BoundsAssumption, NamesAssumption DEF SchedInv
<1>1. Tracked' = Tracked
  BY DEF Ready, TypeOK, Tracked
<1>2. /\ queue' \in Seq(TaskId)
      /\ Distinct(queue')
      /\ \A x : Queued(queue', x)
                  <=> (Queued(queue, x) \/ x = t)
  <2>1. ~Queued(queue, t)
    BY DEF Ready, QueueIsRunnable
  <2> QED
    BY <2>1, EnqueueUnique DEF Ready, TypeOK, QueueIsRunnable
<1>3. TypeOK'
  BY <1>1, <1>2 DEF Ready, TypeOK, TaskState, tableVars, totals
<1>4. QueueIsRunnable'
  BY <1>2 DEF Ready, TypeOK, QueueIsRunnable
<1>5. SingleResumer' /\ DoneHoldsNoFuel' /\ FreshIds'
  BY DEF Ready, TypeOK, SingleResumer, DoneHoldsNoFuel, FreshIds, tableVars
<1>6. TreeSound'
  BY <1>1 DEF Ready, TreeSound, tableVars
<1> QED
  BY <1>3, <1>4, <1>5, <1>6

\* A non-empty queue has a position the policy takes: the front, or the one
\* with the lowest id.
LEMMA NextIndexInDomain ==
    ASSUME NEW q \in Seq(TaskId), q # <<>>
    PROVE  NextIndex(q) \in DOMAIN q
<1> USE BoundsAssumption DEF TaskId
<1>1. 1 \in DOMAIN q
  OBVIOUS
<1>2. CASE Fair
  BY <1>1, <1>2 DEF NextIndex
<1>3. CASE ~Fair
  <2> DEFINE ids == {q[i] : i \in DOMAIN q}
  <2>1. ids \in SUBSET Nat /\ ids # {}
    BY <1>1
  <2>2. PICK least \in ids : \A x \in ids : least <= x
    BY <2>1, LeastNatural
  <2>3. PICK i \in DOMAIN q : q[i] = least
    BY <2>2
  <2>4. \A j \in DOMAIN q : q[i] <= q[j]
    BY <2>2, <2>3
  <2> QED
    BY <1>3, <2>4 DEF NextIndex
<1> QED
  BY <1>2, <1>3

LEMMA PickInv ==
    ASSUME SchedInv, Pick
    PROVE  SchedInv'
<1> USE BoundsAssumption, NamesAssumption DEF SchedInv
<1> DEFINE i == NextIndex(queue)
           t == queue[i]
<1>1. i \in DOMAIN queue
  BY NextIndexInDomain DEF Pick, TypeOK
<1>2. /\ t \in TaskId /\ state[t] = "Runnable"
      /\ running = NoTask /\ running' = t
      /\ state' = [state EXCEPT ![t] = "Running"]
      /\ queue' = RemoveAt(queue, i)
  BY <1>1 DEF Pick, TypeOK, QueueIsRunnable, Queued
<1>3. /\ queue' \in Seq(TaskId)
      /\ Distinct(queue')
      /\ \A x : Queued(queue', x)
                  <=> (Queued(queue, x) /\ x # t)
  BY <1>1, <1>2, RemoveAtUnique DEF TypeOK, QueueIsRunnable
<1> HIDE DEF i, t
<1>4. Tracked' = Tracked
  BY <1>2 DEF TypeOK, Tracked
<1>5. TypeOK'
  BY <1>2, <1>3, <1>4 DEF Pick, TypeOK, TaskState, tableVars, totals
<1>6. QueueIsRunnable'
  BY <1>2, <1>3 DEF TypeOK, QueueIsRunnable
<1>7. SingleResumer'
  BY <1>2 DEF TypeOK, SingleResumer
<1>8. DoneHoldsNoFuel' /\ FreshIds'
  BY <1>2 DEF Pick, TypeOK, DoneHoldsNoFuel, FreshIds, tableVars
<1>9. TreeSound'
  BY <1>4 DEF Pick, TreeSound, tableVars
<1> QED
  BY <1>5, <1>6, <1>7, <1>8, <1>9

LEMMA ReportInv ==
    ASSUME SchedInv, NEW spent \in Fuel,
           NEW outcome \in {"OutOfFuel", "Blocked", "Done"}, Report(spent, outcome)
    PROVE  SchedInv'
<1> USE BoundsAssumption, NamesAssumption DEF SchedInv
<1> DEFINE b == [balances EXCEPT ![running] = @ - spent]
<1>1. /\ running \in Tracked /\ running \in TaskId /\ state[running] = "Running"
      /\ running' = NoTask /\ Tracked \subseteq TaskId
  BY DEF Report, TypeOK, SingleResumer, Tracked
<1>2. b \in [{Pool} \cup Tracked -> Nat] /\ \A x \in Tracked \ {running} : b[x] = balances[x]
  BY <1>1 DEF Report, TypeOK, Holds, Fuel
<1>3. ~Queued(queue, running)
  BY <1>1 DEF QueueIsRunnable
<1>4. /\ outcome = "OutOfFuel" => /\ state' = [state EXCEPT ![running] = "Runnable"]
                                  /\ queue' = Enqueue(queue, running)
                                  /\ balances' = b
      /\ outcome = "Blocked" => /\ state' = [state EXCEPT ![running] = "Blocked"]
                                /\ queue' = queue
                                /\ balances' = b
      /\ outcome = "Done" => /\ state' = [state EXCEPT ![running] = "Done"]
                             /\ queue' = queue
                             /\ balances' = ReclaimAll(b, running)
  BY DEF Report
<1> HIDE DEF b
<1>5. /\ balances' \in [{Pool} \cup Tracked -> Nat]
      /\ \A x \in Tracked \ {running} : balances'[x] = balances[x]
      /\ outcome = "Done" => balances'[running] = 0
  <2>1. /\ ReclaimAll(b, running) \in [{Pool} \cup Tracked -> Nat]
        /\ ReclaimAll(b, running)[running] = 0
        /\ \A x \in Tracked \ {running} : ReclaimAll(b, running)[x] = b[x]
    BY <1>1, <1>2 DEF ReclaimAll, Transfer
  <2> QED
    BY <1>2, <1>4, <2>1
<1>6. /\ queue' \in Seq(TaskId)
      /\ Distinct(queue')
      /\ \A t : Queued(queue', t)
                  <=> (Queued(queue, t)
                         \/ (outcome = "OutOfFuel" /\ t = running))
  <2>1. CASE outcome = "OutOfFuel"
    BY <1>1, <1>3, <1>4, <2>1, EnqueueUnique DEF TypeOK, QueueIsRunnable
  <2>2. CASE outcome # "OutOfFuel"
    BY <1>4, <2>2 DEF TypeOK, QueueIsRunnable
  <2> QED
    BY <2>1, <2>2
<1>7. Tracked' = Tracked
  BY <1>1, <1>4 DEF TypeOK, Tracked
<1>8. burned' \in Nat /\ UNCHANGED <<tableVars, imported, exported>>
  BY DEF Report, TypeOK, Fuel
<1>9. TypeOK'
  BY <1>1, <1>4, <1>5, <1>6, <1>7, <1>8 DEF TypeOK, TaskState, tableVars
<1>10. QueueIsRunnable'
  BY <1>1, <1>4, <1>6 DEF TypeOK, QueueIsRunnable
<1>11. SingleResumer'
  BY <1>1, <1>4 DEF TypeOK, SingleResumer
<1>12. DoneHoldsNoFuel'
  BY <1>1, <1>4, <1>5 DEF TypeOK, DoneHoldsNoFuel, Tracked
<1>13. FreshIds'
  BY <1>1, <1>4, <1>8 DEF TypeOK, FreshIds, tableVars
<1>14. TreeSound'
  BY <1>7, <1>8 DEF TreeSound, tableVars
<1> QED
  BY <1>9, <1>10, <1>11, <1>12, <1>13, <1>14

\* The four operations that only move fuel.
LEMMA FuelOpsInv ==
    ASSUME SchedInv, NEW amount \in 1 .. FuelMax,
           \/ Refuel(amount) \/ Export(amount)
           \/ \E t \in TaskId : Donate(t, amount) \/ Reclaim(t, amount)
    PROVE  SchedInv'
<1> USE BoundsAssumption, NamesAssumption DEF SchedInv
<1>1. UNCHANGED <<tableVars, runVars>>
  BY DEF Refuel, Export, Donate, Reclaim
<1>2. Tracked' = Tracked
  BY <1>1 DEF Tracked, runVars
<1>3. /\ balances' \in [{Pool} \cup Tracked -> Nat]
      /\ \A x \in Tracked : state[x] = "Done" => balances'[x] = balances[x]
      /\ imported' \in Nat /\ burned' \in Nat /\ exported' \in Nat
  <2>1. CASE Refuel(amount)
    BY <2>1 DEF Refuel, TypeOK, Tracked
  <2>2. CASE Export(amount)
    BY <2>2 DEF Export, TypeOK, Holds, Tracked
  <2>3. ASSUME NEW t \in TaskId, Donate(t, amount)
        PROVE  <1>3!1 /\ <1>3!2 /\ <1>3!3
    BY <2>3 DEF Donate, TypeOK, Holds, HasRoom, Transfer, Live, Tracked, totals
  <2>4. ASSUME NEW t \in TaskId, Reclaim(t, amount)
        PROVE  <1>3!1 /\ <1>3!2 /\ <1>3!3
    BY <2>4 DEF Reclaim, TypeOK, Holds, HasRoom, Transfer, Tracked, totals
  <2> QED
    BY <2>1, <2>2, <2>3, <2>4
<1>4. TypeOK'
  BY <1>1, <1>2, <1>3 DEF TypeOK, tableVars, runVars
<1>5. QueueIsRunnable' /\ SingleResumer' /\ FreshIds'
  BY <1>1 DEF QueueIsRunnable, SingleResumer, FreshIds, tableVars, runVars
<1>6. TreeSound'
  BY <1>1, <1>2 DEF TreeSound, tableVars
<1>7. DoneHoldsNoFuel'
  BY <1>1, <1>3 DEF DoneHoldsNoFuel, Tracked, runVars
<1> QED
  BY <1>4, <1>5, <1>6, <1>7

\* Every step of the scheduler preserves the invariant.
LEMMA NextInv == SchedInv /\ [Next]_vars => SchedInv'
<1> SUFFICES ASSUME SchedInv, [Next]_vars PROVE SchedInv'
  OBVIOUS
<1>1. ASSUME NEW p \in TaskId \cup {NoTask}, Spawn(p) PROVE SchedInv'
  BY <1>1, SpawnInv
<1>2. ASSUME NEW t \in TaskId, Kill(t) PROVE SchedInv'
  BY <1>2, KillInv
<1>3. ASSUME NEW t \in TaskId, Reap(t) PROVE SchedInv'
  BY <1>3, ReapInv
<1>4. ASSUME NEW t \in TaskId, Ready(t) PROVE SchedInv'
  BY <1>4, ReadyInv
<1>5. CASE Pick
  BY <1>5, PickInv
<1>6. ASSUME NEW spent \in Fuel, NEW outcome \in {"OutOfFuel", "Blocked", "Done"},
             Report(spent, outcome)
      PROVE  SchedInv'
  BY <1>6, ReportInv
<1>7. ASSUME NEW amount \in 1 .. FuelMax,
             \/ Refuel(amount) \/ Export(amount)
             \/ \E t \in TaskId : Donate(t, amount) \/ Reclaim(t, amount)
      PROVE  SchedInv'
  BY <1>7, FuelOpsInv
<1>8. CASE UNCHANGED vars
  BY <1>8 DEF SchedInv, TypeOK, QueueIsRunnable, SingleResumer, TreeSound,
              DoneHoldsNoFuel, FreshIds, Tracked, vars, tableVars, runVars, totals
<1> QED
  BY <1>1, <1>2, <1>3, <1>4, <1>5, <1>6, <1>7, <1>8 DEF Next

\* The run queue, the single resumer, the task tree and the accounts stay in
\* step under every sequence of scheduler calls: none of the expects and
\* debug_asserts of sched.rs about them can fire.
THEOREM SchedInvariant == Spec => []SchedInv
<1> QED
  BY InitInv, NextInv, PTL DEF Spec

\* Type correctness: one open account per tracked task, plus the pool.
THEOREM TypeCorrect == Spec => []TypeOK
<1>1. SchedInv => TypeOK
  BY DEF SchedInv
<1> QED
  BY <1>1, SchedInvariant, PTL

\* The Policy contract: the queue holds exactly the runnable tasks.
THEOREM QueueCorrect == Spec => []QueueIsRunnable
<1>1. SchedInv => QueueIsRunnable
  BY DEF SchedInv
<1> QED
  BY <1>1, SchedInvariant, PTL

\* reap() never meets a missing parent, and never closes an account that still
\* holds fuel.
THEOREM ReapSafe == Spec => []ReapIsSafe
<1>1. SchedInv => ReapIsSafe
  BY DEF SchedInv, ReapIsSafe
<1> QED
  BY <1>1, SchedInvariant, PTL

\* A stale task id never names a later task and Done is final.
THEOREM StaleIdsStayDead == Spec => NoResurrection
<1> DEFINE A == \A t \in TaskId :
                  /\ (t < next_id /\ state[t] = "Absent") => state'[t] = "Absent"
                  /\ state[t] = "Done" => state'[t] \in {"Done", "Absent"}
<1>1. SchedInv /\ [Next]_vars => [A]_vars
  <2> SUFFICES ASSUME SchedInv, Next PROVE A
    OBVIOUS
  <2> USE BoundsAssumption, NamesAssumption DEF SchedInv
  <2>1. ASSUME NEW p \in TaskId \cup {NoTask}, Spawn(p) PROVE A
    BY <2>1 DEF Spawn, TypeOK, FreshIds, TaskId
  <2>2. ASSUME NEW t \in TaskId, Kill(t) \/ Reap(t) \/ Ready(t) PROVE A
    BY <2>2 DEF Kill, Reap, Ready, TypeOK
  <2>3. CASE Pick
    <3>1. NextIndex(queue) \in DOMAIN queue
      BY <2>3, NextIndexInDomain DEF Pick, TypeOK
    <3>2. state[queue[NextIndex(queue)]] = "Runnable"
      BY <3>1 DEF TypeOK, QueueIsRunnable, Queued
    <3> QED
      BY <2>3, <3>1, <3>2 DEF Pick, TypeOK
  <2>4. ASSUME NEW spent \in Fuel, NEW outcome \in {"OutOfFuel", "Blocked", "Done"},
               Report(spent, outcome)
        PROVE  A
    <3>1. running \in TaskId /\ state[running] = "Running"
      BY <2>4 DEF Report, TypeOK, SingleResumer
    <3>2. \E s \in TaskState : state' = [state EXCEPT ![running] = s]
      BY <2>4 DEF Report, TaskState
    <3> QED
      BY <3>1, <3>2 DEF TypeOK
  <2>5. ASSUME NEW amount \in 1 .. FuelMax,
               \/ Refuel(amount) \/ Export(amount)
               \/ \E t \in TaskId : Donate(t, amount) \/ Reclaim(t, amount)
        PROVE  A
    BY <2>5 DEF Refuel, Export, Donate, Reclaim, runVars
  <2> QED
    BY <2>1, <2>2, <2>3, <2>4, <2>5 DEF Next
<1> QED
  BY <1>1, SchedInvariant, PTL DEF Spec, NoResurrection

\* The fuel of a running resume is never taken from under it: no reclaim, kill
\* or reap reaches the account that report() is going to burn from.
THEOREM ResumeKeepsItsFuel == Spec => RunningFuelIsSafe
<1> DEFINE A == \A t \in TaskId :
                  (running = t /\ running' = t) => balances'[t] >= balances[t]
<1>1. SchedInv /\ [Next]_vars => [A]_vars
  <2> SUFFICES ASSUME SchedInv, Next,
                      NEW r \in TaskId, running = r, running' = r
               PROVE  balances'[r] >= balances[r]
    OBVIOUS
  <2> USE BoundsAssumption, NamesAssumption DEF SchedInv
  <2>1. r \in Tracked /\ state[r] = "Running" /\ balances[r] \in Nat
    BY DEF TypeOK, SingleResumer, Tracked
  <2>2. ASSUME NEW p \in TaskId \cup {NoTask}, Spawn(p) PROVE balances'[r] >= balances[r]
    <3>1. next_id \in TaskId /\ state[next_id] = "Absent"
      BY <2>2 DEF Spawn, TypeOK, FreshIds, TaskId
    <3> QED
      BY <2>1, <2>2, <3>1 DEF Spawn, Open, TypeOK
  <2>3. ASSUME NEW t \in TaskId, Kill(t) PROVE balances'[r] >= balances[r]
    BY <2>1, <2>3 DEF Kill, ReclaimAll, Transfer, TypeOK
  <2>4. ASSUME NEW t \in TaskId, Reap(t) PROVE balances'[r] >= balances[r]
    BY <2>1, <2>4 DEF Reap, Close, TypeOK
  <2>5. ASSUME NEW t \in TaskId, Ready(t) PROVE balances'[r] >= balances[r]
    BY <2>1, <2>5 DEF Ready
  <2>6. CASE Pick
    BY <2>6 DEF Pick
  <2>7. ASSUME NEW spent \in Fuel, NEW outcome \in {"OutOfFuel", "Blocked", "Done"},
               Report(spent, outcome)
        PROVE  balances'[r] >= balances[r]
    BY <2>7 DEF Report
  <2>8. ASSUME NEW amount \in 1 .. FuelMax, Refuel(amount) \/ Export(amount)
        PROVE  balances'[r] >= balances[r]
    BY <2>1, <2>8 DEF Refuel, Export, TypeOK
  <2>9. ASSUME NEW t \in TaskId, NEW amount \in 1 .. FuelMax,
               Donate(t, amount) \/ Reclaim(t, amount)
        PROVE  balances'[r] >= balances[r]
    <3>1. r # Pool /\ amount \in Nat /\ DOMAIN balances = {Pool} \cup Tracked
      BY DEF TypeOK
    <3>2. CASE Donate(t, amount)
      <4>1. balances'[r] = IF r = t THEN balances[r] + amount ELSE balances[r]
        BY <2>1, <3>1, <3>2 DEF Donate, Transfer
      <4> QED
        BY <2>1, <3>1, <4>1
    <3>3. CASE Reclaim(t, amount)
      <4>1. r # t
        BY <2>1, <3>3 DEF Reclaim
      <4>2. balances'[r] = balances[r]
        BY <2>1, <3>1, <3>3, <4>1 DEF Reclaim, Transfer
      <4> QED
        BY <2>1, <4>2
    <3> QED
      BY <2>9, <3>2, <3>3
  <2> QED
    BY <2>2, <2>3, <2>4, <2>5, <2>6, <2>7, <2>8, <2>9 DEF Next
<1> QED
  BY <1>1, SchedInvariant, PTL DEF Spec, RunningFuelIsSafe

-----------------------------------------------------------------------------
(* The fuel of the node, counted by its units.                             *)

\* A transfer leaves the number as it is.
LEMMA TransferUnits ==
    ASSUME NEW S, NEW b \in [S -> Nat], NEW from \in S, NEW to \in S, from # to,
           NEW n \in Nat, n <= b[from], IsFiniteSet(Units(b))
    PROVE  /\ Transfer(b, from, to, n) \in [S -> Nat] /\ IsFiniteSet(Units(Transfer(b, from, to, n)))
           /\ Total(Transfer(b, from, to, n)) = Total(b)
<1>1. PICK c : c = [b EXCEPT ![from] = @ - n]
  OBVIOUS
<1>2. c \in [S -> Nat] /\ c[from] = b[from] - n /\ \A x \in S \ {from} : c[x] = b[x]
  BY <1>1
<1>3. IsFiniteSet(Units(c)) /\ Total(c) = Total(b) - n
  BY <1>2, DebitUnits
<1>4. PICK d : d = [c EXCEPT ![to] = @ + n]
  OBVIOUS
<1>5. d \in [S -> Nat] /\ d = Transfer(b, from, to, n)
  <2>1. \A x \in S : d[x] = IF x = from THEN b[x] - n ELSE IF x = to THEN b[x] + n ELSE b[x]
    BY <1>1, <1>2, <1>4
  <2>2. Transfer(b, from, to, n)
          = [x \in S |-> IF x = from THEN b[x] - n ELSE IF x = to THEN b[x] + n ELSE b[x]]
    BY DEF Transfer
  <2>3. d \in [S -> Nat]
    BY <1>2, <1>4
  <2> QED
    BY <2>1, <2>2, <2>3
<1>5a. d[to] = c[to] + n /\ \A x \in S \ {to} : d[x] = c[x]
  BY <1>2, <1>4
<1>6. IsFiniteSet(Units(d)) /\ Total(d) = Total(c) + n
  BY <1>2, <1>3, <1>5, <1>5a, CreditUnits
<1>7. Total(b) \in Nat
  BY FS_CardinalityType DEF Total
<1> QED
  BY <1>3, <1>5, <1>6, <1>7

\* How many units there are can be counted at all.
Countable == IsFiniteSet(Units(balances))

\* Spawning opens an empty account.
LEMMA SpawnFuel ==
    ASSUME SchedInv, Countable, NEW p \in TaskId \cup {NoTask}, Spawn(p)
    PROVE  Countable' /\ Circulating' = Circulating
<1>1. PICK S : S = {Pool} \cup Tracked
  OBVIOUS
<1>2. next_id \in TaskId /\ next_id \notin S
  BY <1>1, BoundsAssumption, NamesAssumption DEF SchedInv, TypeOK, FreshIds, Spawn, TaskId, Tracked
<1>3. balances \in [S -> Nat] /\ balances' \in [S \cup {next_id} -> Nat]
  BY <1>1, <1>2 DEF SchedInv, TypeOK, Spawn, Open
<1>4. balances'[next_id] = 0 /\ \A a \in S : balances'[a] = balances[a]
  BY <1>1, <1>2, <1>3 DEF Spawn, Open
<1>5. Units(balances') = Units(balances)
  <2>1. PICK T : T = S \cup {next_id}
    OBVIOUS
  <2>2. /\ balances' \in [T -> Nat] /\ \A a \in S \cap T : balances[a] = balances'[a]
        /\ \A a \in S \ T : balances[a] = 0
        /\ \A a \in T \ S : balances'[a] = 0
    BY <1>3, <1>4, <2>1
  <2> QED
    BY <1>3, <2>2, EmptyAccount
<1> QED
  BY <1>5 DEF Countable, Circulating, Total

\* A finished task's account is empty when reap closes it.
LEMMA ReapFuel ==
    ASSUME SchedInv, Countable, NEW t \in TaskId, Reap(t)
    PROVE  Countable' /\ Circulating' = Circulating
<1>1. PICK S : S = {Pool} \cup Tracked
  OBVIOUS
<1>2. t \in S /\ balances[t] = 0
  BY <1>1 DEF SchedInv, DoneHoldsNoFuel, Reap, Tracked
<1>3. PICK T : T = S \ {t}
  OBVIOUS
<1>4. balances \in [S -> Nat] /\ balances' \in [T -> Nat] /\ \A a \in T : balances'[a] = balances[a]
  BY <1>1, <1>2, <1>3 DEF SchedInv, TypeOK, Reap, Close
<1>5. /\ \A a \in S \cap T : balances[a] = balances'[a]
      /\ \A a \in S \ T : balances[a] = 0
      /\ \A a \in T \ S : balances'[a] = 0
  BY <1>2, <1>3, <1>4
<1>6. Units(balances) = Units(balances')
  BY <1>4, <1>5, EmptyAccount
<1> QED
  BY <1>6 DEF Countable, Circulating, Total

\* What a task still holds goes to the pool: nothing is lost.
LEMMA KillFuel ==
    ASSUME SchedInv, Countable, NEW t \in TaskId, Kill(t)
    PROVE  Countable' /\ Circulating' = Circulating
<1>1. PICK S : S = {Pool} \cup Tracked
  OBVIOUS
<1>2. t \in S /\ Pool \in S /\ t # Pool /\ balances \in [S -> Nat]
  BY <1>1, NamesAssumption DEF SchedInv, TypeOK, Kill, Tracked
<1>3. balances[t] \in Nat /\ balances[t] <= balances[t]
  BY <1>2
<1>4. balances' = Transfer(balances, t, Pool, balances[t])
  BY DEF Kill, ReclaimAll
<1>5. /\ IsFiniteSet(Units(Transfer(balances, t, Pool, balances[t])))
      /\ Total(Transfer(balances, t, Pool, balances[t])) = Total(balances)
  BY <1>2, <1>3, TransferUnits DEF Countable
<1> QED
  BY <1>4, <1>5 DEF Countable, Circulating

\* Fuel moves between the pool and a task, and stays in the node.
LEMMA MoveFuel ==
    ASSUME SchedInv, Countable, NEW t \in TaskId, NEW amount \in 1 .. FuelMax,
           Donate(t, amount) \/ Reclaim(t, amount)
    PROVE  Countable' /\ Circulating' = Circulating
<1>1. PICK S : S = {Pool} \cup Tracked
  OBVIOUS
<1>2. t \in S /\ Pool \in S /\ t # Pool /\ balances \in [S -> Nat] /\ amount \in Nat
  BY <1>1, BoundsAssumption, NamesAssumption DEF SchedInv, TypeOK, Donate, Reclaim, Live, Tracked
<1>3. PICK from, to \in S : /\ from # to /\ amount <= balances[from]
                            /\ balances' = Transfer(balances, from, to, amount)
  <2>1. CASE Donate(t, amount)
    <3>1. amount <= balances[Pool] /\ balances' = Transfer(balances, Pool, t, amount)
      BY <1>2, <2>1 DEF Donate, Holds
    <3> QED
      BY <1>2, <3>1
  <2>2. CASE Reclaim(t, amount)
    <3>1. amount <= balances[t] /\ balances' = Transfer(balances, t, Pool, amount)
      BY <1>2, <2>2 DEF Reclaim, Holds
    <3> QED
      BY <1>2, <3>1
  <2> QED
    BY <2>1, <2>2
<1>4. /\ IsFiniteSet(Units(Transfer(balances, from, to, amount)))
      /\ Total(Transfer(balances, from, to, amount)) = Total(balances)
  BY <1>2, <1>3, TransferUnits DEF Countable
<1> QED
  BY <1>3, <1>4 DEF Countable, Circulating

\* Fuel enters the node through the pool.
LEMMA RefuelFuel ==
    ASSUME SchedInv, Countable, NEW amount \in 1 .. FuelMax, Refuel(amount)
    PROVE  Countable' /\ Circulating' = Circulating + amount
<1>1. PICK S : S = {Pool} \cup Tracked
  OBVIOUS
<1>2. Pool \in S /\ balances \in [S -> Nat] /\ amount \in Nat
  BY <1>1, BoundsAssumption DEF SchedInv, TypeOK
<1>3. /\ balances' \in [S -> Nat] /\ balances'[Pool] = balances[Pool] + amount
      /\ \A x \in S \ {Pool} : balances'[x] = balances[x]
  BY <1>2 DEF Refuel
<1> QED
  BY <1>2, <1>3, CreditUnits DEF Countable, Circulating

\* Exported fuel leaves it, and was there.
LEMMA ExportFuel ==
    ASSUME SchedInv, Countable, NEW amount \in 1 .. FuelMax, Export(amount)
    PROVE  Countable' /\ Circulating' = Circulating - amount /\ amount <= Circulating
<1>1. PICK S : S = {Pool} \cup Tracked
  OBVIOUS
<1>2. Pool \in S /\ balances \in [S -> Nat] /\ amount \in Nat /\ amount <= balances[Pool]
  BY <1>1, BoundsAssumption DEF SchedInv, TypeOK, Export, Holds
<1>3. /\ balances' \in [S -> Nat] /\ balances'[Pool] = balances[Pool] - amount
      /\ \A x \in S \ {Pool} : balances'[x] = balances[x]
  BY <1>2 DEF Export
<1> QED
  BY <1>2, <1>3, DebitUnits DEF Countable, Circulating

\* A report burns what was spent and at most moves the rest.
LEMMA ReportFuel ==
    ASSUME SchedInv, Countable, NEW spent \in Fuel,
           NEW outcome \in {"OutOfFuel", "Blocked", "Done"}, Report(spent, outcome)
    PROVE  Countable' /\ Circulating' = Circulating - spent /\ spent <= Circulating
<1>1. PICK S : S = {Pool} \cup Tracked
  OBVIOUS
<1>2. PICK b : b = [balances EXCEPT ![running] = @ - spent]
  OBVIOUS
<1>3. /\ running \in S /\ Pool \in S /\ running # Pool /\ balances \in [S -> Nat]
      /\ spent \in Nat /\ spent <= balances[running]
  BY <1>1, BoundsAssumption, NamesAssumption DEF SchedInv, TypeOK, SingleResumer, Report, Holds, Tracked, Fuel
<1>4. b \in [S -> Nat] /\ b[running] = balances[running] - spent
        /\ \A x \in S \ {running} : b[x] = balances[x]
  BY <1>2, <1>3
<1>5. /\ IsFiniteSet(Units(b)) /\ Total(b) = Total(balances) - spent
      /\ spent <= Total(balances)
  BY <1>3, <1>4, DebitUnits DEF Countable
<1>6. b[running] \in Nat /\ b[running] <= b[running]
  BY <1>3, <1>4
<1>7. /\ IsFiniteSet(Units(Transfer(b, running, Pool, b[running])))
      /\ Total(Transfer(b, running, Pool, b[running])) = Total(b)
  BY <1>3, <1>4, <1>5, <1>6, TransferUnits
<1>8. balances' = b \/ balances' = Transfer(b, running, Pool, b[running])
  BY <1>2 DEF Report, ReclaimAll
<1> QED
  BY <1>5, <1>7, <1>8 DEF Countable, Circulating

LEMMA InitFuel == Init => Countable /\ Circulating = 0
<1> SUFFICES ASSUME Init PROVE Countable /\ Circulating = 0
  OBVIOUS
<1>1. balances \in [{Pool} -> Nat] /\ balances[Pool] = 0
  BY DEF Init
<1>2. \A a \in {Pool} : \A k \in 1 .. balances[a] : FALSE
  BY <1>1
<1>3. Units(balances) = {}
  BY <1>1, <1>2, UnitIff
<1> QED
  BY <1>3, FS_EmptySet DEF Countable, Circulating, Total

LEMMA CirculatingIsNat == Countable => Circulating \in Nat
BY FS_CardinalityType DEF Countable, Circulating, Total

\* What the ledger says of itself, with what makes it inductive: the units
\* can be counted and the accounts are in step with the table.
LedgerInv == SchedInv /\ Countable /\ Conserved

\* A step moves the totals with the fuel.
LEMMA NextLedger == LedgerInv /\ [Next]_vars => LedgerInv'
<1> SUFFICES ASSUME LedgerInv, [Next]_vars PROVE LedgerInv'
  OBVIOUS
<1>1. SchedInv /\ Countable /\ Conserved /\ SchedInv'
  BY NextInv DEF LedgerInv
<1>2. Circulating \in Nat /\ imported \in Nat /\ burned \in Nat /\ exported \in Nat /\ FuelMax \in Nat
  BY <1>1, CirculatingIsNat, BoundsAssumption DEF SchedInv, TypeOK
<1>3. ASSUME Countable', Circulating' = Circulating, UNCHANGED totals
      PROVE  Countable' /\ Conserved'
  BY <1>1, <1>3 DEF Conserved, totals
<1>4. ASSUME NEW p \in TaskId \cup {NoTask}, Spawn(p) PROVE Countable' /\ Conserved'
  <2>1. UNCHANGED totals
    BY <1>4 DEF Spawn
  <2> QED
    BY <1>1, <1>3, <1>4, <2>1, SpawnFuel
<1>5. ASSUME NEW t \in TaskId, Kill(t) PROVE Countable' /\ Conserved'
  <2>1. UNCHANGED totals
    BY <1>5 DEF Kill
  <2> QED
    BY <1>1, <1>3, <1>5, <2>1, KillFuel
<1>6. ASSUME NEW t \in TaskId, Reap(t) PROVE Countable' /\ Conserved'
  <2>1. UNCHANGED totals
    BY <1>6 DEF Reap
  <2> QED
    BY <1>1, <1>3, <1>6, <2>1, ReapFuel
<1>7. ASSUME UNCHANGED <<balances, totals>> PROVE Countable' /\ Conserved'
  <2>1. Countable' /\ Circulating' = Circulating
    BY <1>1, <1>7 DEF Countable, Circulating
  <2> QED
    BY <1>3, <1>7, <2>1
<1>8. ASSUME NEW t \in TaskId, Ready(t) PROVE Countable' /\ Conserved'
  BY <1>7, <1>8 DEF Ready
<1>9. ASSUME Pick PROVE Countable' /\ Conserved'
  BY <1>7, <1>9 DEF Pick
<1>10. ASSUME NEW spent \in Fuel, NEW outcome \in {"OutOfFuel", "Blocked", "Done"},
              Report(spent, outcome)
       PROVE  Countable' /\ Conserved'
  <2>1. Countable' /\ Circulating' = Circulating - spent /\ spent <= Circulating
    BY <1>1, <1>10, ReportFuel
  <2>2. burned' = burned + spent /\ imported' = imported /\ exported' = exported /\ spent \in Nat
    BY <1>2, <1>10 DEF Report, Fuel
  <2> QED
    BY <1>1, <1>2, <2>1, <2>2 DEF Conserved
<1>11. ASSUME NEW amount \in 1 .. FuelMax, Refuel(amount) PROVE Countable' /\ Conserved'
  <2>1. Countable' /\ Circulating' = Circulating + amount
    BY <1>1, <1>11, RefuelFuel
  <2>2. /\ imported' = imported + amount /\ burned' = burned /\ exported' = exported
        /\ Circulating + amount <= FuelMax
    BY <1>11 DEF Refuel
  <2> QED
    BY <1>1, <1>2, <2>1, <2>2 DEF Conserved
<1>12. ASSUME NEW amount \in 1 .. FuelMax, Export(amount) PROVE Countable' /\ Conserved'
  <2>1. Countable' /\ Circulating' = Circulating - amount
    BY <1>1, <1>12, ExportFuel
  <2>2. exported' = exported + amount /\ burned' = burned /\ imported' = imported
    BY <1>12 DEF Export
  <2> QED
    BY <1>1, <1>2, <2>1, <2>2 DEF Conserved
<1>13. ASSUME NEW t \in TaskId, NEW amount \in 1 .. FuelMax, Donate(t, amount) \/ Reclaim(t, amount)
       PROVE  Countable' /\ Conserved'
  <2>1. UNCHANGED totals
    BY <1>13 DEF Donate, Reclaim
  <2> QED
    BY <1>1, <1>3, <1>13, <2>1, MoveFuel
<1>14. ASSUME UNCHANGED vars PROVE Countable' /\ Conserved'
  BY <1>7, <1>14 DEF vars
<1>15. Countable' /\ Conserved'
  BY <1>4, <1>5, <1>6, <1>8, <1>9, <1>10, <1>11, <1>12, <1>13, <1>14 DEF Next
<1> QED
  BY <1>1, <1>15 DEF LedgerInv

THEOREM LedgerInvariant == Spec => []LedgerInv
<1>1. Init => LedgerInv
  BY InitInv, InitFuel, BoundsAssumption DEF LedgerInv, Init, Conserved
<1> QED
  BY <1>1, NextLedger, PTL DEF Spec

\* FuelLedger::is_conserved holds after any sequence of scheduler calls, for
\* any number of tasks: no fuel is created, lost with a reaped account or
\* counted twice, and all of it together fits Fuel::MAX.
THEOREM FuelIsConserved == Spec => []Conserved
BY LedgerInvariant, PTL DEF LedgerInv

-----------------------------------------------------------------------------
(* Every step of the scheduler is a step of the abstract node, or leaves   *)
(* what it shows alone.                                                    *)

\* A task that stays on its side of Done, of the table and of next_id stays
\* where it is in its life.
LEMMA SameLife ==
    ASSUME SchedInv, NEW t \in TaskId, NEW s \in {"Runnable", "Running", "Blocked"},
           Live(t), state' = [state EXCEPT ![t] = s], UNCHANGED next_id
    PROVE  Life' = Life
<1>1. state \in [TaskId -> TaskState \cup {"Absent"}] /\ state' \in [TaskId -> TaskState \cup {"Absent"}]
  BY DEF SchedInv, TypeOK, TaskState
<1>2. \A x \in TaskId : (state'[x] = "Absent" <=> state[x] = "Absent") /\ (state'[x] = "Done" <=> state[x] = "Done")
  BY <1>1 DEF Live
<1> QED
  BY <1>2 DEF Life

\* A live task that ends is finished, and no other life changes.
LEMMA EndOfLife ==
    ASSUME SchedInv, NEW t \in TaskId, Live(t), state' = [state EXCEPT ![t] = "Done"], UNCHANGED next_id
    PROVE  Node!Become(t, "live", "finished")
<1>1. state \in [TaskId -> TaskState \cup {"Absent"}] /\ next_id \in Nat
  BY BoundsAssumption DEF SchedInv, TypeOK
<1>2. t < next_id /\ state[t] # "Absent" /\ state[t] # "Done"
  BY <1>1 DEF SchedInv, FreshIds, Live, TaskId
<1>3. Life[t] = "live"
  BY <1>1, <1>2 DEF Life, TaskId
<1>4. Life' = [Life EXCEPT ![t] = "finished"]
  <2>1. Life'[t] = "finished"
    BY <1>1, <1>2 DEF Life, TaskId
  <2>2. \A x \in TaskId \ {t} : Life'[x] = Life[x]
    BY <1>1 DEF Life
  <2> QED
    BY <2>1, <2>2 DEF Life
<1> QED
  BY <1>3, <1>4 DEF Node!Become

LEMMA NodeStep ==
    ASSUME LedgerInv, [Next]_vars
    PROVE  [Node!Next]_(Node!vars)
<1>1. SchedInv /\ Countable /\ Conserved
  BY DEF LedgerInv
<1>2. /\ Circulating \in Nat /\ imported \in Nat /\ burned \in Nat /\ exported \in Nat /\ FuelMax \in Nat
      /\ next_id \in Nat /\ MaxTasks \in Nat /\ state \in [TaskId -> TaskState \cup {"Absent"}]
  BY <1>1, CirculatingIsNat, BoundsAssumption DEF SchedInv, TypeOK
<1>3. ASSUME Circulating' = Circulating, UNCHANGED totals, Life' = Life
      PROVE  UNCHANGED Node!vars
  BY <1>3 DEF Node!vars, totals
<1>4. ASSUME UNCHANGED balances PROVE Circulating' = Circulating
  BY <1>4 DEF Circulating
<1>5. ASSUME NEW p \in TaskId \cup {NoTask}, Spawn(p) PROVE Node!Start
  <2>1. Circulating' = Circulating /\ UNCHANGED totals
    BY <1>1, <1>5, SpawnFuel DEF Spawn
  <2>2. next_id \in TaskId /\ next_id' = next_id + 1 /\ state' = [state EXCEPT ![next_id] = "Runnable"]
    BY <1>2, <1>5 DEF Spawn, TaskId
  <2>3. Life[next_id] = "unused" /\ Life'[next_id] = "live"
    BY <1>2, <2>2 DEF Life
  <2>4. \A x \in TaskId \ {next_id} : Life'[x] = Life[x]
    <3>1. \A x \in TaskId \ {next_id} : state'[x] = state[x] /\ (x >= next_id' <=> x >= next_id)
      BY <1>2, <2>2 DEF TaskId
    <3> QED
      BY <3>1 DEF Life
  <2>5. Life' = [Life EXCEPT ![next_id] = "live"]
    BY <2>3, <2>4 DEF Life
  <2>6. Node!Become(next_id, "unused", "live")
    BY <2>3, <2>5 DEF Node!Become
  <2>7. UNCHANGED <<Circulating, burned + exported, imported>>
    BY <2>1 DEF totals
  <2> QED
    BY <2>2, <2>6, <2>7 DEF Node!Start
<1>6. ASSUME NEW t \in TaskId, Kill(t) PROVE Node!Consume
  <2>1. Circulating' = Circulating /\ UNCHANGED totals
    BY <1>1, <1>6, KillFuel DEF Kill
  <2>2. Node!Become(t, "live", "finished")
    BY <1>1, <1>6, EndOfLife DEF Kill, Live, tableVars
  <2>3. /\ 0 \in 0 .. Circulating /\ Circulating' = Circulating - 0
        /\ burned' + exported' = (burned + exported) + 0 /\ imported' = imported
    BY <1>2, <2>1 DEF totals
  <2> QED
    BY <2>2, <2>3 DEF Node!Consume
<1>7. ASSUME NEW t \in TaskId, Reap(t) PROVE Node!Forget
  <2>1. Circulating' = Circulating /\ UNCHANGED totals
    BY <1>1, <1>7, ReapFuel DEF Reap
  <2>2. state[t] = "Done" /\ state' = [state EXCEPT ![t] = "Absent"] /\ next_id' = next_id
    BY <1>7 DEF Reap
  <2>3. t < next_id
    BY <1>1, <1>2, <2>2 DEF SchedInv, FreshIds, TaskId
  <2>4. Life[t] = "finished" /\ Life'[t] = "gone"
    BY <1>2, <2>2, <2>3 DEF Life, TaskId
  <2>5. \A x \in TaskId \ {t} : Life'[x] = Life[x]
    BY <1>2, <2>2 DEF Life
  <2>6. Life' = [Life EXCEPT ![t] = "gone"]
    BY <2>4, <2>5 DEF Life
  <2>7. Node!Become(t, "finished", "gone")
    BY <2>4, <2>6 DEF Node!Become
  <2>8. UNCHANGED <<Circulating, burned + exported, imported>>
    BY <2>1 DEF totals
  <2> QED
    BY <2>7, <2>8 DEF Node!Forget
<1>8. ASSUME NEW t \in TaskId, Ready(t) PROVE UNCHANGED Node!vars
  <2>1. Life' = Life
    BY <1>1, <1>8, SameLife DEF Ready, Live, tableVars
  <2> QED
    BY <1>3, <1>4, <1>8, <2>1 DEF Ready
<1>9. ASSUME Pick PROVE UNCHANGED Node!vars
  <2>1. PICK t \in TaskId : Live(t) /\ state' = [state EXCEPT ![t] = "Running"]
    <3>1. NextIndex(queue) \in DOMAIN queue
      BY <1>1, <1>9, NextIndexInDomain DEF Pick, SchedInv, TypeOK
    <3>2. PICK t : t = queue[NextIndex(queue)]
      OBVIOUS
    <3>3. t \in TaskId /\ state' = [state EXCEPT ![t] = "Running"]
      BY <1>1, <1>9, <3>1, <3>2 DEF Pick, SchedInv, TypeOK
    <3>4. Live(t)
      BY <1>1, <3>1, <3>2, <3>3 DEF SchedInv, QueueIsRunnable, Queued, Live
    <3> QED
      BY <3>3, <3>4
  <2>2. Life' = Life
    BY <1>1, <1>9, <2>1, SameLife DEF Pick, tableVars
  <2> QED
    BY <1>3, <1>4, <1>9, <2>2 DEF Pick
<1>10. ASSUME NEW spent \in Fuel, NEW outcome \in {"OutOfFuel", "Blocked", "Done"},
              Report(spent, outcome)
       PROVE  Node!Consume
  <2>1. Circulating' = Circulating - spent /\ spent <= Circulating
    BY <1>1, <1>10, ReportFuel
  <2>2. /\ burned' = burned + spent /\ imported' = imported /\ exported' = exported /\ spent \in Nat
        /\ next_id' = next_id
    BY <1>2, <1>10 DEF Report, Fuel, tableVars
  <2>3. running \in TaskId /\ Live(running)
    BY <1>1, <1>10 DEF SchedInv, TypeOK, SingleResumer, Report, Live
  <2>4. Life' = Life \/ \E i \in TaskId : Node!Become(i, "live", "finished")
    <3>1. PICK s \in {"Runnable", "Blocked", "Done"} : state' = [state EXCEPT ![running] = s]
      BY <1>10 DEF Report
    <3>2. CASE s = "Done"
      BY <1>1, <2>2, <2>3, <3>1, <3>2, EndOfLife
    <3>3. CASE s # "Done"
      BY <1>1, <2>2, <2>3, <3>1, <3>3, SameLife
    <3> QED
      BY <3>2, <3>3
  <2>5. spent \in 0 .. Circulating /\ burned' + exported' = (burned + exported) + spent
    BY <1>2, <2>1, <2>2
  <2> QED
    BY <2>1, <2>2, <2>4, <2>5 DEF Node!Consume
<1>11. ASSUME UNCHANGED runVars, UNCHANGED tableVars PROVE Life' = Life
  BY <1>11 DEF Life, runVars, tableVars
<1>12. ASSUME NEW amount \in 1 .. FuelMax, Refuel(amount) PROVE Node!Receive
  <2>1. Circulating' = Circulating + amount
    BY <1>1, <1>12, RefuelFuel
  <2>2. /\ imported' = imported + amount /\ burned' = burned /\ exported' = exported
        /\ Circulating + amount <= FuelMax /\ Life' = Life
    BY <1>11, <1>12 DEF Refuel
  <2> QED
    BY <2>1, <2>2 DEF Node!Receive
<1>13. ASSUME NEW amount \in 1 .. FuelMax, Export(amount) PROVE Node!Consume
  <2>1. Circulating' = Circulating - amount /\ amount <= Circulating
    BY <1>1, <1>13, ExportFuel
  <2>2. exported' = exported + amount /\ burned' = burned /\ imported' = imported /\ Life' = Life
    BY <1>11, <1>13 DEF Export
  <2>3. amount \in 0 .. Circulating /\ burned' + exported' = (burned + exported) + amount
    BY <1>2, <2>1, <2>2
  <2> QED
    BY <2>1, <2>2, <2>3 DEF Node!Consume
<1>14. ASSUME NEW t \in TaskId, NEW amount \in 1 .. FuelMax, Donate(t, amount) \/ Reclaim(t, amount)
       PROVE  UNCHANGED Node!vars
  <2>1. UNCHANGED totals /\ Life' = Life
    BY <1>11, <1>14 DEF Donate, Reclaim
  <2> QED
    BY <1>1, <1>3, <1>14, <2>1, MoveFuel
<1>15. ASSUME UNCHANGED vars PROVE UNCHANGED Node!vars
  BY <1>3, <1>4, <1>11, <1>15 DEF vars
<1> QED
  BY <1>5, <1>6, <1>7, <1>8, <1>9, <1>10, <1>12, <1>13, <1>14, <1>15 DEF Next, Node!Next

\* The scheduler implements the abstract budget, whatever the number of tasks
\* and the policy: only refuel() adds fuel, what leaves was there, and each
\* id is used for one task, which ends once.
THEOREM FuelNodeImplemented == Spec => ImplementsFuelNode
<1>1. Init => Node!Init
  <2> SUFFICES ASSUME Init PROVE Node!Init
    OBVIOUS
  <2>1. Life = [i \in TaskId |-> "unused"]
    BY BoundsAssumption DEF Init, Life, TaskId
  <2> QED
    BY <2>1, InitFuel DEF Init, Node!Init
<1>2. LedgerInv /\ [Next]_vars => [Node!Next]_(Node!vars)
  BY NodeStep
<1> QED
  BY <1>1, <1>2, LedgerInvariant, PTL DEF Spec, ImplementsFuelNode, Node!Spec
=============================================================================
