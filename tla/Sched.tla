------------------------------- MODULE Sched -------------------------------
(***************************************************************************)
(* The scheduler of crates/eo9-sched: the task table, the run queue behind *)
(* a policy, and the conserved fuel accounts (sched.rs, fuel.rs,           *)
(* policy.rs).  One action per mutating method of Scheduler; a method that *)
(* returns an error leaves the scheduler unchanged, so its early returns   *)
(* are the guards here.  The embedder (the caller of these methods) is     *)
(* external: it may call any method in any order, except that it honours   *)
(* pick()'s documented single-resumer precondition.                        *)
(***************************************************************************)
EXTENDS Integers, Sequences, SequencesExt, FiniteSetsExt, Units

CONSTANTS MaxTasks,     \* bound: ids handed out by spawn (next_id is a u64)
          FuelMax,      \* Fuel::MAX
          MaxImported,  \* bound on the lifetime counter ledger.imported (u128)
          Fair,         \* TRUE: FairPolicy, FALSE: DeterministicPolicy
          NoTask,       \* Option::None for task ids
          Pool          \* Account::Pool

TaskId == 0 .. (MaxTasks - 1)

ASSUME BoundsAssumption == /\ MaxTasks \in Nat
                           /\ FuelMax \in Nat
                           /\ MaxImported \in Nat
                           /\ Fair \in BOOLEAN
ASSUME NamesAssumption == NoTask \notin TaskId /\ Pool \notin TaskId

VARIABLES next_id,   \* next task id
          state,     \* tracked tasks: id -> TaskState, "Absent" when not in the table
          parent,    \* id -> parent id or NoTask
          children,  \* id -> set of unreaped children
          queue,     \* the policy's run queue, in arrival order
          running,   \* the task being resumed, or NoTask
          balances,  \* the ledger: open account -> fuel
          imported, burned, exported  \* lifetime totals of the ledger

tableVars == <<next_id, parent, children>>
runVars == <<state, queue, running>>
totals == <<imported, burned, exported>>
vars == <<tableVars, runVars, balances, totals>>

TaskState == {"Runnable", "Running", "Blocked", "Done"}
Fuel == 0 .. FuelMax

Tracked == {t \in TaskId : state[t] # "Absent"}
Live(t) == state[t] \in {"Runnable", "Running", "Blocked"}

----------------------------------------------------------------------------
(* The run queue (policy.rs).  Both policies hold the set of queued ids;   *)
(* they differ in which one dequeue takes.                                 *)

Enqueue(q, t) == Append(q, t)

\* Variant: the most recently queued task first.
NextIndex_Lifo(q) == Len(q)

\* pop_front of the VecDeque, or pop_first of the ordered set.
NextIndex(q) ==
    IF Fair THEN 1
            ELSE CHOOSE i \in DOMAIN q : \A j \in DOMAIN q : q[i] <= q[j]

Unqueue(q, t) == RemoveAt(q, CHOOSE i \in DOMAIN q : q[i] = t)

Queued(q, t) == \E i \in DOMAIN q : q[i] = t
Distinct(q) == \A i, j \in DOMAIN q : q[i] = q[j] => i = j

----------------------------------------------------------------------------
(* The ledger (fuel.rs).  A credit is checked_add, a debit checked_sub.    *)

Open(b, a) == [x \in DOMAIN b \cup {a} |-> IF x = a THEN 0 ELSE b[x]]
\* Variant: the account of a reaped task stays open.
Close_Leaks(b, a) == b

Close(b, a) == [x \in DOMAIN b \ {a} |-> b[x]]
Holds(a, amount) == a \in DOMAIN balances /\ balances[a] >= amount
HasRoom(a, amount) == a \in DOMAIN balances /\ balances[a] + amount <= FuelMax
\* Variant: the donor is not debited.
Transfer_NoDebit(b, from, to, amount) == [b EXCEPT ![to] = @ + amount]

Transfer(b, from, to, amount) ==
    [b EXCEPT ![from] = @ - amount, ![to] = @ + amount]

\* What all the accounts hold.
Circulating == Total(balances)

\* Variant: a finished task keeps its unspent fuel.
ReclaimAll_Nothing(b, t) == b

\* Everything the task still holds goes back to the pool.
ReclaimAll(b, t) == Transfer(b, t, Pool, b[t])

----------------------------------------------------------------------------
Init == /\ next_id = 0
        /\ state = [t \in TaskId |-> "Absent"]
        /\ parent = [t \in TaskId |-> NoTask]
        /\ children = [t \in TaskId |-> {}]
        /\ queue = <<>>
        /\ running = NoTask
        /\ balances = [a \in {Pool} |-> 0]
        /\ imported = 0 /\ burned = 0 /\ exported = 0

\* A finished parent is refused; the new task is queued with no fuel.
Spawn(p) ==
    /\ p = NoTask \/ (p \in TaskId /\ Live(p))
    /\ next_id < MaxTasks
    /\ next_id' = next_id + 1
    /\ state' = [state EXCEPT ![next_id] = "Runnable"]
    /\ parent' = [parent EXCEPT ![next_id] = p]
    /\ children' = [t \in TaskId |-> IF t = next_id THEN {}
                                     ELSE IF t = p THEN children[t] \cup {next_id}
                                     ELSE children[t]]
    /\ queue' = Enqueue(queue, next_id)
    /\ balances' = Open(balances, next_id)
    /\ UNCHANGED <<running, totals>>

\* Variant: a killed task is not taken out of the run queue.
Kill_StaysQueued(t) ==
    /\ state[t] \in {"Runnable", "Blocked"}
    /\ balances' = ReclaimAll(balances, t)
    /\ state' = [state EXCEPT ![t] = "Done"]
    /\ UNCHANGED <<tableVars, queue, running, totals>>

\* The running task cannot be killed; killing a finished one is a no-op.
Kill(t) ==
    /\ state[t] \in {"Runnable", "Blocked"}
    /\ queue' = IF state[t] = "Runnable" THEN Unqueue(queue, t) ELSE queue
    /\ balances' = ReclaimAll(balances, t)
    /\ state' = [state EXCEPT ![t] = "Done"]
    /\ UNCHANGED <<tableVars, running, totals>>

\* Variants: reap ignores unreaped children; reap gives the last id back.
Reap_IgnoresChildren(t) ==
    /\ state[t] = "Done"
    /\ balances' = Close(balances, t)
    /\ state' = [state EXCEPT ![t] = "Absent"]
    /\ children' = [p \in TaskId |-> IF p = parent[t] THEN children[p] \ {t}
                                                      ELSE children[p]]
    /\ parent' = [parent EXCEPT ![t] = NoTask]
    /\ UNCHANGED <<next_id, queue, running, totals>>

Reap_ReusesId(t) ==
    /\ state[t] = "Done"
    /\ children[t] = {}
    /\ next_id' = IF t + 1 = next_id THEN t ELSE next_id
    /\ balances' = Close(balances, t)
    /\ state' = [state EXCEPT ![t] = "Absent"]
    /\ children' = [p \in TaskId |-> IF p = parent[t] THEN children[p] \ {t}
                                                      ELSE children[p]]
    /\ parent' = [parent EXCEPT ![t] = NoTask]
    /\ UNCHANGED <<queue, running, totals>>

Reap(t) ==
    /\ state[t] = "Done"
    /\ children[t] = {}
    /\ balances' = Close(balances, t)
    /\ state' = [state EXCEPT ![t] = "Absent"]
    /\ children' = [p \in TaskId |-> IF p = parent[t] THEN children[p] \ {t}
                                                      ELSE children[p]]
    /\ parent' = [parent EXCEPT ![t] = NoTask]
    /\ UNCHANGED <<next_id, queue, running, totals>>

\* Variants: ready requeues the task being resumed; ready revives a finished task.
Ready_WhileRunning(t) ==
    /\ state[t] \in {"Blocked", "Running"}
    /\ state' = [state EXCEPT ![t] = "Runnable"]
    /\ queue' = Enqueue(queue, t)
    /\ UNCHANGED <<tableVars, running, balances, totals>>

Ready_Revives(t) ==
    /\ state[t] \in {"Blocked", "Done"}
    /\ state' = [state EXCEPT ![t] = "Runnable"]
    /\ queue' = Enqueue(queue, t)
    /\ UNCHANGED <<tableVars, running, balances, totals>>

\* A completion may arrive for a task in any state; only Blocked reacts.
Ready(t) ==
    /\ state[t] = "Blocked"
    /\ state' = [state EXCEPT ![t] = "Runnable"]
    /\ queue' = Enqueue(queue, t)
    /\ UNCHANGED <<tableVars, running, balances, totals>>

Pick ==
    /\ running = NoTask
    /\ queue # <<>>
    /\ LET i == NextIndex(queue) IN
         /\ running' = queue[i]
         /\ state' = [state EXCEPT ![queue[i]] = "Running"]
         /\ queue' = RemoveAt(queue, i)
    /\ UNCHANGED <<tableVars, balances, totals>>

\* burn comes first and may refuse an excess spend; then the outcome.
Report(spent, outcome) ==
    /\ running # NoTask
    /\ Holds(running, spent)
    /\ LET b == [balances EXCEPT ![running] = @ - spent] IN
         CASE outcome = "OutOfFuel" ->
                /\ state' = [state EXCEPT ![running] = "Runnable"]
                /\ queue' = Enqueue(queue, running)
                /\ balances' = b
           [] outcome = "Blocked" ->
                /\ state' = [state EXCEPT ![running] = "Blocked"]
                /\ queue' = queue
                /\ balances' = b
           [] outcome = "Done" ->
                /\ state' = [state EXCEPT ![running] = "Done"]
                /\ queue' = queue
                /\ balances' = ReclaimAll(b, running)
    /\ burned' = burned + spent
    /\ running' = NoTask
    /\ UNCHANGED <<tableVars, imported, exported>>

\* Variant: the limit is checked against the pool alone.
Refuel_PoolOnly(amount) ==
    /\ HasRoom(Pool, amount)
    /\ imported + amount <= MaxImported
    /\ balances' = [balances EXCEPT ![Pool] = @ + amount]
    /\ imported' = imported + amount
    /\ UNCHANGED <<tableVars, runVars, burned, exported>>

Refuel(amount) ==
    /\ Circulating + amount <= FuelMax
    /\ imported + amount <= MaxImported
    /\ balances' = [balances EXCEPT ![Pool] = @ + amount]
    /\ imported' = imported + amount
    /\ UNCHANGED <<tableVars, runVars, burned, exported>>

Export(amount) ==
    /\ Holds(Pool, amount)
    /\ balances' = [balances EXCEPT ![Pool] = @ - amount]
    /\ exported' = exported + amount
    /\ UNCHANGED <<tableVars, runVars, imported, burned>>

\* Also allowed while the task is being resumed.
Donate(t, amount) ==
    /\ Live(t)
    /\ Holds(Pool, amount)
    /\ HasRoom(t, amount)
    /\ balances' = Transfer(balances, Pool, t, amount)
    /\ UNCHANGED <<tableVars, runVars, totals>>

\* Variant: fuel is reclaimed from the task being resumed.
Reclaim_WhileRunning(t, amount) ==
    /\ Live(t)
    /\ Holds(t, amount)
    /\ HasRoom(Pool, amount)
    /\ balances' = Transfer(balances, t, Pool, amount)
    /\ UNCHANGED <<tableVars, runVars, totals>>

Reclaim(t, amount) ==
    /\ state[t] \in {"Runnable", "Blocked"}
    /\ Holds(t, amount)
    /\ HasRoom(Pool, amount)
    /\ balances' = Transfer(balances, t, Pool, amount)
    /\ UNCHANGED <<tableVars, runVars, totals>>

Next ==
    \/ \E p \in TaskId \cup {NoTask} : Spawn(p)
    \/ \E t \in TaskId : Kill(t) \/ Reap(t) \/ Ready(t)
    \/ Pick
    \/ \E spent \in Fuel, outcome \in {"OutOfFuel", "Blocked", "Done"} :
         Report(spent, outcome)
    \/ \E amount \in 1 .. FuelMax : Refuel(amount) \/ Export(amount)
    \/ \E t \in TaskId, amount \in 1 .. FuelMax : Donate(t, amount) \/ Reclaim(t, amount)

Spec == Init /\ [][Next]_vars

\* The embedder's loop keeps picking, and every resume it started ends in a
\* report (crate docs, "The resume cycle").
Fairness ==
    /\ WF_vars(Pick)
    /\ WF_vars(\E spent \in Fuel, outcome \in {"OutOfFuel", "Blocked", "Done"} :
                   Report(spent, outcome))
FairSpec == Spec /\ Fairness

----------------------------------------------------------------------------
(* Properties.                                                             *)

\* The type invariant; an account is open exactly for the pool and the
\* tasks in the table (spawn opens it, reap closes it).
TypeOK ==
    /\ next_id \in 0 .. MaxTasks
    /\ state \in [TaskId -> TaskState \cup {"Absent"}]
    /\ parent \in [TaskId -> TaskId \cup {NoTask}]
    /\ children \in [TaskId -> SUBSET TaskId]
    /\ queue \in Seq(TaskId)
    /\ running \in TaskId \cup {NoTask}
    /\ balances \in [{Pool} \cup Tracked -> Nat]
    /\ imported \in Nat /\ burned \in Nat /\ exported \in Nat

\* The Policy contract and the expects of pick() and kill(): the queue holds
\* exactly the runnable tasks, each once.
QueueIsRunnable ==
    /\ Distinct(queue)
    /\ \A t \in TaskId : state[t] = "Runnable" <=> Queued(queue, t)

\* Single resumer: the task handed out by pick() is the only Running one
\* until its report().
SingleResumer == \A t \in TaskId : state[t] = "Running" <=> running = t

\* reap()'s "a parent cannot be reaped before its children": both directions
\* of the parent/child links agree and never dangle, however spawn, kill and
\* reap interleave.
TreeSound ==
    /\ \A t \in Tracked : parent[t] # NoTask => parent[t] \in Tracked /\ parent[t] < t
    /\ \A p, t \in TaskId : t \in children[p] <=> (t \in Tracked /\ parent[t] = p)

\* reap()'s "a done task's fuel was returned to the pool when it finished":
\* closing its account never destroys fuel.
DoneHoldsNoFuel == \A t \in TaskId : state[t] = "Done" => balances[t] = 0

\* Both expects of reap() hold whatever came before: a child's parent is still
\* in the table, and a finished task's account is empty.
ReapIsSafe == TreeSound /\ DoneHoldsNoFuel

\* Ids at or above next_id have never been handed out.
FreshIds == \A t \in TaskId : t >= next_id => state[t] = "Absent"

\* The inductive invariant the proofs use.
SchedInv == /\ TypeOK /\ QueueIsRunnable /\ SingleResumer
            /\ TreeSound /\ DoneHoldsNoFuel /\ FreshIds

\* FuelLedger::is_conserved after every operation, and what makes reclaim_all
\* infallible: refuel() keeps everything the node holds within Fuel::MAX, so
\* no transfer into the pool can overflow.
Conserved == /\ imported = burned + exported + Circulating
             /\ Circulating <= FuelMax

\* "Ids are never reused" and Done is final: a stale TaskId never names a
\* later task, and no late ready() or report() revives a finished one.
NoResurrection ==
    [][\A t \in TaskId :
         /\ (t < next_id /\ state[t] = "Absent") => state'[t] = "Absent"
         /\ state[t] = "Done" => state'[t] \in {"Done", "Absent"}]_vars

\* A resume's fuel is never taken from under it: while a task is being
\* resumed its balance only grows, until its own report.
RunningFuelIsSafe ==
    [][\A t \in TaskId : (running = t /\ running' = t) => balances'[t] >= balances[t]]_vars

\* FairPolicy: every runnable task gets its turn (or is killed first).
NoStarvation ==
    \A t \in TaskId : state[t] = "Runnable" ~> state[t] # "Runnable"

\* Where each id is in its life: not handed out yet, in the table, finished
\* but not reaped, or reaped.
Life == [t \in TaskId |-> IF t >= next_id THEN "unused"
                         ELSE IF state[t] = "Absent" THEN "gone"
                         ELSE IF state[t] = "Done" THEN "finished" ELSE "live"]

\* The node implements the abstract budget: nothing but refuel() adds fuel,
\* and lifetimes go forward only.
Node == INSTANCE FuelNode
    WITH Ids <- TaskId, Limit <- FuelMax, held <- Circulating,
         consumed <- burned + exported, received <- imported, life <- Life
ImplementsFuelNode == Node!Spec

=============================================================================
