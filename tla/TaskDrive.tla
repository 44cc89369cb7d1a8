----------------------------- MODULE TaskDrive -----------------------------
(***************************************************************************)
(* Driving a tree of tasks (crates/eo9-runtime: task.rs and the            *)
(* eo9:exec/task host functions of link.rs; crates/eo9: run.rs and         *)
(* providers.rs).  One embedder thread donates fuel to the root task,      *)
(* parks when it is blocked and is unparked through doorbells.  Children   *)
(* run inside their parent's resume.  Provider threads complete i/o and    *)
(* ring doorbells at any moment.                                           *)
(*                                                                         *)
(* A guest is nondeterministic.  While busy it spends quanta, spawns and   *)
(* kills children, finishes, or waits for one i/o operation, the end of    *)
(* children, or both.  Each is a host future that wasmtime polls again     *)
(* only after that future's own waker has fired.                           *)
(* Fuel is counted in quanta of FUEL_QUANTUM; every donation in the code   *)
(* is a whole number of them.  The drive loop is the one without           *)
(* --max-fuel and without services.                                        *)
(***************************************************************************)
EXTENDS Integers, Sequences, FiniteSets, SequencesExt

CONSTANTS Tasks, Root,
          Parent,     \* task -> its parent (the root is its own)
          Kids,       \* task -> its children, in table order
          Uses,       \* task -> the sets of things its guest may wait for at once
          Donation,   \* RESUME_DONATION, in quanta
          BudgetMax,  \* where saturating_add stops (u64::MAX)
          Thread,     \* the waker of the embedder thread
          Io,         \* an i/o operation
          Quiet       \* a provider thread that is not ringing

KidSet(t) == ToSet(Kids[t])

\* What the constants stand for: a tree with its tables, fuel to give, and
\* names that are none of its tasks.
WellFormed ==
    /\ Root \in Tasks /\ Parent \in [Tasks -> Tasks] /\ Parent[Root] = Root
    /\ Kids \in [Tasks -> Seq(Tasks)]
    /\ \A t \in Tasks : KidSet(t) = {k \in Tasks \ {Root} : Parent[k] = t}
    /\ \A t \in Tasks : Uses[t] \subseteq (SUBSET ({Io} \cup KidSet(t))) \ {{}}
    /\ Donation \in Nat \ {0} /\ BudgetMax \in Nat /\ Donation <= BudgetMax
    /\ Io \notin Tasks /\ Quiet \notin [bell : Tasks, pc : {"store", "drain"}]

VARIABLES rung, waiters,             \* each task's Doorbell
          parked, outcome, carried,  \* each Task
          busy,    \* its guest has code to run
          await,   \* its pending host futures: some of {Io} \cup children
          woken,   \* those of them wasmtime is to poll again
          prov,    \* its provider thread: Quiet or where its ring is
          stack,   \* the embedder thread's nested resumes, innermost first
          emb,     \* the drive loop around them
          token    \* std::thread's park token

bells == <<rung, waiters>>
taskVars == <<parked, outcome, carried>>
driveVars == <<bells, taskVars, busy, await, woken, prov, stack, emb, token>>

Running(t) == outcome[t] = "running"

\* Variant: a ring that arrives after the task was parked is overlooked.
IsRunnable_Unparked(t) == Running(t) /\ ~parked[t]

\* Task::is_runnable.
IsRunnable(t) == Running(t) /\ (~parked[t] \/ rung[t])

\* Ringing t's bell wakes a wait future of its parent, which rings that bell:
\* the bells rung are the least set with t and the parents so woken.
Wakes(t) == Parent[t] \in waiters[t] /\ t \in await[Parent[t]]
RingsOn(bs) == \A b \in bs : Wakes(b) => Parent[b] \in bs
Rings(t) == {x \in Tasks : \A bs \in SUBSET Tasks : t \in bs /\ RingsOn(bs) => x \in bs}

\* Doorbell::ring by the embedder thread, the only one that registers wakers;
\* again is the set of futures of t whose waker this is.
RingBy(t, again) ==
    LET rs == Rings(t) IN
    /\ rung' = [x \in Tasks |-> rung[x] \/ x \in rs]
    /\ waiters' = [x \in Tasks |-> IF x \in rs THEN {} ELSE waiters[x]]
    /\ woken' = [x \in Tasks |-> woken[x] \cup {y \in rs \cap KidSet(x) : Wakes(y)}
                                          \cup (IF x = t THEN again ELSE {})]
    /\ token' = (token \/ \E x \in rs : Thread \in waiters[x])

Top == Head(stack)
In(pc) == stack # <<>> /\ Top.pc = pc
SetTop(f) == stack' = <<f>> \o Tail(stack)
\* A resume that has found a whole quantum: it drives the children first.
Frame(t, budget) == [task |-> t, pc |-> "kids", budget |-> budget, todo |-> Kids[t]]
\* Variant: the addition does not saturate.
AddFuel_Plain(a, b) == a + b

\* u64::saturating_add.
AddFuel(a, b) == IF a + b > BudgetMax THEN BudgetMax ELSE a + b

----------------------------------------------------------------------------
DriveInit ==
    /\ rung = [t \in Tasks |-> FALSE] /\ waiters = [t \in Tasks |-> {}]
    /\ parked = [t \in Tasks |-> FALSE]
    /\ outcome = [t \in Tasks |-> IF t = Root THEN "running" ELSE "unborn"]
    /\ carried = [t \in Tasks |-> 0]
    /\ busy = [t \in Tasks |-> t = Root]
    /\ await = [t \in Tasks |-> {}] /\ woken = [t \in Tasks |-> {}]
    /\ prov = [t \in Tasks |-> Quiet]
    /\ stack = <<>> /\ emb = "resume" /\ token = FALSE

----------------------------------------------------------------------------
(* The drive loop: drive_to_completion and wait_until_runnable.            *)

Idle(at) == stack = <<>> /\ emb = at

ResumeRoot ==
    /\ Idle("resume")
    /\ IF Running(Root)
       THEN /\ parked' = [parked EXCEPT ![Root] = FALSE]
            /\ stack' = <<Frame(Root, AddFuel(carried[Root], Donation))>>
            /\ emb' = emb
       ELSE emb' = "stop" /\ UNCHANGED <<parked, stack>>
    /\ UNCHANGED <<bells, outcome, carried, busy, await, woken, prov, token>>

\* Doorbell::poll_edge on the root's bell: observe, register, re-observe.
Observe(at, otherwise) ==
    /\ Idle(at)
    /\ emb' = IF IsRunnable(Root) THEN "resume" ELSE otherwise
    /\ UNCHANGED <<bells, taskVars, busy, await, woken, prov, stack, token>>

\* Variant: the second observation is left out.
RegisterThread_ThenPark ==
    /\ Idle("register")
    /\ waiters' = [waiters EXCEPT ![Root] = @ \cup {Thread}]
    /\ emb' = "park"
    /\ UNCHANGED <<rung, taskVars, busy, await, woken, prov, stack, token>>

RegisterThread ==
    /\ Idle("register")
    /\ waiters' = [waiters EXCEPT ![Root] = @ \cup {Thread}]
    /\ emb' = "reobserve"
    /\ UNCHANGED <<rung, taskVars, busy, await, woken, prov, stack, token>>

\* std::thread::park returns once it has the token.
Park ==
    /\ Idle("park") /\ token
    /\ token' = FALSE /\ emb' = "observe"
    /\ UNCHANGED <<bells, taskVars, busy, await, woken, prov, stack>>

Embedder == \/ ResumeRoot
            \/ Observe("observe", "register") \/ RegisterThread \/ Observe("reobserve", "park")
            \/ Park

----------------------------------------------------------------------------
(* Task::resume.                                                           *)

\* A resume returns with the budget it has left; its caller goes on.
Return(budget, isParked) ==
    LET t == Top.task IN
    /\ carried' = [carried EXCEPT ![t] = budget]
    /\ parked' = [parked EXCEPT ![t] = isParked]
    /\ stack' = Tail(stack)
    /\ emb' = IF t = Root /\ isParked THEN "observe" ELSE emb

\* One slice for each runnable child, on the parent's budget.
DriveChild ==
    /\ In("kids") /\ Top.todo # <<>> /\ Top.budget >= 1
    /\ LET k == Head(Top.todo)
           f == [Top EXCEPT !.todo = Tail(@)]
       IN IF IsRunnable(k)
          THEN /\ stack' = <<Frame(k, AddFuel(carried[k], 1)), [f EXCEPT !.budget = @ - 1]>>
                           \o Tail(stack)
               /\ parked' = [parked EXCEPT ![k] = FALSE]
          ELSE SetTop(f) /\ UNCHANGED parked
    /\ UNCHANGED <<bells, outcome, carried, busy, await, woken, prov, emb, token>>

ChildrenAteTheBudget ==
    /\ In("kids") /\ Top.budget < 1
    /\ Return(Top.budget, FALSE)
    /\ UNCHANGED <<bells, outcome, busy, await, woken, prov, token>>

\* The bell is taken and the drive future polled: it polls the woken futures.
Take ==
    /\ In("kids") /\ Top.todo = <<>> /\ Top.budget >= 1
    /\ rung' = [rung EXCEPT ![Top.task] = FALSE]
    /\ woken' = [woken EXCEPT ![Top.task] = {}]
    /\ SetTop([Top EXCEPT !.pc = "futures", !.todo = SetToSeq(woken[Top.task])])
    /\ UNCHANGED <<waiters, taskVars, busy, await, prov, emb, token>>

----------------------------------------------------------------------------
(* Polling one host future: a completed operation, or the wait function on *)
(* the child at the head of todo.                                          *)

NextFuture == [Top EXCEPT !.pc = "futures", !.todo = Tail(@)]
Polling == In("futures") /\ Top.todo # <<>>
Resolves(f) == IF f = Io THEN TRUE ELSE ~Running(f)

FutureResolves ==
    /\ Polling /\ Resolves(Head(Top.todo))
    /\ await' = [await EXCEPT ![Top.task] = @ \ {Head(Top.todo)}]
    /\ busy' = [busy EXCEPT ![Top.task] = TRUE]
    /\ SetTop(NextFuture)
    /\ UNCHANGED <<bells, taskVars, woken, prov, emb, token>>

\* A runnable child runs inside the next iteration: keep the parent awake.
\* Otherwise poll_edge registers the parent's waker with the child's bell ...
WaitCheck ==
    /\ Polling /\ ~Resolves(Head(Top.todo))
    /\ IF IsRunnable(Head(Top.todo))
       THEN RingBy(Top.task, {Head(Top.todo)}) /\ SetTop(NextFuture)
       ELSE SetTop([Top EXCEPT !.pc = "register"]) /\ UNCHANGED <<bells, woken, token>>
    /\ UNCHANGED <<taskVars, busy, await, prov, emb>>

WaitRegister ==
    /\ In("register")
    /\ waiters' = [waiters EXCEPT ![Head(Top.todo)] = @ \cup {Top.task}]
    /\ SetTop([Top EXCEPT !.pc = "reobserve"])
    /\ UNCHANGED <<rung, taskVars, busy, await, woken, prov, emb, token>>

\* Variant: the Ready of the second observation is discarded.
WaitReobserve_Discards ==
    /\ In("reobserve")
    /\ SetTop(NextFuture)
    /\ UNCHANGED <<bells, taskVars, busy, await, woken, prov, emb, token>>

\* ... and looks at the child once more: that edge has woken nobody.
WaitReobserve ==
    /\ In("reobserve")
    /\ IF IsRunnable(Head(Top.todo))
       THEN RingBy(Top.task, {Head(Top.todo)})
       ELSE UNCHANGED <<bells, woken, token>>
    /\ SetTop(NextFuture)
    /\ UNCHANGED <<taskVars, busy, await, prov, emb>>

----------------------------------------------------------------------------
(* The guest, once its futures are polled.                                 *)

GuestRuns == In("futures") /\ Top.todo = <<>> /\ busy[Top.task]

\* The fuel quantum is spent: the store wakes itself and suspends.
GuestYields ==
    /\ GuestRuns
    /\ RingBy(Top.task, {})
    /\ SetTop([Top EXCEPT !.pc = "pending"])
    /\ UNCHANGED <<taskVars, busy, await, prov, emb>>

\* eo9:exec/task.spawn: the child is in the table, never parked.
GuestSpawns(k) ==
    /\ GuestRuns
    /\ k \in KidSet(Top.task) /\ outcome[k] = "unborn"
    /\ outcome' = [outcome EXCEPT ![k] = "running"]
    /\ busy' = [busy EXCEPT ![k] = TRUE]
    /\ UNCHANGED <<bells, parked, carried, await, woken, prov, stack, emb, token>>

\* The guest waits for more; wasmtime polls the new futures at once.
GuestAwaits(what) ==
    /\ GuestRuns
    /\ what \in Uses[Top.task]
    /\ await[Top.task] \subseteq what
    /\ \A k \in what \ (await[Top.task] \cup {Io}) : Running(k)
    /\ await' = [await EXCEPT ![Top.task] = what]
    /\ busy' = [busy EXCEPT ![Top.task] = FALSE]
    /\ SetTop([Top EXCEPT !.todo = SetToSeq(what \ (await[Top.task] \cup {Io}))])
    /\ UNCHANGED <<bells, taskVars, woken, prov, emb, token>>

\* t's store goes: its futures are dropped, its outcome set, its bell rung.
End(t, how) ==
    /\ outcome' = [outcome EXCEPT ![t] = how]
    /\ busy' = [busy EXCEPT ![t] = FALSE]
    /\ await' = [await EXCEPT ![t] = {}]

\* Task::finish.
GuestFinishes ==
    /\ GuestRuns
    /\ End(Top.task, "done")
    /\ RingBy(Top.task, {})
    /\ Return(Top.budget, FALSE)
    /\ UNCHANGED prov

\* Variant: the kill does not ring the child's bell.
GuestKills_Silent(k) ==
    /\ GuestRuns
    /\ k \in KidSet(Top.task) /\ Running(k)
    /\ End(k, "killed")
    /\ UNCHANGED <<bells, woken, token, parked, carried, prov, stack, emb>>

\* eo9:exec/task.kill, kill_in_place: a finished child keeps its outcome.
GuestKills(k) ==
    /\ GuestRuns
    /\ k \in KidSet(Top.task) /\ Running(k)
    /\ End(k, "killed")
    /\ RingBy(k, {})
    /\ UNCHANGED <<parked, carried, prov, stack, emb>>

GuestWaits ==
    /\ In("futures") /\ Top.todo = <<>> /\ ~busy[Top.task]
    /\ SetTop([Top EXCEPT !.pc = "pending"])
    /\ UNCHANGED <<bells, taskVars, busy, await, woken, prov, emb, token>>

\* Pending: a ring since the take costs a quantum, no ring means blocked.
Pending ==
    /\ In("pending")
    /\ rung' = [rung EXCEPT ![Top.task] = FALSE]
    /\ IF ~rung[Top.task] THEN Return(Top.budget, TRUE)
       ELSE IF Top.budget - 1 < 1 THEN Return(Top.budget - 1, FALSE)
       ELSE SetTop(Frame(Top.task, Top.budget - 1)) /\ UNCHANGED <<carried, parked, emb>>
    /\ UNCHANGED <<waiters, outcome, busy, await, woken, prov, token>>

Resume ==
    \/ DriveChild \/ ChildrenAteTheBudget \/ Take
    \/ FutureResolves \/ WaitCheck \/ WaitRegister \/ WaitReobserve
    \/ GuestYields \/ GuestFinishes \/ GuestWaits
    \/ (\E k \in Tasks : GuestSpawns(k) \/ GuestKills(k))
    \/ \E what \in UNION {Uses[t] : t \in Tasks} : GuestAwaits(what)
    \/ Pending

----------------------------------------------------------------------------
(* Provider threads.                                                       *)

\* The operation completes: its future is queued, then its task's bell rung.
Complete(t) ==
    /\ Io \in await[t] \ woken[t] /\ prov[t] = Quiet
    /\ ~\E i \in DOMAIN stack : stack[i].task = t /\ Io \in ToSet(stack[i].todo)
    /\ woken' = [woken EXCEPT ![t] = @ \cup {Io}]
    /\ prov' = [prov EXCEPT ![t] = [bell |-> t, pc |-> "store"]]
    /\ UNCHANGED <<bells, taskVars, busy, await, stack, emb, token>>

\* Doorbell::ring on the provider's thread: store, then drain and wake.
RingStore(t) ==
    /\ prov[t] # Quiet /\ prov[t].pc = "store"
    /\ rung' = [rung EXCEPT ![prov[t].bell] = TRUE]
    /\ prov' = [prov EXCEPT ![t].pc = "drain"]
    /\ UNCHANGED <<waiters, taskVars, busy, await, woken, stack, emb, token>>

RingDrain(t) ==
    /\ prov[t] # Quiet /\ prov[t].pc = "drain"
    /\ LET b == prov[t].bell IN
         /\ token' = (token \/ Thread \in waiters[b])
         /\ waiters' = [waiters EXCEPT ![b] = {}]
         /\ IF Wakes(b)
            THEN /\ woken' = [woken EXCEPT ![Parent[b]] = @ \cup {b}]
                 /\ prov' = [prov EXCEPT ![t] = [bell |-> Parent[b], pc |-> "store"]]
            ELSE prov' = [prov EXCEPT ![t] = Quiet] /\ UNCHANGED woken
    /\ UNCHANGED <<rung, taskVars, busy, await, stack, emb>>

DriveNext ==
    \/ Embedder \/ Resume
    \/ \E t \in Tasks : Complete(t) \/ RingStore(t) \/ RingDrain(t)

DriveSpec == DriveInit /\ [][DriveNext]_driveVars

\* The embedder thread runs whenever it can, and a provider thread that has
\* begun to ring finishes; i/o itself may take forever.
DriveFairness == /\ WF_driveVars(Embedder \/ Resume)
                 /\ \A t \in Tasks : WF_driveVars(RingStore(t) \/ RingDrain(t))
FairDriveSpec == DriveSpec /\ DriveFairness

----------------------------------------------------------------------------
(* Properties.                                                             *)

\* The type invariant.
DriveTypeOK ==
    /\ rung \in [Tasks -> BOOLEAN] /\ parked \in [Tasks -> BOOLEAN]
    /\ busy \in [Tasks -> BOOLEAN]
    /\ waiters \in [Tasks -> SUBSET (Tasks \cup {Thread})]
    /\ outcome \in [Tasks -> {"unborn", "running", "done", "killed"}]
    /\ carried \in [Tasks -> 0 .. BudgetMax]
    /\ \A t \in Tasks : await[t] \subseteq {Io} \cup KidSet(t)
    /\ \A i \in DOMAIN stack : stack[i].budget \in 0 .. BudgetMax
    /\ emb \in {"resume", "observe", "register", "reobserve", "park", "stop"}

\* A task the embedder thread is responsible for: the root, and every child
\* that a running, attended parent waits for.
Attends(ts) == Root \in ts /\ \A p \in ts : Running(p) => await[p] \ {Io} \subseteq ts
Attended(t) == \A ts \in SUBSET Tasks : Attends(ts) => t \in ts

\* No lost wakeup: once every provider thread is quiet, the embedder thread
\* stays parked only if nothing it is responsible for could run: no attended
\* task has been rung, has a completed operation or waits for an ended child.
\* (poll_edge's protocol, for the whole chain of bells and the park.)
NoLostWakeup ==
    (Idle("park") /\ ~token /\ \A t \in Tasks : prov[t] = Quiet) =>
        \A t \in Tasks : Attended(t) /\ Running(t) =>
            /\ ~IsRunnable(t)
            /\ woken[t] \cap await[t] = {}
            /\ \A k \in await[t] \ {Io} : Running(k)

Unseen(t) == Attended(t) /\ Running(t) /\ Io \in woken[t]

\* A completed operation of an attended task reaches its guest (resume).
CompletionIsSeen == \A t \in Tasks : Unseen(t) ~> ~Unseen(t)

\* A child that has ended while a guest waits for it (the wait host function,
\* finish and kill_in_place).
Unreaped(t) == Attended(t) /\ t # Root /\ ~Running(t)
=============================================================================
