------------------------------- MODULE KTasks -------------------------------
(***************************************************************************)
(* The kernel's task registry and executor: wasm/shellexec.rs (CHILDREN,   *)
(* drive_children, kill_task_tree, the eo9:exec/task host functions),      *)
(* wasm/mod.rs (idle wakers, the park gate, idle_wait), wasm/shell.rs (the *)
(* session drive loop) and wasm/fibercompile.rs (the scheduling passes run *)
(* from inside a compile).                                                 *)
(*                                                                         *)
(* One core polls everything, so `stack` is the whole control state: the   *)
(* polls and passes in progress, innermost first.  Only the input          *)
(* interrupt and the clock are concurrent with it.                         *)
(* A program is a future with at most one pending host future (wait,       *)
(* read-line, sleep); wasmtime polls that future again only once its waker *)
(* has been rung.  Program 0 is the root, which is not in the registry.    *)
(***************************************************************************)
EXTENDS Naturals, Sequences, FiniteSets, SequencesExt, FiniteSetsExt

CONSTANTS SlotCount,      \* registry slots
          LiveCap,        \* MAX_LIVE_CHILDREN
          MaxPrograms,    \* bound: programs spawned in a session
          MaxKeys,        \* bound: console input events
          RootIsConsole   \* TRUE: boot_to_eosh; FALSE: boot_to_init

ASSUME KTasksAssumption ==
    /\ SlotCount \in Nat \ {0} /\ LiveCap \in Nat \ {0} /\ MaxPrograms \in Nat
    /\ MaxKeys \in Nat /\ RootIsConsole \in BOOLEAN

KSlots == 1 .. SlotCount
Programs == 1 .. MaxPrograms
Guests == 0 .. MaxPrograms
NoTask == 0          \* an empty registry slot, and CURRENT_PARENT = u32::MAX
Key == "key"
CtrlC == "ctrl-c"

VARIABLES slot,        \* CHILDREN: none, running, polling, done
          prog,        \* the program whose drive future the slot holds or lent out
          parents,     \* PARENTS: a slot, or NoTask for the root
          curParent,   \* CURRENT_PARENT
          waitWakers,  \* WAIT_WAKERS: slot -> guests
          completionRung, idleWakers, passWakers,
          timer,       \* sleepers NEXT_TIMER_WAKE_NS is no later than
          inputEdge, rxRing, keys,
          guest,       \* what each program's main is doing
          waitsOn,     \* the task it waits for
          handles,     \* the task handles it owns
          rung,        \* guests whose pending future was woken since its last poll
          due,         \* sleepers whose deadline has passed
          stack,
          at,          \* the session loop around the stack
          armed,       \* sleepers the halted core's timer covers
          father, killed   \* history: who spawned a program, which were killed

registry == <<slot, prog, parents>>
wakers == <<waitWakers, completionRung, idleWakers, passWakers, timer>>
input == <<inputEdge, rxRing, keys>>
guests == <<guest, waitsOn, handles, due>>
history == <<father, killed>>
tasksVars == <<registry, curParent, wakers, input, guests, rung, stack, at, armed, history>>

Top == Head(stack)
In(kind) == stack # <<>> /\ Top.kind = kind
\* The program being polled; with code to run; with a future to poll again.
Turn(p) == In("poll") /\ Top.who = p
Executes(p) == Turn(p) /\ guest[p] = "busy"
Repolls(p, what) == Turn(p) /\ Top.go /\ guest[p] = what
\* A poll hands out a fresh waker; wasmtime re-polls the pending future if rung.
Poll(p, i) == [kind |-> "poll", who |-> p, slot |-> i, go |-> guest[p] = "busy" \/ p \in rung]
Pass(isTop) == [kind |-> "pass", next |-> 1, top |-> isTop, hot |-> FALSE]
Pump(saved) == [kind |-> "pump", saved |-> saved]

Live(i) == slot[i] \in {"running", "polling"}
Gone(p) == guest[p] \in {"unborn", "gone"}

TasksInit ==
    /\ slot = [i \in KSlots |-> "none"] /\ prog = [i \in KSlots |-> NoTask]
    /\ parents = [i \in KSlots |-> NoTask] /\ curParent = NoTask
    /\ waitWakers = [i \in KSlots |-> {}] /\ completionRung = FALSE
    /\ idleWakers = {} /\ passWakers = {} /\ timer = {}
    /\ inputEdge = FALSE /\ rxRing = <<>> /\ keys = 0
    /\ guest = [p \in Guests |-> IF p = 0 THEN "busy" ELSE "unborn"]
    /\ waitsOn = [p \in Guests |-> NoTask] /\ handles = [p \in Guests |-> {}]
    /\ rung = {} /\ due = {} /\ stack = <<>> /\ at = "root" /\ armed = {}
    /\ father = [p \in Guests |-> 0] /\ killed = {}

----------------------------------------------------------------------------
(* The session loop: poll the root, run a pass, stay hot or idle.          *)

PollRoot ==
    /\ stack = <<>> /\ at = "root"
    /\ stack' = <<Poll(0, NoTask)>>
    /\ rung' = rung \ {0}
    /\ UNCHANGED <<registry, curParent, wakers, input, guests, at, armed, history>>

\* drive_children begins on a fresh list of pass wakers.
BeginPass ==
    /\ stack = <<>> /\ at = "pass"
    /\ stack' = <<Pass(TRUE)>>
    /\ passWakers' = {}
    /\ UNCHANGED <<registry, curParent, waitWakers, completionRung, idleWakers, timer,
                   input, guests, rung, at, armed, history>>

\* wake_idle: ring every parked host future and consume the input edge.
WakeIdle ==
    /\ rung' = rung \cup idleWakers
    /\ idleWakers' = {} /\ inputEdge' = FALSE

\* Variant: a child that is checked out further up the stack is polled again.
NextRunnable_CheckedOut(n) == {i \in KSlots : i >= n /\ Live(i)}

NextRunnable(n) == {i \in KSlots : i >= n /\ slot[i] = "running"}

\* Check the next running child out of the registry and poll it unlocked.
CheckOut ==
    /\ In("pass") /\ NextRunnable(Top.next) # {}
    /\ LET i == Min(NextRunnable(Top.next)) IN
       /\ slot' = [slot EXCEPT ![i] = "polling"]
       /\ curParent' = i
       /\ stack' = <<Poll(prog[i], i), [Top EXCEPT !.next = i + 1]>> \o Tail(stack)
       /\ rung' = rung \ {prog[i]}
    /\ UNCHANGED <<prog, parents, wakers, input, guests, at, armed, history>>

\* Variant: a completion does not keep the loop hot.
PassIsHot_PollsOnly == Top.hot

\* A completion may have rung a waiter that was polled earlier in the pass.
PassIsHot == Top.hot \/ completionRung

\* The end of the session's pass.  A hot loop delivers the events that are due.
EndPass ==
    /\ In("pass") /\ NextRunnable(Top.next) = {} /\ Len(stack) = 1
    /\ stack' = <<>>
    /\ completionRung' = FALSE
    /\ LET fired == timer \cap due # {} IN
       /\ at' = IF PassIsHot THEN "root" ELSE "idle"
       /\ timer' = IF PassIsHot /\ fired THEN {} ELSE timer
       /\ IF PassIsHot /\ (fired \/ inputEdge) THEN WakeIdle
          ELSE UNCHANGED <<rung, idleWakers, inputEdge>>
    /\ UNCHANGED <<registry, curParent, waitWakers, passWakers, rxRing, keys, guests, armed, history>>

\* The end of a pass run by a compile: its status is dropped, the marker of the
\* interrupted poll comes back, every parked future is woken.
EndPump ==
    /\ In("pass") /\ NextRunnable(Top.next) = {} /\ Len(stack) > 1
    /\ completionRung' = (completionRung /\ ~Top.top)
    /\ curParent' = stack[2].saved
    /\ stack' = SubSeq(stack, 3, Len(stack))
    /\ WakeIdle
    /\ UNCHANGED <<registry, waitWakers, passWakers, timer, rxRing, keys, guests, at, armed, history>>

----------------------------------------------------------------------------
(* idle_wait: the park gate, the masked re-check, the halt and its end.    *)

ParkGate ==
    /\ stack = <<>> /\ at = "idle"
    /\ IF passWakers \cap rung # {} \/ inputEdge
       THEN at' = "root" /\ WakeIdle
       ELSE at' = "masked" /\ UNCHANGED <<rung, idleWakers, inputEdge>>
    /\ UNCHANGED <<registry, curParent, waitWakers, completionRung, passWakers, timer, rxRing,
                   keys, guests, stack, armed, history>>

\* Variant: the edge is not looked at again once interrupts are masked.
MaskedCheck_Skipped == FALSE

MaskedCheck == inputEdge

\* The halt: for an overdue deadline, or until the earlier of the requested and
\* the maintenance deadline.
Halt ==
    /\ stack = <<>> /\ at = "masked"
    /\ IF MaskedCheck
       THEN at' = "root" /\ WakeIdle /\ UNCHANGED <<timer, armed>>
       ELSE /\ at' = IF timer \cap due = {} THEN "halted" ELSE "ending"
            /\ armed' = timer /\ timer' = {}
            /\ UNCHANGED <<rung, idleWakers, inputEdge>>
    /\ UNCHANGED <<registry, curParent, waitWakers, completionRung, passWakers, rxRing, keys,
                   guests, stack, history>>

\* An input interrupt or an expired requested deadline ends the halt.
WakeOnEvent ==
    /\ at = "ending" \/ (at = "halted" /\ armed \cap due # {})
    /\ at' = "root" /\ armed' = {} /\ WakeIdle
    /\ UNCHANGED <<registry, curParent, waitWakers, completionRung, passWakers, timer, rxRing,
                   keys, guests, stack, history>>

\* A maintenance deadline ends it, and rings nobody but for an edge.  The requested deadline is
\* published again, but only if it is still in the future when the core is up.
WakeOnMaintenance ==
    /\ at = "halted"
    /\ at' = "root" /\ armed' = {}
    /\ timer' = IF armed \cap due = {} THEN timer \cup armed ELSE timer
    /\ IF inputEdge THEN WakeIdle ELSE UNCHANGED <<rung, idleWakers, inputEdge>>
    /\ UNCHANGED <<registry, curParent, waitWakers, completionRung, passWakers, rxRing, keys,
                   guests, stack, history>>

\* The interrupt is serviced at once; only one taken during the halt ends it.
KeyArrives(k) ==
    /\ keys < MaxKeys /\ at # "over"
    /\ keys' = keys + 1 /\ rxRing' = Append(rxRing, k) /\ inputEdge' = TRUE
    /\ at' = IF at = "halted" THEN "ending" ELSE at
    /\ UNCHANGED <<registry, curParent, wakers, guests, rung, stack, armed, history>>

DeadlinePasses(p) ==
    /\ guest[p] = "sleep" /\ p \notin due
    /\ due' = due \cup {p}
    /\ UNCHANGED <<registry, curParent, wakers, input, guest, waitsOn, handles, rung, stack, at,
                   armed, history>>

----------------------------------------------------------------------------
(* What a program does while it is polled: the eo9:exec/task host          *)
(* functions, read-line, sleep and compile.                                *)

\* is_descendant_of: walk PARENTS for at most the length of the registry.
Descends(j, i) ==
    LET up[n \in KSlots] == IF n = 1 THEN {parents[j]}
                            ELSE up[n-1] \cup {parents[k] : k \in up[n-1] \ {NoTask}}
    IN i \in up[SlotCount]
Doomed(i) == {j \in KSlots : Live(j) /\ (j = i \/ Descends(j, i))}

\* Variant: a completion leaves its waiters parked.
RingWaiters_Silent(done) == UNCHANGED <<waitWakers, completionRung, rung>>

\* ring_wait_wakers.
RingWaiters(done) ==
    LET parked == UNION {waitWakers[i] : i \in done} IN
    /\ rung' = rung \cup parked
    /\ completionRung' = (completionRung \/ parked # {})
    /\ waitWakers' = [i \in KSlots |-> IF i \in done THEN {} ELSE waitWakers[i]]

\* kill_task_tree, by program p.  A checked-out program goes on until its poll
\* returns; the others' stores are dropped here.
KillTree(p, i) ==
    LET dead == Doomed(i)
        dropped == {prog[j] : j \in {d \in dead : slot[d] = "running"}} IN
    /\ slot' = [j \in KSlots |-> IF j \in dead THEN "done" ELSE slot[j]]
    /\ killed' = killed \cup {prog[j] : j \in dead}
    /\ RingWaiters(dead \cup {i})
    /\ guest' = [q \in Guests |-> IF q \in dropped THEN "gone" ELSE IF q = p THEN "busy" ELSE guest[q]]

FreeSlots == {i \in KSlots : slot[i] = "none"}
Spawn(p) ==
    /\ Executes(p)
    /\ Cardinality({i \in KSlots : Live(i)}) < LiveCap /\ FreeSlots # {}
    /\ \E q \in Programs : guest[q] = "unborn"
    /\ LET q == Min({r \in Programs : guest[r] = "unborn"})
           i == Min(FreeSlots) IN
       /\ slot' = [slot EXCEPT ![i] = "running"] /\ prog' = [prog EXCEPT ![i] = q]
       /\ parents' = [parents EXCEPT ![i] = curParent]
       /\ guest' = [guest EXCEPT ![q] = "busy"]
       /\ handles' = [handles EXCEPT ![p] = @ \cup {i}]
       /\ father' = [father EXCEPT ![q] = p]
    /\ UNCHANGED <<curParent, wakers, input, waitsOn, due, rung, stack, at, armed, killed>>

Kill(p, i) ==
    /\ Executes(p) /\ i \in handles[p]
    /\ KillTree(p, i)
    /\ UNCHANGED <<prog, parents, curParent, idleWakers, passWakers, timer, input, waitsOn,
                   handles, due, stack, at, armed, father>>

\* Dropping a handle empties the slot, whatever it held.
DropHandle(p, i) ==
    /\ Executes(p) /\ i \in handles[p]
    /\ slot' = [slot EXCEPT ![i] = "none"] /\ prog' = [prog EXCEPT ![i] = NoTask]
    /\ handles' = [handles EXCEPT ![p] = @ \ {i}]
    /\ guest' = [guest EXCEPT ![prog[i]] = IF slot[i] = "running" THEN "gone" ELSE @]
    /\ UNCHANGED <<parents, curParent, wakers, input, waitsOn, due, rung, stack, at, armed, history>>

Consumes == curParent # NoTask \/ RootIsConsole
Interrupted == Consumes /\ CtrlC \in ToSet(rxRing)
Waits(p, i) == \/ Executes(p) /\ i \in handles[p]
               \/ Repolls(p, "wait") /\ waitsOn[p] = i
Parked(p, how) == /\ guest' = [guest EXCEPT ![p] = how]
                  /\ stack' = <<[Top EXCEPT !.go = FALSE]>> \o Tail(stack)
                  /\ idleWakers' = idleWakers \cup {p}

WaitReturns(p, i) ==
    /\ Waits(p, i) /\ slot[i] = "done"
    /\ guest' = [guest EXCEPT ![p] = "busy"] /\ waitsOn' = [waitsOn EXCEPT ![p] = NoTask]
    /\ UNCHANGED <<registry, curParent, wakers, input, handles, due, rung, stack, at, armed, history>>

\* A consumed Ctrl-C kills the awaited task; input before it is flushed.
WaitIsInterrupted(p, i) ==
    /\ Waits(p, i) /\ Live(i) /\ Interrupted
    /\ LET k == Min({n \in 1 .. Len(rxRing) : rxRing[n] = CtrlC}) IN
       rxRing' = SubSeq(rxRing, k + 1, Len(rxRing))
    /\ KillTree(p, i)
    /\ waitsOn' = [waitsOn EXCEPT ![p] = NoTask]
    /\ UNCHANGED <<prog, parents, curParent, idleWakers, passWakers, timer, inputEdge, keys,
                   handles, due, stack, at, armed, father>>

WaitParks(p, i) ==
    /\ Waits(p, i) /\ Live(i) /\ ~Interrupted
    /\ waitWakers' = [waitWakers EXCEPT ![i] = @ \cup {p}]
    /\ waitsOn' = [waitsOn EXCEPT ![p] = i]
    /\ Parked(p, "wait")
    /\ UNCHANGED <<registry, curParent, completionRung, passWakers, timer, input, handles, due,
                   rung, at, armed, history>>

Reads(p) == (Executes(p) /\ (p = 0 => RootIsConsole)) \/ Repolls(p, "read")

ReadTakes(p) ==
    /\ Reads(p) /\ rxRing # <<>>
    /\ rxRing' = Tail(rxRing) /\ guest' = [guest EXCEPT ![p] = "busy"]
    /\ UNCHANGED <<registry, curParent, wakers, inputEdge, keys, waitsOn, handles, due, rung,
                   stack, at, armed, history>>

ReadParks(p) ==
    /\ Reads(p) /\ rxRing = <<>>
    /\ Parked(p, "read")
    /\ UNCHANGED <<registry, curParent, waitWakers, completionRung, passWakers, timer, input,
                   waitsOn, handles, due, rung, at, armed, history>>

SleepEnds(p) ==
    /\ Repolls(p, "sleep") /\ p \in due
    /\ due' = due \ {p} /\ guest' = [guest EXCEPT ![p] = "busy"]
    /\ UNCHANGED <<registry, curParent, wakers, input, waitsOn, handles, rung, stack, at, armed, history>>

SleepParks(p) ==
    /\ Executes(p) \/ (Repolls(p, "sleep") /\ p \notin due)
    /\ timer' = timer \cup {p}
    /\ Parked(p, "sleep")
    /\ UNCHANGED <<registry, curParent, waitWakers, completionRung, passWakers, input, waitsOn,
                   handles, due, rung, at, armed, history>>

\* Variant: a compile inside a compile runs passes too.
Outermost_Any == TRUE

Outermost == \A n \in 1 .. Len(stack) : stack[n].kind # "pump"

\* One scheduling pass from inside the compile; a nested compile runs none.
Compile(p) ==
    /\ Executes(p) /\ Outermost
    /\ stack' = <<Pass(curParent = NoTask), Pump(curParent)>> \o stack
    /\ passWakers' = IF curParent = NoTask THEN {} ELSE passWakers
    /\ UNCHANGED <<registry, curParent, waitWakers, completionRung, idleWakers, timer, input,
                   guests, rung, at, armed, history>>

----------------------------------------------------------------------------
(* The end of a poll.                                                      *)

\* Variant: the check-in does not ask whether the slot is still lent to it.
StillLent_Always(i) == TRUE

StillLent(i) == slot[i] = "polling"

\* A child's poll returned Pending: check it back in, unless it was killed or
\* its handle dropped, in which case its future is dropped here.
CheckIn(p) ==
    /\ Turn(p) /\ p # 0 /\ (guest[p] = "busy" \/ ~Top.go)
    /\ LET i == Top.slot
           wakes == guest[p] = "busy"       \* a fuel yield rings its own waker
           pass == stack[2]
           lent == StillLent(i) IN
       /\ slot' = [slot EXCEPT ![i] = IF lent THEN "running" ELSE @]
       /\ prog' = [prog EXCEPT ![i] = IF lent THEN p ELSE @]
       /\ guest' = [guest EXCEPT ![p] = IF lent THEN @ ELSE "gone"]
       /\ passWakers' = IF lent THEN passWakers \cup {p} ELSE passWakers
       /\ stack' = <<[pass EXCEPT !.hot = @ \/ (lent /\ (wakes \/ p \in rung))]>>
                   \o SubSeq(stack, 3, Len(stack))
       /\ IF lent
          THEN /\ rung' = IF wakes THEN rung \cup {p} ELSE rung
               /\ UNCHANGED <<waitWakers, completionRung>>
          ELSE RingWaiters({i})
    /\ curParent' = NoTask
    /\ UNCHANGED <<parents, idleWakers, timer, input, waitsOn, handles, due, at, armed, history>>

\* The child's main returned.
Exit(p) ==
    /\ Executes(p) /\ p # 0
    /\ LET i == Top.slot IN
       /\ slot' = [slot EXCEPT ![i] = IF StillLent(i) THEN "done" ELSE @]
       /\ RingWaiters({i})
    /\ guest' = [guest EXCEPT ![p] = "gone"]
    /\ curParent' = NoTask /\ stack' = Tail(stack)
    /\ UNCHANGED <<prog, parents, idleWakers, passWakers, timer, input, waitsOn, handles, due,
                   at, armed, history>>

RootPends ==
    /\ Turn(0) /\ ~Top.go
    /\ stack' = <<>> /\ at' = "pass"
    /\ UNCHANGED <<registry, curParent, wakers, input, guests, rung, armed, history>>

\* The root's main returned: the session is over.
RootExits ==
    /\ Executes(0) /\ stack' = <<>> /\ at' = "over"
    /\ guest' = [guest EXCEPT ![0] = "gone"] /\ passWakers' = {}
    /\ UNCHANGED <<registry, curParent, waitWakers, completionRung, idleWakers, timer, input,
                   waitsOn, handles, due, rung, armed, history>>
SessionIsOver == at = "over" /\ UNCHANGED tasksVars

----------------------------------------------------------------------------
HostCall(p) ==
    \/ Spawn(p) \/ Compile(p) \/ ReadTakes(p) \/ ReadParks(p) \/ SleepEnds(p) \/ SleepParks(p)
    \/ \E i \in KSlots : \/ Kill(p, i) \/ DropHandle(p, i)
                         \/ WaitReturns(p, i) \/ WaitIsInterrupted(p, i) \/ WaitParks(p, i)
TasksNext ==
    \/ PollRoot \/ BeginPass \/ CheckOut \/ EndPass \/ EndPump
    \/ ParkGate \/ Halt \/ WakeOnEvent \/ WakeOnMaintenance
    \/ \E k \in {Key, CtrlC} : KeyArrives(k)
    \/ \E p \in Guests : HostCall(p) \/ DeadlinePasses(p)
    \/ \E p \in Programs : CheckIn(p) \/ Exit(p)
    \/ RootPends \/ RootExits \/ SessionIsOver

TasksSpec == TasksInit /\ [][TasksNext]_tasksVars

----------------------------------------------------------------------------
\* The type of the registry and of the executor's state; one compile at most has
\* scheduling passes on the kernel stack.
TasksTypeOK ==
    /\ slot \in [KSlots -> {"none", "running", "polling", "done"}]
    /\ prog \in [KSlots -> Guests] /\ parents \in [KSlots -> KSlots \cup {NoTask}]
    /\ curParent \in KSlots \cup {NoTask}
    /\ waitWakers \in [KSlots -> SUBSET Guests] /\ completionRung \in BOOLEAN
    /\ idleWakers \subseteq Guests /\ passWakers \subseteq Guests /\ timer \subseteq Guests
    /\ inputEdge \in BOOLEAN /\ rxRing \in Seq({Key, CtrlC}) /\ keys \in 0 .. MaxKeys
    /\ guest \in [Guests -> {"unborn", "busy", "wait", "read", "sleep", "gone"}]
    /\ waitsOn \in [Guests -> KSlots \cup {NoTask}] /\ handles \in [Guests -> SUBSET KSlots]
    /\ rung \subseteq Guests /\ due \subseteq Guests /\ armed \subseteq Guests
    /\ Cardinality({n \in 1 .. Len(stack) : stack[n].kind = "pump"}) <= 1
    /\ at \in {"root", "pass", "idle", "masked", "halted", "ending", "over"}
    /\ father \in [Guests -> Guests] /\ killed \subseteq Guests

\* A store is entered by one poll at a time, and only while its program lives:
\* no program is on the stack twice, a slot marked Polling is lent to exactly
\* one poll, that of its program, and a program killed under a poll, its own
\* or another's, is never checked back in.
Polls == {n \in 1 .. Len(stack) : stack[n].kind = "poll"}
OneEntry ==
    /\ \A m, n \in Polls : m # n => stack[m].who # stack[n].who
    /\ \A i \in KSlots : slot[i] = "polling" =>
          \E n \in Polls : stack[n].slot = i /\ stack[n].who = prog[i]
    /\ \A i \in KSlots : slot[i] = "running" => prog[i] \notin killed

\* The core never halts on work the event path owes: no guest waits for a task
\* that has ended, or for input that has arrived.
NothingStranded ==
    at = "halted" => \A p \in Guests :
        /\ guest[p] = "wait" => slot[waitsOn[p]] # "done"
        /\ guest[p] = "wait" /\ (p # 0 \/ RootIsConsole) => CtrlC \notin ToSet(rxRing)
        /\ guest[p] = "read" => rxRing = <<>>

\* The core never halts without the timer of a guest that sleeps.
SleepersAreArmed == at = "halted" => \A p \in Guests : guest[p] = "sleep" => p \in armed

\* Killing a task takes its whole tree down: no program runs on whose parent
\* was killed.
NoOrphans == \A i \in KSlots : Live(i) => father[prog[i]] \notin killed
=============================================================================
