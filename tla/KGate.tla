------------------------------- MODULE KGate -------------------------------
(***************************************************************************)
(* The kernel's call gate and the service that owns its share:             *)
(* wasm/gate.rs and wasm/svc.rs.  Children with a grant enqueue calls on   *)
(* the share; the owner's intake drains them and runs them as concurrent   *)
(* calls inside the owner's store; the run of the owner ends by a trap or  *)
(* by stop, and its restart policy decides what follows.                   *)
(*                                                                         *)
(* The poll of a service runs no other guest, so it is atomic here.  The   *)
(* poll of a child may run others: a sliced compile inside it drives the   *)
(* rest of the machine, a synchronous getter polls the owner.  A child     *)
(* whose run is over meanwhile is marked killed and runs on until its poll *)
(* returns; only then are its store, its calls and its grant dropped, the  *)
(* grant by its index, whoever has that by then.  Which of two such polls  *)
(* goes on first is left open.  An owner-side handle is what it is and the *)
(* child it was made for.                                                  *)
(***************************************************************************)
EXTENDS Naturals, Sequences, FiniteSets, FiniteSetsExt

CONSTANTS Kids,       \* the children spawned with an eo9:net/l4 import
          MaxCalls,   \* bound: gate calls made in a boot
          MaxRuns     \* bound: runs of the owner in a boot

ASSUME KGateAssumption == MaxCalls \in Nat /\ MaxRuns \in Nat /\ IsFiniteSet(Kids)

VARIABLES svcRun,      \* SRun: none (cleared), running, waiting-restart, finished
          runs,        \* history: runs of the owner so far
          open,        \* the share is wired to its owner, not severed
          queue, live, \* Share::queue and Share::live; the intake takes all that is queued
          intakeWaker, ownerRung,
          grants,      \* Share::grants: NoGrant or [task, table]
          inFlight,    \* the calls the intake of this run holds
          call,        \* the calls made, by id
          kid,         \* each child: "out" while its poll runs others, "ending" when
                       \* it has been killed meanwhile
          grantOf, holds, \* its grant id, its handles
          bornIn,      \* history: the owner's run a child's grant was minted in
          outlived,    \* history: the children that ran on when their owner's run was over
          disturbed    \* history: the children whose table another child took from

share == <<open, queue, live, intakeWaker, ownerRung, grants, inFlight>>
outliving == <<outlived, disturbed>>
children == <<kid, grantOf, holds, bornIn>>
gateVars == <<svcRun, runs, share, call, children, outliving>>

NoGrant == [task |-> "none", table |-> <<>>]
NoHandle == [what |-> "none", of |-> "none"]
Handler(k) == [what |-> "handler", of |-> k]
Socket(k) == [what |-> "socket", of |-> k]
Calls == 1 .. Len(call)
Unanswered == {"enqueued", "getting", "calling"}
Lives(k) == kid[k] \in {"alive", "out"}
RunsOn(k) == Lives(k) \/ kid[k] = "ending"

GateInit ==
    /\ svcRun = "none" /\ runs = 0
    /\ open = FALSE /\ queue = {} /\ live = {} /\ grants = <<>> /\ inFlight = {}
    /\ intakeWaker = FALSE /\ ownerRung = FALSE
    /\ call = <<>>
    /\ kid = [k \in Kids |-> "unborn"] /\ grantOf = [k \in Kids |-> 0]
    /\ holds = [k \in Kids |-> {}] /\ bornIn = [k \in Kids |-> 0]
    /\ outlived = {} /\ disturbed = {}

----------------------------------------------------------------------------
(* The owner's run: detach, its end, the restart policy, stop, clear.      *)

\* wire_owner: a fresh run opens the share with no calls and no grants.
WireOwner ==
    /\ open' = TRUE /\ queue' = {} /\ live' = {} /\ grants' = <<>> /\ inFlight' = {}
    /\ intakeWaker' = FALSE /\ ownerRung' = TRUE /\ runs' = runs + 1

Severs == queue \cup live
\* Variant: the children keep running without their provider.
Cascades_Nobody == {}

\* The children whose grants name a task.
Cascades == {grants[g].task : g \in {h \in DOMAIN grants : grants[h] # NoGrant}}

\* on_owner_run_ended: sever every unfinished call, forget the grants, kill the
\* children that hold them; one that is checked out runs on.
SeverCalls == call' = [c \in Calls |->
    IF c \in Severs /\ call[c].state # "done" THEN [call[c] EXCEPT !.state = "severed"] ELSE call[c]]
KillGated ==
    /\ kid' = [k \in Kids |-> IF k \notin Cascades THEN kid[k]
                              ELSE IF kid[k] \in {"out", "ending"} THEN "ending" ELSE "dead"]
    /\ outlived' = outlived \cup {k \in Kids : RunsOn(k)'}
CloseShare == open' = FALSE /\ queue' = {} /\ live' = {} /\ grants' = <<>>
              /\ inFlight' = {} /\ intakeWaker' = FALSE /\ ownerRung' = FALSE
EndShare == IF open THEN SeverCalls /\ KillGated ELSE UNCHANGED <<call, kid, outlived>>

\* host_detach of the share's owner (a name that is not taken).
Detach ==
    /\ svcRun = "none" /\ runs < MaxRuns
    /\ svcRun' = "running" /\ WireOwner
    /\ UNCHANGED <<call, children, outliving>>

\* complete_run: the owner's store failed.  Sever first, then ask the policy.
OwnerTraps ==
    /\ svcRun = "running"
    /\ EndShare
    /\ \/ svcRun' \in {"finished", "waiting"} /\ CloseShare /\ UNCHANGED runs
       \/ runs < MaxRuns /\ svcRun' = "running" /\ WireOwner
    /\ UNCHANGED <<grantOf, holds, bornIn, disturbed>>

\* respawn, when the delay of a delayed restart is over; it may fail.
RestartIsDue ==
    /\ svcRun = "waiting"
    /\ \/ svcRun' = "finished" /\ UNCHANGED <<runs, share>>
       \/ runs < MaxRuns /\ svcRun' = "running" /\ WireOwner
    /\ UNCHANGED <<call, children, outliving>>

\* host_stop, and stop_all_and_report when the machine powers off.
Stop ==
    /\ svcRun # "none"
    /\ svcRun' = "finished"
    /\ EndShare /\ (IF open THEN CloseShare ELSE UNCHANGED share)
    /\ UNCHANGED <<runs, grantOf, holds, bornIn, disturbed>>

\* services.clear drops the record of a finished service.
ClearRecord ==
    /\ svcRun = "finished" /\ svcRun' = "none"
    /\ UNCHANGED <<runs, share, call, children, outliving>>

----------------------------------------------------------------------------
(* The intake, inside the owner's store.                                   *)

HasGrant(g) == g \in DOMAIN grants /\ grants[g] # NoGrant
\* table_entry: table indices are the child's handle reps, 0 is the handler.
Entry(g, rep) == IF HasGrant(g) /\ rep + 1 \in DOMAIN grants[g].table
                 THEN grants[g].table[rep + 1] ELSE NoHandle
\* Variant: an answer overwrites the last entry.
EnterAt_Last(g) == Len(grants[g].table)

\* table_enter: the first empty index, or a new one.
EnterAt(g) ==
    LET table == grants[g].table
        empty == {i \in DOMAIN table : table[i] = NoHandle}
    IN IF empty = {} THEN Len(table) + 1 ELSE Min(empty)
TableEnter(g, h) ==
    LET i == EnterAt(g)
        table == grants[g].table IN
    grants' = [grants EXCEPT ![g].table =
        [j \in 1 .. (IF i > Len(table) THEN i ELSE Len(table)) |-> IF j = i THEN h ELSE table[j]]]

\* build_call_future: what a drained call becomes.
Started(c) ==
    LET handler == Entry(call[c].grant, 0) IN
    IF call[c].op = "root"
    THEN IF handler = NoHandle THEN [call[c] EXCEPT !.state = "getting"]
         ELSE [call[c] EXCEPT !.state = "calling", !.on = handler]
    ELSE IF Entry(call[c].grant, call[c].rep) = NoHandle THEN [call[c] EXCEPT !.state = "severed"]
         ELSE [call[c] EXCEPT !.state = "calling", !.on = Entry(call[c].grant, call[c].rep)]

\* The owner is polled, in its pass or by a child's synchronous getter: the
\* intake leaves its waker and starts everything queued.
IntakeDrains ==
    /\ svcRun = "running" /\ (ownerRung \/ queue # {})
    /\ LET drained == queue
           refused == {c \in drained : Started(c).state = "severed"} IN
       /\ call' = [c \in Calls |-> IF c \in drained THEN Started(c) ELSE call[c]]
       /\ inFlight' = inFlight \cup (drained \ refused)
       /\ live' = live \ refused
    /\ queue' = {} /\ intakeWaker' = TRUE /\ ownerRung' = FALSE
    /\ UNCHANGED <<svcRun, runs, open, grants, children, outliving>>

Polled(c) == svcRun = "running" /\ queue = {} /\ c \in inFlight
Finish(c, state) ==
    /\ call' = [call EXCEPT ![c].state = state]
    /\ inFlight' = inFlight \ {c} /\ live' = live \ {c}

\* The factory's get answers: the handler goes into table entry 0.
FactoryGives(c) ==
    /\ Polled(c) /\ call[c].state = "getting"
    /\ LET g == call[c].grant
           h == Handler(call[c].kid) IN
       /\ call' = [call EXCEPT ![c].state = "calling", ![c].on = h]
       /\ grants' = IF HasGrant(g) THEN [grants EXCEPT ![g].table[1] = h] ELSE grants
    /\ UNCHANGED <<svcRun, runs, open, queue, live, intakeWaker, ownerRung, inFlight, children, outliving>>

\* ... or refuses.
FactoryRefuses(c) ==
    /\ Polled(c) /\ call[c].state = "getting"
    /\ Finish(c, "severed")
    /\ UNCHANGED <<svcRun, runs, open, queue, intakeWaker, ownerRung, grants, children, outliving>>

\* A call that makes a handle (connect, listen, bind-udp, accept) returns it.  A
\* root call on a handle that is not the handler fails inside the owner.
CallMakesHandle(c) ==
    /\ Polled(c) /\ call[c].state = "calling"
    /\ LET g == call[c].grant IN
       IF HasGrant(g) /\ (call[c].op = "root" => call[c].on.what = "handler")
       THEN /\ TableEnter(g, Socket(call[c].kid))
            /\ call' = [call EXCEPT ![c].state = "done", ![c].rep = EnterAt(g) - 1]
            /\ inFlight' = inFlight \ {c} /\ live' = live \ {c}
       ELSE Finish(c, "severed") /\ UNCHANGED grants
    /\ UNCHANGED <<svcRun, runs, open, queue, intakeWaker, ownerRung, children, outliving>>

\* Any other call, or a typed error: the answer holds no handle.
CallAnswers(c) ==
    /\ Polled(c) /\ call[c].state = "calling"
    /\ Finish(c, "answered")
    /\ UNCHANGED <<svcRun, runs, open, queue, intakeWaker, ownerRung, grants, children, outliving>>

----------------------------------------------------------------------------
(* The children.  What a child does it does while it is polled: also while *)
(* its poll is the one that outlives its run.                              *)

\* spawn_child with mint_console_grant and bind_grant_task; refused while severed.
MintAt == IF {g \in DOMAIN grants : grants[g] = NoGrant} = {} THEN Len(grants) + 1
          ELSE Min({g \in DOMAIN grants : grants[g] = NoGrant})
SpawnKid(k) ==
    /\ kid[k] = "unborn" /\ open
    /\ kid' = [kid EXCEPT ![k] = "alive"] /\ grantOf' = [grantOf EXCEPT ![k] = MintAt]
    /\ bornIn' = [bornIn EXCEPT ![k] = runs]
    /\ LET fresh == [task |-> k, table |-> <<NoHandle>>] IN
       grants' = IF MintAt > Len(grants) THEN Append(grants, fresh)
                 ELSE [grants EXCEPT ![MintAt] = fresh]
    /\ UNCHANGED <<svcRun, runs, open, queue, live, intakeWaker, ownerRung, inFlight, call, holds, outliving>>

\* Variant: the intake is not rung.
Rings_Never == ownerRung

Rings == ownerRung \/ intakeWaker

\* gate_call and sync_gate_addr, with submit: enqueue and ring the intake.
Submit(k, op, rep) ==
    /\ RunsOn(k) /\ open /\ HasGrant(grantOf[k]) /\ Len(call) < MaxCalls
    /\ call' = Append(call, [kid |-> k, grant |-> grantOf[k], op |-> op, rep |-> rep,
                             state |-> "enqueued", on |-> NoHandle])
    /\ queue' = queue \cup {Len(call) + 1} /\ live' = live \cup {Len(call) + 1}
    /\ ownerRung' = Rings /\ intakeWaker' = FALSE
    /\ UNCHANGED <<svcRun, runs, open, grants, inFlight, children, outliving>>

\* The child's future resolves: done, answered or severed.
TakeAnswer(c) ==
    LET k == call[c].kid IN
    /\ RunsOn(k) /\ call[c].state \in {"done", "answered", "severed"}
    /\ holds' = [holds EXCEPT ![k] = IF call[c].state = "done" THEN @ \cup {call[c].rep} ELSE @]
    /\ call' = [call EXCEPT ![c].state = "taken"]
    /\ UNCHANGED <<svcRun, runs, share, kid, grantOf, bornIn, outliving>>

\* The other children that go by the same grant index.
SameIndex(k) == {j \in Kids \ {k} : Lives(j) /\ grantOf[j] = grantOf[k]}

\* drop_child_handle.
DropKidHandle(k, rep) ==
    /\ RunsOn(k) /\ rep \in holds[k]
    /\ holds' = [holds EXCEPT ![k] = @ \ {rep}]
    /\ IF rep # 0 /\ Entry(grantOf[k], rep) # NoHandle
       THEN /\ grants' = [grants EXCEPT ![grantOf[k]].table[rep + 1] = NoHandle]
            /\ disturbed' = disturbed \cup SameIndex(k)
       ELSE UNCHANGED <<grants, disturbed>>
    /\ UNCHANGED <<svcRun, runs, open, queue, live, intakeWaker, ownerRung, inFlight, call,
                   kid, grantOf, bornIn, outlived>>

\* drive_children has the child checked out, and its poll runs others: a compile
\* in slices, a synchronous getter.
CheckedOut(k) ==
    /\ \/ kid[k] = "alive" /\ kid' = [kid EXCEPT ![k] = "out"]
       \/ kid[k] = "out" /\ kid' = [kid EXCEPT ![k] = "alive"]
    /\ UNCHANGED <<svcRun, runs, share, call, grantOf, holds, bornIn, outliving>>

\* kill_task_tree reaches a child that is checked out: it is only marked.
KilledMidPoll(k) ==
    /\ kid[k] = "out" /\ kid' = [kid EXCEPT ![k] = "ending"]
    /\ UNCHANGED <<svcRun, runs, share, call, grantOf, holds, bornIn, outliving>>

\* Variant: every unanswered call is taken back, the started ones too.
Withdrawn_Unfinished(k) == {c \in Calls : call[c].kid = k /\ call[c].state \in Unanswered}

Withdrawn(k) == {c \in Calls : call[c].kid = k /\ call[c].state = "enqueued"}

\* The child exits, is killed while nobody polls it, or its poll returns after it
\* has been killed: its store is dropped, with its parked futures and its grant.
KidEnds(k) ==
    /\ kid[k] \in {"alive", "ending"}
    /\ kid' = [kid EXCEPT ![k] = "dead"]
    /\ queue' = queue \ Withdrawn(k) /\ live' = live \ Withdrawn(k)
    /\ IF grantOf[k] \in DOMAIN grants
       THEN /\ grants' = [grants EXCEPT ![grantOf[k]] = NoGrant]
            /\ disturbed' = disturbed \cup SameIndex(k)
       ELSE UNCHANGED <<grants, disturbed>>
    /\ UNCHANGED <<svcRun, runs, open, intakeWaker, ownerRung, inFlight, call, grantOf, holds,
                   bornIn, outlived>>

----------------------------------------------------------------------------
\* The eo9:svc host functions of the console.
ConsoleCall == Detach \/ Stop \/ ClearRecord
\* The eo9:net/l4 gate shims of a child.
KidCall(k) ==
    \/ Submit(k, "root", 0)
    \/ \E rep \in holds[k] : Submit(k, "use", rep) \/ DropKidHandle(k, rep)
\* The owner's drive future.
Intake == IntakeDrains \/ \E c \in Calls : FactoryGives(c) \/ FactoryRefuses(c)
                                           \/ CallMakesHandle(c) \/ CallAnswers(c)
GateNext ==
    \/ ConsoleCall \/ OwnerTraps \/ RestartIsDue \/ Intake
    \/ \E k \in Kids : SpawnKid(k) \/ KidCall(k) \/ CheckedOut(k) \/ KilledMidPoll(k) \/ KidEnds(k)
    \/ \E c \in Calls : TakeAnswer(c)

GateSpec == GateInit /\ [][GateNext]_gateVars

----------------------------------------------------------------------------
\* The type of the registry and of the share; a run is open exactly while it runs.
GateTypeOK ==
    /\ svcRun \in {"none", "running", "waiting", "finished"} /\ runs \in 0 .. MaxRuns
    /\ open = (svcRun = "running") /\ intakeWaker \in BOOLEAN /\ ownerRung \in BOOLEAN
    /\ queue \subseteq live /\ live \subseteq Calls /\ inFlight \subseteq live
    /\ kid \in [Kids -> {"unborn", "alive", "out", "ending", "dead"}]
    /\ outlived \subseteq Kids /\ disturbed \subseteq Kids
    /\ grantOf \in [Kids -> 0 .. Cardinality(Kids)] /\ bornIn \in [Kids -> 0 .. MaxRuns]

\* A call that waits for its answer, also that of a killed child whose poll has
\* not returned, is where something will answer it: queued at an open share whose
\* owner has been rung, or held by the intake of this run.
NoCallLeftBehind ==
    /\ \A c \in Calls : RunsOn(call[c].kid) /\ call[c].state \in Unanswered =>
          open /\ c \in (IF call[c].state = "enqueued" THEN queue ELSE inFlight)
    /\ queue # {} => ownerRung

\* A grant's table holds handles of its own child only.
TablesBelong ==
    \A g \in DOMAIN grants : \A i \in DOMAIN grants[g].table :
        grants[g].table[i] # NoHandle => grants[g].table[i].of = grants[g].task

\* A gated child lives no longer than the owner's run its grant was minted in,
\* and whatever a dead child left behind, a handle rep a child holds is its own.
\* Save where another child that goes by the same index took from the table: the
\* first to be able to is one that ran on when the run of the owner was over.
GrantsAreTheirOwn ==
    /\ \A k \in Kids \ disturbed : Lives(k) =>
         /\ open /\ bornIn[k] = runs
         /\ \A rep \in holds[k] : rep # 0 /\ Entry(grantOf[k], rep) = Socket(k)
    /\ disturbed # {} => outlived # {}
=============================================================================
