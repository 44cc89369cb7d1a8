------------------------------ MODULE Services ------------------------------
(***************************************************************************)
(* The hosted service registry (eo9-runtime/src/svc.rs) in the loop that   *)
(* drives it (eo9/src/run.rs drive_with_services, providers.rs             *)
(* park_until_progress): one embedder thread resumes the foreground task,  *)
(* pumps every service and parks when all of them wait; provider threads   *)
(* ring the foreground, time passes.  A service has no provider but its    *)
(* log, so a blocked one is woken by nobody.  Restart policies are the     *)
(* three of guest/stubs/restart-*; a consultation that fails gives up.     *)
(***************************************************************************)
EXTENDS Naturals, Sequences, SequencesExt, FiniteSetsExt

CONSTANTS SvcNames, Policy,        \* Policy[n]: "never", "always" or "backoff"
          MaxServices,             \* MAX_SERVICES
          MaxRestarts, BaseDelay,  \* the configuration of restart.backoff
          MaxDelay,                \* MAX_DELAY_MS
          Backstop,                \* the longest park
          MaxDetaches, MaxClock,   \* bounds: detaches, time,
          MaxAtOnce                \* restarts of a service whose policy is "always"

ASSUME ServicesAssumption ==
    /\ Policy \in [SvcNames -> {"never", "always", "backoff"}]
    /\ MaxServices \in Nat /\ MaxRestarts \in Nat /\ BaseDelay \in Nat /\ MaxDelay \in Nat
    /\ Backstop \in Nat \ {0} /\ MaxDetaches \in Nat /\ MaxClock \in Nat /\ MaxAtOnce \in Nat

VARIABLES services,   \* the registry: a sequence of records
          clock,
          fg, fgRung, \* the foreground: "busy" or "waiting"; its doorbell
          loop,       \* where the thread is
          next,       \* pump's index
          progressed, outcome,   \* services_progressed; what resume returned
          due,        \* when the park times out
          watching, token,       \* the thread's waker is on the bell; its park token
          detached, started, ended, stopped   \* history, by detach
svcHistory == <<detached, started, ended, stopped>>
parking == <<due, watching, token>>
svcVars == <<services, clock, fg, fgRung, loop, next, progressed, outcome, parking, svcHistory>>

Detaches == 1 .. MaxDetaches
Find(n) == {i \in DOMAIN services : services[i].name = n}
With(i, s) == [services EXCEPT ![i] = s]
Finished(s) == [s EXCEPT !.run = "finished", !.until = 0]
Due(s) == s.run = "waiting" /\ clock >= s.until

ServicesInit ==
    /\ services = <<>> /\ clock = 0
    /\ fg = "busy" /\ fgRung = FALSE
    /\ loop = "head" /\ next = 1 /\ progressed = FALSE /\ outcome = "out-of-fuel"
    /\ due = 0 /\ watching = FALSE /\ token = FALSE
    /\ detached = 0 /\ stopped = {}
    /\ started = [d \in Detaches |-> 0] /\ ended = [d \in Detaches |-> 0]

----------------------------------------------------------------------------
(* The foreground is resumed; while it runs it calls eo9:svc.              *)

FgRuns == loop = "running"

\* detach, past its checks: compiled, the first run spawned, registered.
Detach(n) ==
    /\ FgRuns /\ detached < MaxDetaches
    /\ Find(n) = {} /\ Len(services) < MaxServices
    /\ services' = Append(services, [name |-> n, id |-> detached + 1, run |-> "runnable",
                                     until |-> 0, restarts |-> 0])
    /\ detached' = detached + 1
    /\ started' = [started EXCEPT ![detached + 1] = 1]
    /\ UNCHANGED <<clock, fg, fgRung, loop, next, progressed, outcome, parking, ended, stopped>>

\* Variant: a stop kills the task but leaves a pending restart in place.
Stop_KeepsRestart(n) ==
    /\ FgRuns
    /\ \E i \in Find(n) :
         /\ services' = IF services[i].run = "waiting" THEN services
                        ELSE With(i, Finished(services[i]))
         /\ stopped' = stopped \cup {services[i].id}
    /\ UNCHANGED <<clock, fg, fgRung, loop, next, progressed, outcome, parking, detached,
                   started, ended>>

\* stop: kill in place, or cancel the pending restart.
Stop(n) ==
    /\ FgRuns
    /\ \E i \in Find(n) :
         /\ services' = With(i, Finished(services[i]))
         /\ stopped' = stopped \cup {services[i].id}
    /\ UNCHANGED <<clock, fg, fgRung, loop, next, progressed, outcome, parking, detached,
                   started, ended>>

\* clear: only the record of a finished service.
Clear(n) ==
    /\ FgRuns
    /\ \E i \in Find(n) : services[i].run = "finished" /\ services' = RemoveAt(services, i)
    /\ UNCHANGED <<clock, fg, fgRung, loop, next, progressed, outcome, parking, svcHistory>>

\* The head of the loop: --max-fuel may be used up, and the foreground is killed;
\* a foreground that waits and was not rung stays blocked; otherwise it runs.
FuelBudgetSpent ==
    /\ loop = "head"
    /\ loop' = "over" /\ services' = [i \in DOMAIN services |-> Finished(services[i])]
    /\ UNCHANGED <<clock, fg, fgRung, next, progressed, outcome, parking, svcHistory>>

FgStillWaits ==
    /\ loop = "head" /\ fg = "waiting" /\ ~fgRung
    /\ outcome' = "blocked" /\ loop' = "pump"
    /\ UNCHANGED <<services, clock, fg, fgRung, next, progressed, parking, svcHistory>>

FgResumed ==
    /\ loop = "head" /\ (fg = "busy" \/ fgRung)
    /\ loop' = "running" /\ fg' = "busy" /\ fgRung' = FALSE
    /\ UNCHANGED <<services, clock, next, progressed, outcome, parking, svcHistory>>

\* Variant: the services get their slice only when the foreground waits.
FgReturns_PumpWhenBlocked(how) ==
    /\ FgRuns
    /\ outcome' = how /\ fg' = IF how = "blocked" THEN "waiting" ELSE "busy"
    /\ loop' = IF how = "out-of-fuel" THEN "head" ELSE "pump"
    /\ UNCHANGED <<services, clock, fgRung, next, progressed, parking, svcHistory>>

\* It spends its donation, waits or finishes.
FgReturns(how) ==
    /\ FgRuns
    /\ outcome' = how /\ fg' = IF how = "blocked" THEN "waiting" ELSE "busy"
    /\ loop' = "pump"
    /\ UNCHANGED <<services, clock, fgRung, next, progressed, parking, svcHistory>>

----------------------------------------------------------------------------
(* pump: one service after the other; time passes between them.            *)

\* Variant: the attempts are not counted against the delay and the budget.
Counted_Never(s) == s.restarts

\* service.restarts += 1, whichever kind of restart was ordered.
Counted(s) == s.restarts + 1

\* restart.backoff: base * 2^restarts, capped.
Delay(restarts) == Min({BaseDelay * 2 ^ Min({restarts, 22}), MaxDelay})

\* What becomes of a service whose run ended: the policy's answer, carried out.  A
\* broken consultation and a failed respawn finish it.
AfterRun(s) ==
    {Finished(s)} \cup
    CASE Policy[s.name] = "never" -> {}
      [] Policy[s.name] = "always" ->
           IF s.restarts >= MaxAtOnce THEN {}
           ELSE {[s EXCEPT !.run = "runnable", !.restarts = Counted(s)]}
      [] Policy[s.name] = "backoff" ->
           IF s.restarts >= MaxRestarts THEN {}
           ELSE {[s EXCEPT !.run = "waiting", !.until = clock + Delay(s.restarts),
                           !.restarts = Counted(s)]}

PumpStep(s, didProgress) ==
    /\ services' = With(next, s) /\ next' = next + 1
    /\ progressed' = (progressed \/ didProgress)
    /\ UNCHANGED <<clock, fg, fgRung, loop, outcome, parking, detached, stopped>>
Respawned(s) == started' = [started EXCEPT ![s.id] = IF s.run = "runnable" THEN @ + 1 ELSE @]

PumpRun ==
    /\ loop = "pump" /\ next <= Len(services) /\ services[next].run = "runnable"
    /\ LET s == services[next] IN
       \/ \* OutOfFuel, Blocked
          \E how \in {"runnable", "blocked"} :
            /\ PumpStep([s EXCEPT !.run = how], how = "runnable")
            /\ UNCHANGED <<started, ended>>
       \/ \* Done: record it, ask the policy
          /\ ended' = [ended EXCEPT ![s.id] = clock]
          /\ \E after \in AfterRun(s) : PumpStep(after, TRUE) /\ Respawned(after)

PumpRestart ==
    /\ loop = "pump" /\ next <= Len(services) /\ Due(services[next])
    /\ \E how \in {"runnable", "finished"} :
         LET s == [services[next] EXCEPT !.run = how, !.until = 0] IN PumpStep(s, TRUE) /\ Respawned(s)
    /\ UNCHANGED ended

PumpSkip ==
    /\ loop = "pump" /\ next <= Len(services)
    /\ services[next].run # "runnable" /\ ~Due(services[next])
    /\ PumpStep(services[next], FALSE)
    /\ UNCHANGED <<started, ended>>

\* The loop ends, goes round, or parks when nothing is runnable.
AnyRunnable == \E i \in DOMAIN services : services[i].run = "runnable" \/ Due(services[i])
PumpEnds ==
    /\ loop = "pump" /\ next > Len(services)
    /\ loop' = CASE outcome = "done" -> "over"
                 [] outcome = "blocked" /\ ~progressed /\ ~AnyRunnable -> "park"
                 [] OTHER -> "head"
    /\ services' = IF outcome = "done" THEN [i \in DOMAIN services |-> Finished(services[i])]
                   ELSE services
    /\ next' = 1 /\ progressed' = FALSE /\ outcome' = "out-of-fuel"   \* out of scope
    /\ UNCHANGED <<clock, fg, fgRung, parking, svcHistory>>

----------------------------------------------------------------------------
(* park_until_progress.                                                    *)

\* The foreground's bell: observe, register, observe again.
ParkObserve ==
    /\ loop = "park"
    /\ loop' = IF fgRung THEN "head" ELSE "register"
    /\ UNCHANGED <<services, clock, fg, fgRung, next, progressed, outcome, parking, svcHistory>>

ParkRegister ==
    /\ loop = "register"
    /\ loop' = "observe-again" /\ watching' = TRUE
    /\ UNCHANGED <<services, clock, fg, fgRung, next, progressed, outcome, due, token, svcHistory>>

\* Variant: the second look at the bell is not taken.
ParkObserveAgain_Skipped ==
    /\ loop = "observe-again" /\ loop' = "wakeset"
    /\ UNCHANGED <<services, clock, fg, fgRung, next, progressed, outcome, parking, svcHistory>>

ParkObserveAgain ==
    /\ loop = "observe-again"
    /\ loop' = IF fgRung THEN "head" ELSE "wakeset"
    /\ UNCHANGED <<services, clock, fg, fgRung, next, progressed, outcome, parking, svcHistory>>

\* next_restart_due, capped by the backstop.
Timeout(now) ==
    Min({now + Backstop} \cup {services[i].until : i \in {j \in DOMAIN services : services[j].run = "waiting"}})

\* The services and the restart deadline, under one lock.
ParkServices ==
    /\ loop = "wakeset"
    /\ IF AnyRunnable THEN loop' = "head" /\ UNCHANGED due
       ELSE loop' = "parked" /\ due' = Timeout(clock)
    /\ UNCHANGED <<services, clock, fg, fgRung, next, progressed, outcome, watching, token, svcHistory>>

\* park_timeout returns; the token is used up, the waker stays on the bell.
Unpark ==
    /\ loop = "parked" /\ (token \/ clock >= due)
    /\ loop' = "head" /\ token' = FALSE /\ due' = 0
    /\ UNCHANGED <<services, clock, fg, fgRung, next, progressed, outcome, watching, svcHistory>>

\* A provider thread rings the waiting foreground.
FgCompletion ==
    /\ loop # "over" /\ fg = "waiting" /\ ~fgRung
    /\ fgRung' = TRUE
    /\ token' = (token \/ watching) /\ watching' = FALSE
    /\ UNCHANGED <<services, clock, fg, loop, next, progressed, outcome, due, svcHistory>>

Tick ==
    /\ clock < MaxClock /\ clock' = clock + 1
    /\ UNCHANGED <<services, fg, fgRung, loop, next, progressed, outcome, parking, svcHistory>>

DriveLoop ==
    \/ FgStillWaits \/ FgResumed \/ \E how \in {"out-of-fuel", "blocked", "done"} : FgReturns(how)
    \/ PumpRun \/ PumpRestart \/ PumpSkip \/ PumpEnds
    \/ ParkObserve \/ ParkRegister \/ ParkObserveAgain \/ ParkServices \/ Unpark
SvcCalls == \E n \in SvcNames : Detach(n) \/ Stop(n) \/ Clear(n)

ServicesNext == DriveLoop \/ SvcCalls \/ FgCompletion \/ Tick \/ FuelBudgetSpent

\* The embedder thread keeps running; nothing is assumed of guests, providers
\* or the clock.
ServicesFairness == WF_svcVars(DriveLoop)
ServicesSpec == ServicesInit /\ [][ServicesNext]_svcVars /\ ServicesFairness

----------------------------------------------------------------------------
SvcTypeOK ==
    /\ Len(services) <= MaxServices
    /\ \A i \in DOMAIN services : services[i].run \in {"runnable", "blocked", "waiting", "finished"}
    /\ \A i, j \in DOMAIN services : services[i].name = services[j].name => i = j
    /\ clock \in 0 .. MaxClock /\ fg \in {"busy", "waiting"}
    /\ loop \in {"head", "running", "pump", "park", "register", "observe-again", "wakeset",
                "parked", "over"}
    /\ (loop = "pump" => next <= Len(services) + 1)

\* A service is run again only when it may be. "Stop means stop": not once the
\* operator has stopped it, whether it was running, waiting for its restart or
\* about to be judged by its policy. And restart.backoff's promise, across
\* pumps, parks and failed answers: the n-th restart comes no earlier than
\* base * 2^(n-1) (capped) after the run before it ended, and there are at most
\* max-restarts of them.
RestartsAreAllowed ==
    [][/\ \A d \in stopped : started'[d] = started[d]
       /\ \A i \in DOMAIN services :
            LET d == services[i].id IN
            Policy[services[i].name] = "backoff" /\ started'[d] > started[d] =>
                started[d] <= MaxRestarts /\ clock >= ended[d] + Delay(started[d] - 1)]_svcVars

\* A restart that has fallen due happens, is cancelled or fails: neither a busy
\* foreground nor a park can put it off for ever.
DueRestartsHappen ==
    \A d \in Detaches :
        LET Waits == \E i \in DOMAIN services : services[i].id = d /\ Due(services[i])
        IN Waits ~> ~Waits

\* A completion reaches the foreground, also beside a service that restarts
\* at once whenever it ends, and when it comes just before the park.
ForegroundIsServed == fgRung ~> (~fgRung \/ loop = "over")

\* The drive loop serves both: a restart that is due, and the foreground.
ServedInTime == DueRestartsHappen /\ ForegroundIsServed
=============================================================================
