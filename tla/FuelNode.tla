----------------------------- MODULE FuelNode ------------------------------
(***************************************************************************)
(* What a scheduler node promises about CPU budgets and task lifetimes,    *)
(* without a run queue and without accounts: fuel enters from outside, is  *)
(* burned by a live task or handed back, and is never created; a task is   *)
(* live once and finished once, and its id never names another task.       *)
(***************************************************************************)
EXTENDS Integers

CONSTANTS Ids, Limit

VARIABLES held,     \* fuel inside the node
          consumed, \* fuel burned or handed back, lifetime
          received, \* fuel donated to the node, lifetime
          life      \* id -> "unused", "live", "finished" or "gone"

vars == <<held, consumed, received, life>>

Init == /\ held = 0 /\ consumed = 0 /\ received = 0
        /\ life = [i \in Ids |-> "unused"]

\* The node never holds more than the limit.
Receive == \E f \in 1 .. Limit :
    /\ held + f <= Limit
    /\ held' = held + f
    /\ received' = received + f
    /\ UNCHANGED <<consumed, life>>

Become(i, from, to) == life[i] = from /\ life' = [life EXCEPT ![i] = to]

\* Fuel leaves only if it is there; a task may finish in the same step.
Consume == \E f \in 0 .. held :
    /\ held' = held - f
    /\ consumed' = consumed + f
    /\ life' = life \/ \E i \in Ids : Become(i, "live", "finished")
    /\ UNCHANGED received

Start == \E i \in Ids : Become(i, "unused", "live") /\ UNCHANGED <<held, consumed, received>>
Forget == \E i \in Ids : Become(i, "finished", "gone") /\ UNCHANGED <<held, consumed, received>>

Next == Receive \/ Consume \/ Start \/ Forget
Spec == Init /\ [][Next]_vars
=============================================================================
