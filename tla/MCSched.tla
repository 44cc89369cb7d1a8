------------------------------ MODULE MCSched ------------------------------
(***************************************************************************)
(* Model-checking instances of Sched and of TaskDrive. A behaviour is one  *)
(* of a scheduler with the deterministic policy (the constants of the      *)
(* .cfg), of one with the fair policy, less fuel and an embedder that      *)
(* keeps going, of the runtime driving a chain of three tasks, or of the   *)
(* runtime driving a root with two children ("flat").                      *)
(***************************************************************************)
EXTENDS Sched, TaskDrive

CONSTANTS t1, t2, t3

VARIABLE policy

FairNode == INSTANCE Sched WITH Fair <- TRUE, FuelMax <- 1, MaxImported <- 2
ThreeTasks == {t1, t2, t3}
\* A chain, for the constants of TaskDrive.  The middle task waits for i/o, or
\* for its child, which does i/o itself.
ChainParent == [t \in ThreeTasks |-> IF t = t3 THEN t2 ELSE t1]
ChainKids == [t \in ThreeTasks |-> IF t = t1 THEN <<t2>> ELSE IF t = t2 THEN <<t3>> ELSE <<>>]
ChainUses == [t \in ThreeTasks |-> IF t = t1 THEN {{t2}} ELSE IF t = t2 THEN {{t3}, {Io}} ELSE {{Io}}]
\* The root waits for both children, or for the one that does i/o beside the
\* one that only computes.
Flat == INSTANCE TaskDrive WITH
    Donation <- 3, BudgetMax <- 3,
    Parent <- [t \in ThreeTasks |-> t1],
    Kids <- [t \in ThreeTasks |-> IF t = t1 THEN <<t2, t3>> ELSE <<>>],
    Uses <- [t \in ThreeTasks |-> IF t = t1 THEN {{t2, t3}, {t3}} ELSE IF t = t3 THEN {{Io}} ELSE {}]
\* (NoLostWakeup reads the waits only, so it is the same formula for both.)
ASSUME TreesAssumption == WellFormed /\ Flat!WellFormed

eitherVars == <<policy, vars, driveVars>>

EitherInit == /\ policy \in {"fair", "deterministic", "chain", "flat"} /\ Init
              /\ IF policy = "flat" THEN Flat!DriveInit ELSE DriveInit
EitherNext == \/ policy = "deterministic" /\ Next /\ UNCHANGED <<policy, driveVars>>
              \/ policy = "fair" /\ FairNode!Next /\ UNCHANGED <<policy, driveVars>>
              \/ policy = "chain" /\ DriveNext /\ UNCHANGED <<policy, vars>>
              \/ policy = "flat" /\ Flat!DriveNext /\ UNCHANGED <<policy, vars>>
\* The scheduler's caller keeps going under the fair policy; the embedder
\* thread runs, and provider threads finish their ring, in the flat tree.
EitherSpec ==
    /\ EitherInit /\ [][EitherNext]_eitherVars
    /\ WF_vars(policy = "fair" /\ FairNode!Pick)
    /\ WF_vars(policy = "fair" /\ \E spent \in FairNode!Fuel, result \in {"OutOfFuel", "Blocked", "Done"} :
                                      FairNode!Report(spent, result))
    /\ WF_driveVars(policy = "flat" /\ (Flat!Embedder \/ Flat!Resume))
    /\ WF_driveVars(policy = "flat" /\ (Flat!RingStore(t3) \/ Flat!RingDrain(t3)))

\* Under FairPolicy every runnable task gets its turn (or is killed first),
\* however often others run out of fuel and rejoin the queue.
FairPolicyServesAll ==
    \A t \in TaskId : (policy = "fair" /\ state[t] = "Runnable") ~> state[t] # "Runnable"

\* The type invariants of the scheduler and of the driven trees.
EitherTypeOK == TypeOK /\ IF policy = "flat" THEN Flat!DriveTypeOK ELSE DriveTypeOK

\* A completion that has happened reaches the guest that awaits it, while a
\* sibling computes without end; t3 is the one that does i/o.
SiblingIsSeen == (policy = "flat" /\ Flat!Unseen(t3)) ~> ~Flat!Unseen(t3)

\* A wait on a child that has ended returns to the waiting guest, or the wait
\* itself ends.
WaitReturns == \A t \in {t2, t3} : (policy = "flat" /\ Flat!Unreaped(t)) ~> ~Flat!Unreaped(t)
=============================================================================
