---------------------------- MODULE MCTaskDrive ----------------------------
(***************************************************************************)
(* A chain of three tasks for TLC.                                         *)
(***************************************************************************)
EXTENDS TaskDrive

CONSTANTS t1, t2, t3

ThreeTasks == {t1, t2, t3}
ChainParent == [t \in ThreeTasks |-> IF t = t3 THEN t2 ELSE t1]
ChainKids == [t \in ThreeTasks |-> IF t = t1 THEN <<t2>> ELSE IF t = t2 THEN <<t3>> ELSE <<>>]
\* The middle task waits for i/o while its child computes.
NestedUses == [t \in ThreeTasks |-> IF t = t1 THEN {{t2}}
                                    ELSE IF t = t2 THEN {{Io, t3}} ELSE {}]
=============================================================================
