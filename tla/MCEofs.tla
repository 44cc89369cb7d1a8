------------------------------- MODULE MCEofs -------------------------------
(***************************************************************************)
(* Model-checking instances of Eofs. A behaviour runs in one mode:         *)
(*   reuse      no snapshots, so that the device fills and gc must hand    *)
(*              out freed blocks;                                          *)
(*   snapshots  snapshots, on the first SnapBlocks blocks;                 *)
(*   tail       commits that fail after their first flush, and no gc.      *)
(* Bytes that no root in memory and no uberblock on the device refers to   *)
(* cannot influence any step or property, so states that differ only in    *)
(* them are counted once.                                                  *)
(***************************************************************************)
EXTENDS Eofs

CONSTANTS Modes, SnapBlocks

VARIABLE mode

Reuse == INSTANCE Eofs WITH SnapNames <- {}
Faulty == INSTANCE Eofs WITH WithGc <- FALSE, TailFaults <- TRUE

ModeInit == mode \in Modes /\ Init
ModeNext ==
    \/ mode = "reuse" /\ Reuse!Next /\ UNCHANGED mode
    \/ mode = "snapshots" /\ Next /\ frontier' <= SnapBlocks + 1 /\ UNCHANGED mode
    \/ mode = "tail" /\ Faulty!Next /\ UNCHANGED mode
ModeSpec == ModeInit /\ [][ModeNext]_<<mode, vars>>

Referenced == {p.addr : p \in Retained \cup UNION {UbPtrs(ub) : ub \in Uberblocks}}
EofsView ==
    LET kept == Slot \cup Referenced
        Relevant(l, c) == IF l \in kept THEN c ELSE Torn
    IN <<mode, [l \in Loc |-> Relevant(l, disk[l])],
         [l \in Loc |-> {Relevant(l, c) : c \in maybe[l]}],
         rootVars, allocVars, phase, step, formats>>
=============================================================================
