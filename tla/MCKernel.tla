------------------------------ MODULE MCKernel ------------------------------
(***************************************************************************)
(* The kernel's components side by side for TLC, with the component        *)
(* algebra, which the kernel links too: a behaviour is one of `part`, the  *)
(* others rest in their initial states.                                    *)
(***************************************************************************)
EXTENDS KTasks, KGate, KDisk, KBuffers, Msd, Algebra

CONSTANT Parts   \* the components to run

\* The disk calls on the stick: a read across two blocks, a write of each
\* block, a write of part of one, and a read past the end.
DiskCalls ==
    {[what |-> "read", at |-> 1, len |-> 2], [what |-> "write", at |-> 0, len |-> 2],
     [what |-> "write", at |-> 2, len |-> 2],
     [what |-> "write", at |-> 1, len |-> 1], [what |-> "read", at |-> 3, len |-> 2]}

\* A file system and a network, with the flavors that matter to wiring.
Kinds == [fs |-> [package |-> "p-fs", flavor |-> "api", api |-> "fs"],
          fsCfg |-> [package |-> "p-fs", flavor |-> "config", api |-> "fs"],
          net |-> [package |-> "p-net", flavor |-> "api", api |-> "net"],
          netOpt |-> [package |-> "p-net", flavor |-> "optional", api |-> "net"],
          diag |-> [package |-> "p-rt", flavor |-> "diagnostics", api |-> "diag"]]

\* A program with a slot of its own, a file system and two that layer over
\* one, the second of a version incompatible with theirs, and a network.
Slot(iface, minor, patch) == [slot |-> iface, iface |-> iface, ver |-> <<0, minor, patch>>]
Shelf ==
    [app |-> [kind |-> "binary", exports |-> {},
              imports |-> {Slot("fs", 1, 0), Slot("netOpt", 1, 0), Slot("diag", 1, 0),
                           [slot |-> "scratch", iface |-> "fs", ver |-> <<0, 1, 0>>]}],
     mem |-> [kind |-> "provider", imports |-> {Slot("diag", 1, 0)},
              exports |-> {Slot("fs", 1, 1), Slot("fsCfg", 1, 0)}],
     cache |-> [kind |-> "provider", imports |-> {Slot("fs", 1, 0)}, exports |-> {Slot("fs", 1, 0)}],
     later |-> [kind |-> "provider", imports |-> {Slot("fs", 1, 0)},
                exports |-> {Slot("fs", 2, 0), Slot("fsCfg", 1, 0)}],
     link |-> [kind |-> "provider", imports |-> {Slot("fs", 1, 0)},
               exports |-> {Slot("net", 1, 0), Slot("netOpt", 1, 0)}]]
Lists == {{[name |-> "fs", ver |-> Unversioned]}, {[name |-> "p-net", ver |-> <<0, 1, 0>>]}}
Labels == {<<"fs", "scratch">>, <<"scratch", "fs">>, <<"net", "scratch">>}

VARIABLE part
vars == <<part, tasksVars, gateVars, diskVars, bufVars, kbufVars, msdVars, algVars>>

Init == /\ part \in Parts
        /\ TasksInit /\ GateInit /\ DiskInit /\ BuffersInit /\ KBuffersInit /\ MsdInit /\ AlgInit

Next ==
    \/ part = "tasks" /\ TasksNext /\ UNCHANGED <<part, gateVars, diskVars, bufVars, kbufVars, msdVars, algVars>>
    \/ part = "gate" /\ GateNext /\ UNCHANGED <<part, tasksVars, diskVars, bufVars, kbufVars, msdVars, algVars>>
    \/ part = "disk" /\ DiskNext /\ UNCHANGED <<part, tasksVars, gateVars, bufVars, kbufVars, msdVars, algVars>>
    \/ part = "buffers" /\ BuffersNext /\ UNCHANGED <<part, tasksVars, gateVars, diskVars, kbufVars, msdVars, algVars>>
    \/ part = "kbuffers" /\ KBuffersNext /\ UNCHANGED <<part, tasksVars, gateVars, diskVars, bufVars, msdVars, algVars>>
    \/ part = "usb" /\ MsdNext /\ UNCHANGED <<part, tasksVars, gateVars, diskVars, bufVars, kbufVars, algVars>>
    \/ part = "algebra" /\ AlgNext /\ UNCHANGED <<part, tasksVars, gateVars, diskVars, bufVars, kbufVars, msdVars>>
Spec == Init /\ [][Next]_vars
\* What tells states apart: how many commands ago a tag was given out and not its
\* number (and none where the stick holds no command); of a child what it has while
\* it runs; and what the host has written back while there may be a power cut yet.
Age(t) == (tag - t) % TagSpace
KernelView ==
    <<part, tasksVars, bufVars, kbufVars, algVars,
      mslot, mop, mid, medium, asked, usbAcked, usbFaults, ed["in"],
      IF ed["out"].left # NoTd /\ "cmd" \in DOMAIN ed["out"].left
      THEN [ed["out"] EXCEPT !.left.tag = Age(@)] ELSE ed["out"],
      IF stick.ph \in {"idle", "lost"} THEN stick ELSE [stick EXCEPT !.tag = Age(@)],
      svcRun, runs, share, call, kid, outlived = {}, disturbed = {},
      [k \in {j \in Kids : RunsOn(j)} |-> <<grantOf[k], holds[k], bornIn[k], k \in disturbed>>],
      power, kernel, boots, disk, work, session, faults, tried, acked,
      IF faults < MaxFaults THEN stable ELSE disk>>

\* The type invariants of the components.
KernelTypeOK == TasksTypeOK /\ GateTypeOK /\ DiskTypeOK /\ BuffersTypeOK /\ MsdTypeOK /\ AlgTypeOK
=============================================================================
