------------------------------ MODULE FsEofs -------------------------------
(***************************************************************************)
(* The fs.eofs provider component (guest/stubs/fs-eofs): one mounted       *)
(* engine in a take/put slot, shared by concurrently delivered calls whose *)
(* disk operations are awaited, each of which may fail or be cancelled at  *)
(* every await.                                                            *)
(*                                                                         *)
(* The engine is used at its promise, TxnFs: changes are pending until a   *)
(* commit publishes them whole.  (A commit that fails publishes nothing    *)
(* here; Eofs.tla studies the commit that fails after its root is on the   *)
(* device.)  A file's contents are a short sequence of cells.              *)
(***************************************************************************)
EXTENDS Integers, Sequences, FiniteSets

CONSTANTS Clients, Paths, Cells,
          Hole,        \* a zero-filled cell
          Absent, Dir, \* nodes that are not files
          Idle,        \* no call in flight
          NoHandle,
          MaxOffset    \* bound on write offsets

ASSUME OffsetBound == MaxOffset \in Nat

VARIABLES image,   \* what the device holds: "blank", "foreign", "eofs", "unmountable"
          disk,    \* the committed filesystem
          pending, \* the engine's pending filesystem
          slot,    \* STATE: "Empty", "Busy" or "Ready"
          op,      \* client -> its call in flight
          handle   \* client -> its open file

vars == <<image, disk, pending, slot, op, handle>>

NoFiles == [p \in Paths |-> Absent]
IsFile(node) == node \notin {Absent, Dir}

\* Variant: the file grows one cell too far.
Splice_TooLong(file, offset, cell) ==
    [i \in 1 .. (IF offset >= Len(file) THEN offset + 2 ELSE Len(file)) |->
        IF i = offset + 1 THEN cell ELSE IF i <= Len(file) THEN file[i] ELSE Hole]

\* Splice one cell into a file at an offset, zero-filling any gap.
Splice(file, offset, cell) ==
    [i \in 1 .. (IF offset >= Len(file) THEN offset + 1 ELSE Len(file)) |->
        IF i = offset + 1 THEN cell ELSE IF i <= Len(file) THEN file[i] ELSE Hole]

----------------------------------------------------------------------------
Init ==
    /\ image \in {"blank", "foreign", "eofs"}
    /\ disk = NoFiles /\ pending = NoFiles
    /\ slot = "Empty"
    /\ op = [c \in Clients |-> Idle]
    /\ handle = [c \in Clients |-> NoHandle]

Calls ==
    [kind : {"read", "mkdir", "remove"}, path : Paths]
    \cup [kind : {"open"}, path : Paths, create : BOOLEAN, truncate : BOOLEAN,
          writable : BOOLEAN]
    \cup [kind : {"write"}, offset : 0 .. MaxOffset, cell : Cells]

\* A call in flight.
Ops == [call : Calls, path : Paths, truncating : BOOLEAN, retried : BOOLEAN,
        at : {"mount", "body", "create", "splice", "commit", "return"}]

ASSUME IdleIsNoCall == Idle \notin Ops

Started(call, c) ==
    [call |-> call,
     path |-> IF call.kind = "write" THEN handle[c].path ELSE call.path,
     truncating |-> call.kind = "write" /\ handle[c].trunc,
     retried |-> FALSE,
     at |-> IF slot = "Empty" THEN "mount" ELSE "body"]

\* Variant: the engine is shared with the call in flight.
Call_IgnoresBusy(c, call) ==
    /\ op[c] = Idle
    /\ call.kind = "write" => handle[c] # NoHandle /\ handle[c].writable
    /\ slot' = "Busy"
    /\ op' = [op EXCEPT ![c] = Started(call, c)]
    /\ UNCHANGED <<image, disk, pending, handle>>

\* A call takes the engine out of the slot.  One that finds the slot Busy, or
\* writes through a read-only handle, returns an error and changes nothing.
Call(c, call) ==
    /\ op[c] = Idle /\ slot # "Busy"
    /\ call.kind = "write" => handle[c] # NoHandle /\ handle[c].writable
    /\ slot' = "Busy"
    /\ op' = [op EXCEPT ![c] = Started(call, c)]
    /\ UNCHANGED <<image, disk, pending, handle>>

At(c, where) == op[c] # Idle /\ op[c].at = where
Goto(c, where) == op' = [op EXCEPT ![c].at = where]

\* mount_or_format, on first use: only a blank device is formatted.
MountOrFormat(c) ==
    /\ At(c, "mount")
    /\ image \in {"blank", "eofs"}
    /\ image' = "eofs"
    /\ pending' = disk
    /\ Goto(c, "body")
    /\ UNCHANGED <<disk, slot, handle>>

\* Variant: without the BringUpClaim the slot stays Busy.
BringUpFails_KeepsClaim(c) ==
    /\ At(c, "mount")
    /\ image' \in {image} \cup (IF image = "blank" THEN {"unmountable"} ELSE {})
    /\ op' = [op EXCEPT ![c] = Idle]
    /\ UNCHANGED <<disk, pending, slot, handle>>

\* The first use fails or is cancelled: BringUpClaim empties the slot again.
\* A format cut short may leave the remains of an uberblock.
BringUpFails(c) ==
    /\ At(c, "mount")
    /\ image' \in {image} \cup (IF image = "blank" THEN {"unmountable"} ELSE {})
    /\ slot' = "Empty"
    /\ op' = [op EXCEPT ![c] = Idle]
    /\ UNCHANGED <<disk, pending, handle>>

----------------------------------------------------------------------------
(* The bodies of the calls, one engine call per step.                      *)

\* The call ends with an error or its future is dropped: mutate's rollback,
\* and FsGuard's, which also puts the engine back.
Discard(c) ==
    /\ pending' = disk
    /\ slot' = "Ready"
    /\ op' = [op EXCEPT ![c] = Idle]
    /\ UNCHANGED <<image, disk, handle>>

Change(c, node, next) ==
    /\ pending' = [pending EXCEPT ![op[c].path] = node]
    /\ Goto(c, next)
    /\ UNCHANGED <<image, disk, slot, handle>>

\* open: stat, and create_file when asked to; mkdir; remove; any read.
Body(c) ==
    /\ At(c, "body") /\ op[c].call.kind # "write"
    /\ LET node == pending[op[c].path]
           call == op[c].call
       IN \/ /\ call.kind = "read"
             /\ Change(c, node, "return")
          \/ /\ call.kind = "open" /\ IsFile(node)
             /\ Change(c, node, "return")
          \/ /\ call.kind = "open" /\ node = Absent /\ call.create
             /\ Change(c, <<>>, "commit")
          \/ /\ call.kind = "mkdir" /\ node = Absent
             /\ Change(c, Dir, "commit")
          \/ /\ call.kind = "remove" /\ node # Absent
             /\ Change(c, Absent, "commit")

\* Variant: the truncation is committed on its own.
Truncate_Commits(c) ==
    /\ At(c, "body") /\ op[c].truncating
    /\ pending' = [pending EXCEPT ![op[c].path] = Absent]
    /\ disk' = pending'
    /\ Goto(c, "create")
    /\ UNCHANGED <<image, slot, handle>>

\* write, while a truncation is pending on the handle: remove what is there...
Truncate(c) ==
    /\ At(c, "body") /\ op[c].truncating
    /\ Change(c, Absent, "create")

\* ... and create the file anew.
Recreate(c) ==
    /\ At(c, "create")
    /\ Change(c, <<>>, "splice")

\* write: splice the data into the file, which must exist.
WriteRange(c) ==
    /\ \/ At(c, "splice")
       \/ At(c, "body") /\ op[c].call.kind = "write" /\ ~op[c].truncating
    /\ IsFile(pending[op[c].path])
    /\ Change(c, Splice(pending[op[c].path], op[c].call.offset, op[c].call.cell), "commit")

\* The root flip.
Commit(c) ==
    /\ At(c, "commit")
    /\ disk' = pending
    /\ Goto(c, "return")
    /\ UNCHANGED <<image, pending, slot, handle>>

\* mutate: the first NoSpace reclaims the garbage and runs the operation again
\* from its start, over whatever it had half-applied.
NoSpaceRetry(c) ==
    /\ op[c] # Idle /\ op[c].call.kind # "read"
    /\ op[c].at \in {"body", "create", "splice"} /\ ~op[c].retried
    /\ op' = [op EXCEPT ![c].at = "body", ![c].retried = TRUE]
    /\ UNCHANGED <<image, disk, pending, slot, handle>>

\* Variant: an operation that fails leaves its changes pending.
Fail_NoRollback(c) ==
    /\ op[c] # Idle /\ op[c].at # "mount"
    /\ slot' = "Ready"
    /\ op' = [op EXCEPT ![c] = Idle]
    /\ UNCHANGED <<image, disk, pending, handle>>

\* Any await of the call fails, or the call is cancelled there; after the
\* commit only open awaits anything more (the stat for its handle).
Fail(c) ==
    /\ op[c] # Idle /\ op[c].at # "mount"
    /\ op[c].at = "return" => op[c].call.kind = "open"
    /\ Discard(c)

\* The call returns: the engine goes back into the slot; open hands out its
\* handle with the truncation it still owes, a write has paid it.
Return(c) ==
    /\ At(c, "return")
    /\ LET call == op[c].call
           node == disk[op[c].path]
       IN handle' = [handle EXCEPT ![c] =
            IF call.kind = "open"
            THEN [path |-> op[c].path, writable |-> call.writable,
                  trunc |-> call.truncate /\ IsFile(node) /\ node # <<>>]
            ELSE IF call.kind = "write" THEN [@ EXCEPT !.trunc = FALSE] ELSE @]
    /\ pending' = disk
    /\ slot' = "Ready"
    /\ op' = [op EXCEPT ![c] = Idle]
    /\ UNCHANGED <<image, disk>>

CloseHandle(c) ==
    /\ op[c] = Idle /\ handle[c] # NoHandle
    /\ handle' = [handle EXCEPT ![c] = NoHandle]
    /\ UNCHANGED <<image, disk, pending, slot, op>>

\* The component instance is gone; a commit in progress lands or does not.
Crash ==
    /\ slot # "Empty"
    /\ disk' \in {disk} \cup {pending : c \in {x \in Clients : At(x, "commit")}}
    /\ pending' = disk'
    /\ slot' = "Empty"
    /\ op' = [c \in Clients |-> Idle]
    /\ handle' = [c \in Clients |-> NoHandle]
    /\ UNCHANGED image

Step(c) ==
    \/ MountOrFormat(c) \/ BringUpFails(c)
    \/ Body(c) \/ Truncate(c) \/ Recreate(c) \/ WriteRange(c) \/ Commit(c)
    \/ NoSpaceRetry(c) \/ Fail(c) \/ Return(c)

Next ==
    \/ \E c \in Clients : (\E call \in Calls : Call(c, call)) \/ Step(c) \/ CloseHandle(c)
    \/ Crash

Spec == Init /\ [][Next]_vars

\* Every disk bounds its waits, so each await of a call in flight ends.
Fairness == \A c \in Clients : WF_vars(Step(c))
FairSpec == Spec /\ Fairness

----------------------------------------------------------------------------
(* Properties.                                                             *)

Node == {Absent, Dir} \cup UNION {[1 .. n -> Cells \cup {Hole}] : n \in 0 .. (MaxOffset + 1)}

\* The type invariant.
TypeOK ==
    /\ image \in {"blank", "foreign", "eofs", "unmountable"}
    /\ disk \in [Paths -> Node] /\ pending \in [Paths -> Node]
    /\ slot \in {"Empty", "Busy", "Ready"}
    /\ \A c \in Clients :
         /\ op[c] \in {Idle} \cup Ops
         /\ handle[c] = NoHandle \/ handle[c].path \in Paths

\* FsState::take and FsGuard: exactly one call in flight owns the engine while
\* the slot is Busy, however calls overlap, fail and are cancelled, and an
\* engine at rest has nothing pending: "a cancelled half-applied mutation can
\* never be published by a later commit".
OneOwner ==
    /\ Cardinality({c \in Clients : op[c] # Idle}) <= 1
    /\ slot = "Busy" <=> \E c \in Clients : op[c] # Idle
    /\ slot # "Busy" => pending = disk

\* What a whole call makes of the committed filesystem.
Effect(o) ==
    LET old == disk[o.path] IN
    [disk EXCEPT ![o.path] =
        CASE o.call.kind = "open"   -> <<>>
          [] o.call.kind = "mkdir"  -> Dir
          [] o.call.kind = "remove" -> Absent
          [] o.call.kind = "write"  ->
               Splice(IF o.truncating THEN <<>> ELSE old, o.call.offset, o.call.cell)]

\* "The committed, on-disk state only ever moves from one fully-applied
\* operation to the next" (mutate): each change of the device is the whole
\* effect of one call, retried or not, and the old contents of a rewrite stay
\* until the new ones replace them.
WholeOperations ==
    [][disk' # disk =>
         \E c \in Clients : op[c] # Idle /\ op[c].call.kind # "read" /\ disk' = Effect(op[c])]_vars

\* The slot is never left Busy: a cancelled or failed call gives it back.
NeverWedged == slot = "Busy" ~> slot # "Busy"

\* "Removing a file while a handle is open makes further reads/writes through
\* that handle fail with not-found": no write brings a file into being.
WritesNeedTheFile ==
    [][\A c \in Clients : (At(c, "commit") /\ op[c].call.kind = "write" /\ disk' # disk)
         => disk[op[c].path] # Absent]_vars

=============================================================================
