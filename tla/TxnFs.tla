------------------------------- MODULE TxnFs -------------------------------
(***************************************************************************)
(* What eofs promises: a filesystem with one pending transaction.  Changes *)
(* collect in the pending state; commit makes them the committed state in  *)
(* one step; rollback and a crash drop them.  Only a commit that was       *)
(* publishing when the power went, or that failed after it had begun to,   *)
(* may go either way, and only until a later one returns.  A format        *)
(* replaces whatever was on the device, and once it has completed nothing  *)
(* of the old image comes back.                                            *)
(***************************************************************************)
CONSTANTS Names, Values, SnapNames,
          Absent,  \* no such file, or no such snapshot
          NoFs     \* nothing on the device mounts

VARIABLES phase,     \* "down", "formatting" or "up"
          publishing,\* a commit has begun to write its root
          doubt,     \* what commits wrote that have not returned successfully
          committed, \* the state a mount would adopt
          pending    \* the state the mounted filesystem shows

vars == <<phase, publishing, doubt, committed, pending>>

\* A state: the files with their contents, and the retained snapshots.
NoFiles == [n \in Names |-> Absent]
EmptyFs == [files |-> NoFiles, snaps |-> [s \in SnapNames |-> Absent]]

Init == phase = "down" /\ publishing = FALSE /\ doubt = {} /\ pending = committed

\* A file comes into being, changes or goes, or a snapshot retains the files.
Change ==
    /\ phase = "up" /\ ~publishing
    /\ \/ \E n \in Names, c \in Values \cup {Absent} :
            pending' = [pending EXCEPT !.files[n] = c]
       \/ \E s \in SnapNames :
            /\ pending.snaps[s] = Absent
            /\ pending' = [pending EXCEPT !.snaps[s] = pending.files]
    /\ UNCHANGED <<phase, publishing, doubt, committed>>

Rollback == /\ phase = "up" /\ ~publishing /\ pending' = committed
            /\ UNCHANGED <<phase, publishing, doubt, committed>>

Publish == /\ phase # "down" /\ ~publishing /\ publishing' = TRUE
           /\ doubt' = doubt \cup {pending}
           /\ UNCHANGED <<phase, committed, pending>>

Commit == /\ publishing /\ publishing' = FALSE
          /\ committed' = pending /\ doubt' = {} /\ phase' = "up"
          /\ UNCHANGED pending

\* A commit fails and leaves it open whether its root is on the device.
Fail == /\ phase = "up" /\ publishing' = FALSE
        /\ doubt' \in {doubt, doubt \cup {pending}}
        /\ UNCHANGED <<phase, committed, pending>>

\* A flush settles what became of earlier failures.
Settle == /\ phase = "up" /\ ~publishing /\ doubt' \subseteq doubt
          /\ UNCHANGED <<phase, publishing, committed, pending>>

\* Both slots are cleared first, so the old image goes or stays as a whole.
Format == /\ phase = "down" /\ phase' = "formatting"
          /\ pending' = EmptyFs /\ committed' = NoFs
          /\ UNCHANGED <<publishing, doubt>>

\* A mounted filesystem is given back, or the power goes; an interrupted
\* format may leave the image that was there before.
Stop(old) ==
    /\ phase # "down" /\ phase' = "down" /\ publishing' = FALSE /\ doubt' = {}
    /\ committed' \in {committed} \cup doubt \cup (IF phase = "formatting" THEN {old} ELSE {})
    /\ pending' = committed'

Mount == /\ phase = "down" /\ committed # NoFs /\ phase' = "up"
         /\ UNCHANGED <<publishing, doubt, committed, pending>>

Next(old) == Change \/ Rollback \/ Publish \/ Commit \/ Fail \/ Settle
             \/ Format \/ Stop(old) \/ Mount
Spec(old) == Init /\ [][Next(old)]_vars
=============================================================================
