------------------------------ MODULE Sessions ------------------------------
(***************************************************************************)
(* The session directories of `eo9 shell` and `eo9 init` under             *)
(* <store>/shell (shell.rs). A process pins session-<pid> with a lock file *)
(* it holds for its lifetime, and each start sweeps what dead processes    *)
(* left. The steps are the file-system calls, a process may be killed      *)
(* between any two of them, and a pid is used again once its owner is dead.*)
(* Lock files are named by the process that created them, because a lock   *)
(* belongs to the file and not to its path. A file that is there may fail  *)
(* to open (no descriptors left, no permission): a sweep takes a lock file *)
(* it cannot open for one nobody holds.                                    *)
(***************************************************************************)
EXTENDS FiniteSets

CONSTANTS Procs,    \* the processes that start a session, over all time
          Pids,
          PidOf,    \* the pid a process is given
          Nobody,   \* no file, or no holder
          Elder     \* whatever made a directory with no lock beside it

ASSUME SessionsAssumption == PidOf \in [Procs -> Pids] /\ Nobody \notin Procs /\ Elder # Nobody

VARIABLES stage,      \* where a process stands
          inode,      \* the lock file it has open
          lockedBy,   \* the holder of a lock file's lock
          tmpLock,    \* session-<pid>.lock.tmp
          sesLock,    \* session-<pid>.lock
          sesDir,     \* session-<pid>/, by the process that made it
          sharing,    \* the shared holders of .sessions.lock
          sweeping,   \* its exclusive holder
          todo,       \* what the sweep has still to look at
          victim,     \* the pid the sweep has found dead
          legacy,     \* whether the shared bin view of old versions is there
          doomed,     \* history: the pids whose owner was dead as the sweep began,
          unopened,   \* those whose temporary lock file it could not open,
          misread     \* and the live processes a sweep has taken for dead

shared == <<tmpLock, sesLock, sesDir>>
failed == <<unopened, misread>>
sweep == <<todo, victim, legacy, doomed, failed>>
sesVars == <<stage, inode, lockedBy, shared, sharing, sweeping, sweep>>

Sweeping == {"sweepLocks", "victimDir", "victimLock", "sweepDirs"}
\* With .sessions.lock held shared.
Establishing == {"tmp", "lock", "rename", "clear", "mkdir", "built"}
\* With its lock file in place, and with its directory.
Locked == {"clear", "mkdir", "built", "tryGuard", "serve"} \cup Sweeping
Built == {"built", "tryGuard", "serve"} \cup Sweeping
Stages == {"off", "guard", "dead"} \cup Establishing \cup Locked

Live(p) == stage[p] \notin {"off", "dead"}
To(p, s) == stage' = [stage EXCEPT ![p] = s]

SessionsInit ==
    /\ stage = [p \in Procs |-> "off"]
    /\ inode = [p \in Procs |-> Nobody] /\ lockedBy = [p \in Procs |-> Nobody]
    /\ tmpLock = [i \in Pids |-> Nobody] /\ sesLock = [i \in Pids |-> Nobody]
    /\ sesDir \in [Pids -> {Nobody, Elder}]
    /\ sharing = {} /\ sweeping = Nobody
    /\ todo = {} /\ victim = Nobody /\ doomed = {} /\ legacy \in BOOLEAN
    /\ unopened = {} /\ misread = {}

\* The operating system gives a pid to one live process at a time.
StartSession(p) ==
    /\ stage[p] = "off" /\ \A q \in Procs : Live(q) => PidOf[q] # PidOf[p]
    /\ To(p, "guard")
    /\ UNCHANGED <<inode, lockedBy, shared, sharing, sweeping, sweep>>

\* Variant: establishment does not take the guard.
ShareGuard_Not(p) ==
    /\ stage[p] = "guard" /\ To(p, "tmp")
    /\ UNCHANGED <<inode, lockedBy, shared, sharing, sweeping, sweep>>

\* establish.lock_shared() waits for a sweep to end.
ShareGuard(p) ==
    /\ stage[p] = "guard" /\ sweeping = Nobody
    /\ sharing' = sharing \cup {p} /\ To(p, "tmp")
    /\ UNCHANGED <<inode, lockedBy, shared, sweeping, sweep>>

\* File::create opens the file a dead namesake left, or makes one.
CreateTmp(p) ==
    LET file == IF tmpLock[PidOf[p]] = Nobody THEN p ELSE tmpLock[PidOf[p]] IN
    /\ stage[p] = "tmp"
    /\ tmpLock' = [tmpLock EXCEPT ![PidOf[p]] = file]
    /\ inode' = [inode EXCEPT ![p] = file] /\ To(p, "lock")
    /\ UNCHANGED <<lockedBy, sesLock, sesDir, sharing, sweeping, sweep>>

LockTmp(p) ==
    /\ stage[p] = "lock" /\ lockedBy[inode[p]] = Nobody
    /\ lockedBy' = [lockedBy EXCEPT ![inode[p]] = p] /\ To(p, "rename")
    /\ UNCHANGED <<inode, shared, sharing, sweeping, sweep>>

RenameLock(p) ==
    /\ stage[p] = "rename"
    /\ sesLock' = [sesLock EXCEPT ![PidOf[p]] = tmpLock[PidOf[p]]]
    /\ tmpLock' = [tmpLock EXCEPT ![PidOf[p]] = Nobody] /\ To(p, "clear")
    /\ UNCHANGED <<inode, lockedBy, sesDir, sharing, sweeping, sweep>>

\* What a dead process with this pid left in the directory's place.
ClearDir(p) ==
    /\ stage[p] = "clear"
    /\ sesDir' = [sesDir EXCEPT ![PidOf[p]] = Nobody] /\ To(p, "mkdir")
    /\ UNCHANGED <<inode, lockedBy, tmpLock, sesLock, sharing, sweeping, sweep>>

MakeDir(p) ==
    /\ stage[p] = "mkdir"
    /\ sesDir' = [sesDir EXCEPT ![PidOf[p]] = p] /\ To(p, "built")
    /\ UNCHANGED <<inode, lockedBy, tmpLock, sesLock, sharing, sweeping, sweep>>

DropGuard(p) ==
    /\ stage[p] = "built"
    /\ sharing' = sharing \ {p} /\ To(p, "tryGuard")
    /\ UNCHANGED <<inode, lockedBy, shared, sweeping, sweep>>

\* sweep_dead_sessions: somebody else holds the guard, or it cannot be opened;
\* housekeeping can wait.
SkipSweep(p) ==
    /\ stage[p] = "tryGuard" /\ To(p, "serve")
    /\ UNCHANGED <<inode, lockedBy, shared, sharing, sweeping, sweep>>

\* It has the guard, drops the old shared layout, and lists the directory.
BeginSweep(p) ==
    /\ stage[p] = "tryGuard" /\ sharing = {} /\ sweeping = Nobody
    /\ sweeping' = p /\ To(p, "sweepLocks") /\ legacy' = FALSE
    /\ todo' = {<<"tmp", i>> : i \in {j \in Pids : tmpLock[j] # Nobody}}
                 \cup {<<"lock", i>> : i \in {j \in Pids : sesLock[j] # Nobody}}
    /\ doomed' = {i \in Pids : \A q \in Procs : Live(q) => PidOf[q] # i} /\ unopened' = {}
    /\ UNCHANGED <<inode, lockedBy, shared, sharing, victim, misread>>

\* A temporary lock file is removed if it can be opened and locked: its owner
\* died.
SweepTmp(p, i) ==
    /\ stage[p] = "sweepLocks" /\ <<"tmp", i>> \in todo
    /\ todo' = todo \ {<<"tmp", i>>}
    /\ \/ /\ tmpLock' = [tmpLock EXCEPT ![i] =
              IF i # PidOf[p] /\ @ # Nobody /\ lockedBy[@] = Nobody THEN Nobody ELSE @]
          /\ UNCHANGED unopened
       \/ unopened' = unopened \cup {i} /\ UNCHANGED tmpLock
    /\ UNCHANGED <<stage, inode, lockedBy, sesLock, sesDir, sharing, sweeping, victim, legacy, doomed, misread>>

Holder(i) == {q \in Procs : sesLock[i] # Nobody /\ lockedBy[sesLock[i]] = q}

\* Variant: a lock file that exists counts as held.
Held_IfThere(i, opened) == sesLock[i] # Nobody

\* is_ok_and: a lock file that does not open counts as not held.
Held(i, opened) == opened /\ Holder(i) # {}

\* A session lock that is our own or found held stays.
SweepHeld(p, i) ==
    /\ stage[p] = "sweepLocks" /\ <<"lock", i>> \in todo
    /\ i = PidOf[p] \/ Held(i, TRUE)
    /\ todo' = todo \ {<<"lock", i>>}
    /\ UNCHANGED <<stage, inode, lockedBy, shared, sharing, sweeping, victim, legacy, doomed, failed>>

\* One that is not found held is a dead session's, or so it is taken to be: its
\* directory goes, then it.
SweepDead(p, i) ==
    /\ stage[p] = "sweepLocks" /\ <<"lock", i>> \in todo
    /\ i # PidOf[p] /\ \E opened \in BOOLEAN : ~Held(i, opened)
    /\ todo' = todo \ {<<"lock", i>>} /\ victim' = i /\ To(p, "victimDir")
    /\ misread' = misread \cup Holder(i)
    /\ UNCHANGED <<inode, lockedBy, shared, sharing, sweeping, legacy, doomed, unopened>>

RemoveVictimDir(p) ==
    /\ stage[p] = "victimDir"
    /\ sesDir' = [sesDir EXCEPT ![victim] = Nobody] /\ To(p, "victimLock")
    /\ UNCHANGED <<inode, lockedBy, tmpLock, sesLock, sharing, sweeping, sweep>>

RemoveVictimLock(p) ==
    /\ stage[p] = "victimLock"
    /\ sesLock' = [sesLock EXCEPT ![victim] = Nobody] /\ victim' = Nobody
    /\ To(p, "sweepLocks")
    /\ UNCHANGED <<inode, lockedBy, tmpLock, sesDir, sharing, sweeping, todo, legacy, doomed, failed>>

\* The second listing: directories with no lock file at all.
ListDirs(p) ==
    /\ stage[p] = "sweepLocks" /\ todo = {}
    /\ todo' = {<<"dir", i>> : i \in {j \in Pids : sesDir[j] # Nobody} \ {PidOf[p]}}
    /\ To(p, "sweepDirs")
    /\ UNCHANGED <<inode, lockedBy, shared, sharing, sweeping, victim, legacy, doomed, failed>>

\* exists: a lock file that cannot be looked up counts as not there.
SweepDir(p, i) ==
    /\ stage[p] = "sweepDirs" /\ <<"dir", i>> \in todo
    /\ todo' = todo \ {<<"dir", i>>}
    /\ \/ sesLock[i] # Nobody /\ UNCHANGED <<sesDir, misread>>
       \/ sesDir' = [sesDir EXCEPT ![i] = Nobody] /\ misread' = misread \cup Holder(i)
    /\ UNCHANGED <<stage, inode, lockedBy, tmpLock, sesLock, sharing, sweeping, victim, legacy, doomed, unopened>>

\* Variant: the guard outlives the sweep, as the session's own lock does.
EndSweep_KeepsGuard(p) ==
    /\ stage[p] = "sweepDirs" /\ todo = {} /\ To(p, "serve")
    /\ UNCHANGED <<inode, lockedBy, shared, sharing, sweeping, sweep>>

EndSweep(p) ==
    /\ stage[p] = "sweepDirs" /\ todo = {}
    /\ sweeping' = Nobody /\ To(p, "serve")
    /\ UNCHANGED <<inode, lockedBy, shared, sharing, sweep>>

\* A directory that cannot be listed ends the sweep early.
AbandonSweep(p) ==
    /\ stage[p] = "sweepLocks"
    /\ sweeping' = Nobody /\ todo' = {} /\ To(p, "serve")
    /\ UNCHANGED <<inode, lockedBy, shared, sharing, victim, legacy, doomed, failed>>

\* The process ends, is killed, or gives up on an i/o error: its locks go, its
\* files stay.
Die(p) ==
    /\ Live(p) /\ To(p, "dead")
    /\ lockedBy' = [f \in Procs |-> IF lockedBy[f] = p THEN Nobody ELSE lockedBy[f]]
    /\ sharing' = sharing \ {p}
    /\ sweeping' = IF sweeping = p THEN Nobody ELSE sweeping
    /\ todo' = IF sweeping = p THEN {} ELSE todo
    /\ victim' = IF sweeping = p THEN Nobody ELSE victim
    /\ UNCHANGED <<inode, shared, legacy, doomed, failed>>

Proceed(p) ==
    \/ ShareGuard(p) \/ CreateTmp(p) \/ LockTmp(p) \/ RenameLock(p) \/ ClearDir(p)
    \/ MakeDir(p) \/ DropGuard(p) \/ SkipSweep(p) \/ BeginSweep(p)
    \/ \E i \in Pids : SweepTmp(p, i) \/ SweepHeld(p, i) \/ SweepDead(p, i) \/ SweepDir(p, i)
    \/ RemoveVictimDir(p) \/ RemoveVictimLock(p) \/ ListDirs(p) \/ EndSweep(p)
    \/ AbandonSweep(p)

SessionsNext == \E p \in Procs : StartSession(p) \/ Proceed(p) \/ Die(p)
SessionsSpec == SessionsInit /\ [][SessionsNext]_sesVars
-----------------------------------------------------------------------------
SessionsTypeOK ==
    /\ stage \in [Procs -> Stages]
    /\ inode \in [Procs -> Procs \cup {Nobody}] /\ lockedBy \in [Procs -> Procs \cup {Nobody}]
    /\ tmpLock \in [Pids -> Procs \cup {Nobody}] /\ sesLock \in [Pids -> Procs \cup {Nobody}]
    /\ sesDir \in [Pids -> Procs \cup {Nobody, Elder}]
    /\ sharing \subseteq Procs /\ sweeping \in Procs \cup {Nobody}
    /\ todo \subseteq {"tmp", "lock", "dir"} \X Pids /\ victim \in Pids \cup {Nobody}
    /\ legacy \in BOOLEAN /\ doomed \subseteq Pids
    /\ unopened \subseteq Pids /\ misread \subseteq Procs

\* "A session is alive exactly while its session-<pid>.lock sibling is held":
\* no sweep, crash or reused pid takes the lock file or the directory from
\* under a process that has established its session, unless a sweep could not
\* open its lock file and so took it for dead.
LiveSessionsStay ==
    \A p \in Procs \ misread :
        /\ stage[p] \in Locked => /\ sesLock[PidOf[p]] = inode[p] /\ inode[p] \in Procs
                                  /\ lockedBy[inode[p]] = p
        /\ stage[p] \in Built => sesDir[PidOf[p]] = p

\* "an unheld lock, or a directory with no lock at all, is always dead", and
\* the other way round: a sweep that reads both listings leaves nothing of a
\* session whose process was dead when it began, wherever that process died,
\* save a temporary lock file it could not open.
SweepsAreThorough ==
    [][\A p \in Procs : stage[p] = "sweepDirs" /\ stage'[p] = "serve" =>
         \A i \in doomed : /\ tmpLock'[i] = Nobody \/ i \in unopened
                          /\ sesLock'[i] = Nobody /\ sesDir'[i] = Nobody]_sesVars

\* Establishment and sweeps exclude each other without blocking each other for
\* good: a process that starts gets its session, or is killed.
StartsFinish == \A p \in Procs : stage[p] = "guard" ~> stage[p] \in {"serve", "dead"}
=============================================================================
