------------------------------ MODULE MCHosted ------------------------------
(***************************************************************************)
(* The hosted components side by side for TLC: the fs.eofs provider, the   *)
(* service registry in its drive loop, the shell's session directories,    *)
(* the named programs of the module store, and its image cache. A          *)
(* behaviour is one of `hosted`, the others rest.                          *)
(***************************************************************************)
EXTENDS FsEofs, Services, Sessions, ModuleStore, ImageCache

CONSTANT Hosts   \* the components to run

VARIABLE hosted

Policies == [n \in SvcNames |-> IF n = "b" THEN "backoff" ELSE "always"]

\* Two processes are given the same pid, one after the other.
ReusedPid == [p \in Procs |-> IF p \in {"p1", "p2"} THEN "i1" ELSE "i2"]

\* An upgrade changes one program, adds one and leaves one.
Releases == [v \in {"v1", "v2"} |->
    IF v = "v1" THEN <<<<"hello", "h1">>, <<"eosh", "e1">>>>
    ELSE <<<<"hello", "h2">>, <<"tool", "t2">>, <<"eosh", "e1">>>>]

HostedInit ==
    /\ hosted \in Hosts
    /\ Init /\ ServicesInit /\ SessionsInit /\ StoreInit /\ CacheInit
    \* one state to rest in is enough
    /\ hosted # "fs" => image = "eofs"
    /\ hosted # "sessions" => legacy = FALSE /\ sesDir = [i \in Pids |-> Nobody]

HostedNext ==
    \/ hosted = "fs" /\ Next /\ UNCHANGED <<hosted, svcVars, sesVars, storeVars, cacheVars>>
    \/ hosted = "services" /\ ServicesNext /\ UNCHANGED <<hosted, vars, sesVars, storeVars, cacheVars>>
    \/ hosted = "sessions" /\ SessionsNext /\ UNCHANGED <<hosted, vars, svcVars, storeVars, cacheVars>>
    \/ hosted = "names" /\ StoreNext /\ UNCHANGED <<hosted, vars, svcVars, sesVars, cacheVars>>
    \/ hosted = "images" /\ CacheNext /\ UNCHANGED <<hosted, vars, svcVars, sesVars, storeVars>>

\* The waits of a call in flight end, the embedder thread keeps running, and
\* so does a process that starts a session.
HostedSpec ==
    /\ HostedInit /\ [][HostedNext]_<<hosted, vars, svcVars, sesVars, storeVars, cacheVars>>
    /\ \A c \in Clients : WF_vars(hosted = "fs" /\ Step(c))
    /\ WF_svcVars(hosted = "services" /\ DriveLoop)
    /\ \A p \in Procs : WF_sesVars(hosted = "sessions" /\ Proceed(p))

\* The type invariants of the components.
HostedTypeOK == TypeOK /\ SvcTypeOK /\ SessionsTypeOK /\ StoreTypeOK /\ CacheTypeOK
=============================================================================
