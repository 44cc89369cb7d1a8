---------------------------- MODULE ModuleStore ----------------------------
(***************************************************************************)
(* The named programs of the host's module store: `eo9 store add` binds a  *)
(* name in the default manifest (eo9-store), and every start of the eo9    *)
(* binary seeds the store with the programs it carries, or after an        *)
(* upgrade refreshes the names that are still the seeder's (eo9/seed.rs).  *)
(* Commands are processes without a common lock; a step is a file          *)
(* operation, and each one written through write_atomic appears whole.     *)
(***************************************************************************)
EXTENDS Naturals, Sequences, SequencesExt

CONSTANTS Commands,      \* the processes
          Eosh,          \* the name that tells a seeded store
          Bundle,        \* binary -> the <<name, object>> pairs it carries, in order
          UserObjects, UserNames,
          Unbound, NoRecord,
          MaxStops,      \* bounds: failures, commands that run one after the other,
          MaxIssued, MaxTogether   \* and commands that overlap or fail

Binaries == DOMAIN Bundle
Carried(b) == {Bundle[b][n][1] : n \in DOMAIN Bundle[b]}
ObjectOf(b, n) == (CHOOSE pair \in ToSet(Bundle[b]) : pair[1] = n)[2]
BindNames == UserNames \cup UNION {Carried(b) : b \in Binaries}
StoreObjects == UserObjects \cup {pair[2] : pair \in UNION {ToSet(Bundle[b]) : b \in Binaries}}
Unnamed == [n \in BindNames |-> Unbound]

\* A binary carries a name once, and a seed record is told from a missing one.
ASSUME StoreAssumption ==
    /\ \A b \in Binaries : /\ Bundle[b] \in Seq(BindNames \X StoreObjects)
                           /\ \A i, j \in DOMAIN Bundle[b] : Bundle[b][i][1] = Bundle[b][j][1] => i = j
    /\ "user" \notin Binaries /\ NoRecord \notin Binaries /\ Unbound \notin StoreObjects
    /\ NoRecord \notin [fingerprint : Binaries, entries : [BindNames -> StoreObjects \cup {Unbound}]]

VARIABLES objects,    \* the objects present
          manifest,   \* manifests/default.manifest
          record,     \* the seed record, NoRecord when missing or malformed
          cmd,        \* the commands under way
          issued, stops, overlap,   \* bounds, and whether two commands ever overlapped
          pinned,     \* history: the user's bindings that the record tells from the seeder's
          handmade,   \* history: the user's last binding of a name
          seeded      \* history: the binary whose programs the store was last made to match

storeHistory == <<pinned, handmade, seeded>>
limits == <<issued, stops, overlap>>
storeVars == <<objects, manifest, record, cmd, limits, storeHistory>>

\* A command: who runs it, what it read of the store, what it has yet to do
\* and has done, and the binding it is about to make.
Resting ==
    [at |-> "idle", by |-> "user", forced |-> FALSE, existing |-> Unnamed, owns |-> "all", old |-> Unnamed,
     list |-> <<>>, entries |-> Unnamed, job |-> <<>>, map |-> Unnamed]
Busy == {p \in Commands : cmd[p].at # "idle"}

StoreInit ==
    /\ objects = {} /\ manifest = Unnamed /\ record = NoRecord
    /\ cmd = [p \in Commands |-> Resting]
    /\ issued = 0 /\ stops = 0 /\ overlap = FALSE
    /\ pinned = Unnamed /\ handmade = Unnamed /\ seeded = NoRecord

Issue(p, c) ==
    /\ Busy # Commands
    /\ p = CHOOSE q \in Commands : q \notin Busy   \* which one does not matter
    /\ issued' = issued + 1 /\ overlap' = (overlap \/ Busy # {})
    /\ issued < IF overlap' \/ stops > 0 THEN MaxTogether ELSE MaxIssued
    /\ cmd' = [cmd EXCEPT ![p] = c]
    /\ UNCHANGED <<objects, manifest, record, stops, storeHistory>>

\* `eo9 store add <file> --name <n>`, which does not seed.
UserAdds(p) ==
    \E n \in UserNames, o \in UserObjects : Issue(p, [Resting EXCEPT !.at = "add", !.job = <<n, o>>])

\* A start of the binary b (shell, init, or a program by name), or `eo9 store
\* reseed` with it.
Starts(p) ==
    \E b \in Binaries, forced \in BOOLEAN : Issue(p, [Resting EXCEPT !.at = "look", !.by = b, !.forced = forced])

\* ensure_seeded and reseed: the bindings as they are now.
Look(p) ==
    LET c == cmd[p]
        first == manifest = Unnamed IN
    /\ c.at = "look"
    /\ cmd' = [cmd EXCEPT ![p] =
           [c EXCEPT !.at = IF first THEN "seed" ELSE "readRecord",
                     !.existing = manifest, !.list = Bundle[c.by]]]
    /\ UNCHANGED <<objects, manifest, record, limits, storeHistory>>

\* Nothing to do, a refresh of what the record says is the seeder's, or, with
\* no record in a store that has an eosh, of every bundled name.
ReadRecord(p) ==
    LET c == cmd[p] IN
    /\ c.at = "readRecord"
    /\ cmd' = [cmd EXCEPT ![p] =
           IF record # NoRecord
           THEN IF ~c.forced /\ record.fingerprint = c.by THEN Resting
                ELSE [c EXCEPT !.at = "seed", !.owns = "recorded", !.old = record.entries]
           ELSE IF c.forced \/ c.existing[Eosh] # Unbound THEN [c EXCEPT !.at = "seed"] ELSE Resting]
    /\ handmade' = IF c.forced /\ record = NoRecord
                   THEN [n \in BindNames |-> IF n \in Carried(c.by) THEN Unbound ELSE handmade[n]]
                   ELSE handmade   \* a reseed without a record is told to take every bundled name
    /\ UNCHANGED <<objects, manifest, record, limits, pinned, seeded>>

\* Variant: a name that is bound is refreshed whatever it is bound to.
StillTheSeeders_IfBound(c, n) == TRUE

\* Whether a bundled name may be touched.
StillTheSeeders(c, n) ==
    \/ c.existing[n] = Unbound
    \/ c.owns = "all"
    \/ c.old[n] = c.existing[n]

\* The next bundled program: left to the user, current already, or to be bound.
SeedNext(p) ==
    LET c == cmd[p]
        n == Head(c.list)[1]
        o == Head(c.list)[2] IN
    /\ c.at = "seed" /\ c.list # <<>>
    /\ cmd' = [cmd EXCEPT ![p] =
           IF ~StillTheSeeders(c, n) THEN [c EXCEPT !.list = Tail(c.list)]
           ELSE IF c.existing[n] = o THEN [c EXCEPT !.list = Tail(c.list), !.entries[n] = o]
           ELSE [c EXCEPT !.at = "add", !.job = Head(c.list)]]
    /\ UNCHANGED <<objects, manifest, record, limits, storeHistory>>

\* Names this binary no longer carries stay in the record while they are
\* bound as seeded; fs::write then begins by truncating the record.
SeedEnds(p) ==
    LET c == cmd[p]
        kept == [n \in BindNames |->
                   IF c.entries[n] = Unbound /\ c.owns = "recorded" /\ c.old[n] = c.existing[n]
                   THEN c.existing[n] ELSE c.entries[n]] IN
    /\ c.at = "seed" /\ c.list = <<>>
    /\ record' = NoRecord
    /\ cmd' = [cmd EXCEPT ![p] = [c EXCEPT !.at = "record", !.entries = kept]]
    /\ UNCHANGED <<objects, manifest, limits, storeHistory>>

WriteRecord(p) ==
    LET c == cmd[p] IN
    /\ c.at = "record"
    /\ record' = [fingerprint |-> c.by, entries |-> c.entries]
    /\ cmd' = [cmd EXCEPT ![p] = Resting] /\ seeded' = c.by
    /\ pinned' = [n \in BindNames |-> IF c.entries[n] = Unbound THEN handmade[n] ELSE pinned[n]]
    /\ UNCHANGED <<objects, manifest, limits, handmade>>

\* Store::add: nothing is written when the object is there.
AddObject(p) ==
    /\ cmd[p].at = "add"
    /\ objects' = objects \cup {cmd[p].job[2]}
    /\ cmd' = [cmd EXCEPT ![p].at = "bind"]
    /\ UNCHANGED <<manifest, record, limits, storeHistory>>

\* Store::bind_in: the object is checked and the manifest read ...
ReadManifest(p) ==
    /\ cmd[p].at = "bind" /\ cmd[p].job[2] \in objects
    /\ cmd' = [cmd EXCEPT ![p] = [@ EXCEPT !.at = "write", !.map = manifest]]
    /\ UNCHANGED <<objects, manifest, record, limits, storeHistory>>

\* ... and replaced, with whatever others bound since then lost.
WriteManifest(p) ==
    LET c == cmd[p]
        n == c.job[1]
        o == c.job[2]
        users == c.by = "user" IN
    /\ c.at = "write"
    /\ manifest' = [c.map EXCEPT ![n] = o]
    /\ cmd' = [cmd EXCEPT ![p] =
           IF users THEN Resting
           ELSE [c EXCEPT !.at = "seed", !.list = Tail(c.list), !.entries[n] = o,
                          !.job = <<>>, !.map = Unnamed]]
    /\ handmade' = IF users THEN [handmade EXCEPT ![n] = o] ELSE handmade
    /\ pinned' = IF users
                 THEN [pinned EXCEPT ![n] =
                         IF record # NoRecord /\ record.entries[n] # o THEN o ELSE Unbound]
                 ELSE pinned
    /\ UNCHANGED <<objects, record, limits, seeded>>

\* The process is killed, or gives up on an i/o error.
Stops(p) ==
    /\ p \in Busy /\ stops < MaxStops
    /\ cmd' = [cmd EXCEPT ![p] = Resting] /\ stops' = stops + 1
    /\ UNCHANGED <<objects, manifest, record, issued, overlap, storeHistory>>

StoreNext ==
    \E p \in Commands :
        \/ UserAdds(p) \/ Starts(p) \/ Look(p) \/ ReadRecord(p) \/ SeedNext(p) \/ SeedEnds(p)
        \/ WriteRecord(p) \/ AddObject(p) \/ ReadManifest(p) \/ WriteManifest(p) \/ Stops(p)

StoreSpec == StoreInit /\ [][StoreNext]_storeVars
-----------------------------------------------------------------------------
\* The type invariant, and "manifests never point at objects that do not exist".
StoreTypeOK ==
    /\ objects \subseteq StoreObjects /\ manifest \in [BindNames -> objects \cup {Unbound}]
    /\ record # NoRecord => record.fingerprint \in Binaries
                            /\ record.entries \in [BindNames -> StoreObjects \cup {Unbound}]

\* Commands ran one after the other and each to its end.
Calm == ~overlap /\ stops = 0

\* "a name the user re-bound is never touched", and every other name follows
\* the binary: between commands a name bound against the seed record is still
\* bound that way, through any upgrades and downgrades, and a bundled name the
\* user has not bound is bound to the program of the binary that last seeded.
NamesKeepTheirOwner ==
    Calm /\ Busy = {} =>
        \A n \in BindNames :
            IF pinned[n] # Unbound THEN manifest[n] = pinned[n]
            ELSE seeded # NoRecord /\ n \in Carried(seeded) => manifest[n] = ObjectOf(seeded, n)

\* "a name the user re-bound (or added) is never touched", read plainly: when
\* commands run one after the other, the user's bindings stay.
UserNamesStay ==
    Calm /\ Busy = {} => \A n \in BindNames : handmade[n] # Unbound => manifest[n] = handmade[n]
=============================================================================
