----------------------------- MODULE ImageCache -----------------------------
(***************************************************************************)
(* The compile cache of the host's store (eo9-store/cache.rs) and the two  *)
(* commands that use it: load_image, which every run of a program goes     *)
(* through (eo9/compile.rs), and `eo9 store gc`. An entry is a directory   *)
(* with an image and a meta file; nothing locks it, a step is a file       *)
(* operation, and a process may be killed between any two. Every image     *)
(* counts for one unit of the gc's budget.                                 *)
(***************************************************************************)
EXTENDS Naturals, FiniteSets

CONSTANTS Loaders, Keys,
          Budget,      \* CachePolicy::max_bytes
          NoDir, NoFileYet,
          MaxLoads, MaxGcs, MaxCacheKills, MaxUses   \* bounds

ASSUME CacheAssumption == MaxUses \in Nat \ {0}

VARIABLES entry,    \* cache/<key>/: its image, its meta and the temporary files in it
          load,     \* the load_image calls
          gc,       \* the gc run: what it does, what it still evicts
          spent     \* bounds: loads, gcs, kills so far

cacheVars == <<entry, load, gc, spent>>

\* An image is identified by its key and by whether its bytes are complete.
Whole(k) == [key |-> k, whole |-> TRUE]
Partial(k) == [key |-> k, whole |-> FALSE]
EmptyDir == [image |-> NoFileYet, meta |-> NoFileYet, tmps |-> {}]
NoLoad == [at |-> "idle"]
NoGc == [at |-> "idle", evict |-> {}]

CacheInit ==
    /\ entry = [k \in Keys |-> NoDir]
    /\ load = [p \in Loaders |-> NoLoad]
    /\ gc = NoGc
    /\ spent = [loads |-> 0, gcs |-> 0, kills |-> 0]

LoadAt(p, l) == load[p].at = l
Goes(p, l) == load' = [load EXCEPT ![p].at = l]
Ends(p, result) == load' = [load EXCEPT ![p] = [at |-> "ran", key |-> load[p].key, result |-> result]]

\* load_image of the source with key k.
StartLoad(p, k) ==
    /\ load[p].at \in {"idle", "ran"} /\ spent.loads < MaxLoads
    /\ load' = [load EXCEPT ![p] = [at |-> "meta", key |-> k]]
    /\ spent' = [spent EXCEPT !.loads = @ + 1]
    /\ UNCHANGED <<entry, gc>>

\* lookup_image: without a readable meta it is a miss.
ReadMeta(p) ==
    LET e == entry[load[p].key] IN
    /\ LoadAt(p, "meta")
    /\ IF e = NoDir \/ e.meta = NoFileYet THEN Goes(p, "compile")
       ELSE load' = [load EXCEPT ![p] = [at |-> "image", key |-> @.key, meta |-> e.meta]]
    /\ UNCHANGED <<entry, gc, spent>>

\* An image that is gone by now is an error, and load_image takes an error
\* for a miss.
ReadImage(p) ==
    LET e == entry[load[p].key] IN
    /\ LoadAt(p, "image")
    /\ IF e = NoDir \/ e.image = NoFileYet THEN Goes(p, "compile")
       ELSE load' = [load EXCEPT ![p] =
                       [at |-> "bump", key |-> @.key, meta |-> @.meta, image |-> e.image]]
    /\ UNCHANGED <<entry, gc, spent>>

\* The bump of use-count: a temporary sibling of meta, which needs the
\* directory, ...
CreateMeta(p) ==
    LET k == load[p].key IN
    /\ LoadAt(p, "bump")
    /\ IF entry[k] = NoDir THEN Goes(p, "compile") /\ UNCHANGED entry
       ELSE Goes(p, "rename") /\ entry' = [entry EXCEPT ![k].tmps = @ \cup {p}]
    /\ UNCHANGED <<gc, spent>>

\* ... renamed over it, whoever's entry is there by now. Either way the hit
\* is only returned if the bump went through.
RenameMeta(p) ==
    LET k == load[p].key
        uses == load[p].meta IN
    /\ LoadAt(p, "rename")
    /\ IF entry[k] # NoDir /\ p \in entry[k].tmps
       THEN /\ entry' = [entry EXCEPT ![k].tmps = @ \ {p},
                                      ![k].meta = IF uses < MaxUses THEN uses + 1 ELSE uses]
            /\ Goes(p, "unseal")
       ELSE Goes(p, "compile") /\ UNCHANGED entry
    /\ UNCHANGED <<gc, spent>>

\* unseal_artifact: the bytes must match the hash sealed in with them.
Unseal(p) ==
    /\ LoadAt(p, "unseal")
    /\ IF load[p].image.whole THEN Ends(p, "hit") ELSE Goes(p, "compile")
    /\ UNCHANGED <<entry, gc, spent>>

\* The component is compiled, and the image offered to the cache: an entry
\* that exists is left in place.
Compile(p) ==
    /\ LoadAt(p, "compile")
    /\ IF entry[load[p].key] # NoDir THEN Ends(p, "stored") ELSE Goes(p, "build")
    /\ UNCHANGED <<entry, gc, spent>>

\* Variant: the entry is built in place.
BuildEntry_InPlace(p) ==
    LET k == load[p].key IN
    \/ /\ LoadAt(p, "build") /\ Goes(p, "fill")
       /\ entry' = [entry EXCEPT ![k] = [image |-> Partial(k), meta |-> 1, tmps |-> {}]]
       /\ UNCHANGED <<gc, spent>>
    \/ /\ LoadAt(p, "fill") /\ Ends(p, "stored")
       /\ entry' = IF entry[k] = NoDir THEN entry ELSE [entry EXCEPT ![k].image = Whole(k)]
       /\ UNCHANGED <<gc, spent>>

\* build_entry: both files are written in a temporary directory, which rename
\* moves to a free name or over an empty directory. An entry that got there
\* first is as good.
BuildEntry(p) ==
    LET k == load[p].key IN
    /\ LoadAt(p, "build") /\ Ends(p, "stored")
    /\ entry' = IF entry[k] \in {NoDir, EmptyDir}
                THEN [entry EXCEPT ![k] = [image |-> Whole(k), meta |-> 1, tmps |-> {}]]
                ELSE entry
    /\ UNCHANGED <<gc, spent>>

\* The keys cache_entries lists: a directory without a meta is passed over.
Listed == {k \in Keys : entry[k] # NoDir /\ entry[k].meta # NoFileYet}

\* CachePolicy::plan: the least used go, until the rest fits. Among equals the
\* time of the last use and the key decide, any of them here.
Plans == {evict \in SUBSET Listed :
            /\ Cardinality(Listed \ evict) <= Budget
            /\ \A k \in evict : Cardinality(Listed \ evict) + 1 > Budget
            /\ \A k \in evict, j \in Listed \ evict : entry[k].meta <= entry[j].meta}

BeginGc ==
    /\ gc = NoGc /\ spent.gcs < MaxGcs /\ spent' = [spent EXCEPT !.gcs = @ + 1]
    /\ \E evict \in Plans : gc' = [at |-> "next", evict |-> evict]
    /\ UNCHANGED <<entry, load>>

\* remove_dir_all of the next entry; one that is gone already ends the run.
GcNext ==
    /\ gc.at = "next"
    /\ \/ gc.evict = {} /\ gc' = NoGc
       \/ \E k \in gc.evict :
            gc' = IF entry[k] = NoDir THEN NoGc
                  ELSE [at |-> "remove", evict |-> gc.evict \ {k}, key |-> k]
    /\ UNCHANGED <<entry, load, spent>>

\* The files of the entry, in the order the directory lists them.
GcUnlink ==
    LET k == gc.key IN
    /\ gc.at = "remove" /\ entry[k] # NoDir
    /\ \/ entry[k].image # NoFileYet /\ entry' = [entry EXCEPT ![k].image = NoFileYet]
       \/ entry[k].meta # NoFileYet /\ entry' = [entry EXCEPT ![k].meta = NoFileYet]
       \/ \E p \in entry[k].tmps : entry' = [entry EXCEPT ![k].tmps = @ \ {p}]
    /\ UNCHANGED <<load, gc, spent>>

\* The directory itself, which must be empty: a meta that a lookup put there
\* after the listing ends the run.
GcRmdir ==
    LET k == gc.key IN
    /\ gc.at = "remove" /\ (entry[k] # NoDir => entry[k].image = NoFileYet)
    /\ IF entry[k] = EmptyDir
       THEN entry' = [entry EXCEPT ![k] = NoDir] /\ gc' = [at |-> "next", evict |-> gc.evict]
       ELSE gc' = NoGc /\ UNCHANGED entry
    /\ UNCHANGED <<load, spent>>

\* A process is killed; what it has written stays.
KillLoad(p) ==
    /\ load[p].at \notin {"idle", "ran"} /\ spent.kills < MaxCacheKills
    /\ load' = [load EXCEPT ![p] = NoLoad] /\ spent' = [spent EXCEPT !.kills = @ + 1]
    /\ UNCHANGED <<entry, gc>>
KillGc ==
    /\ gc # NoGc /\ spent.kills < MaxCacheKills
    /\ gc' = NoGc /\ spent' = [spent EXCEPT !.kills = @ + 1]
    /\ UNCHANGED <<entry, load>>

CacheNext ==
    \/ \E p \in Loaders :
         \/ \E k \in Keys : StartLoad(p, k)
         \/ ReadMeta(p) \/ ReadImage(p) \/ CreateMeta(p) \/ RenameMeta(p) \/ Unseal(p)
         \/ Compile(p) \/ BuildEntry(p) \/ KillLoad(p)
    \/ BeginGc \/ GcNext \/ GcUnlink \/ GcRmdir \/ KillGc

CacheSpec == CacheInit /\ [][CacheNext]_cacheVars
-----------------------------------------------------------------------------
CacheTypeOK ==
    /\ \A k \in Keys : entry[k] # NoDir =>
          /\ entry[k].image \in {NoFileYet, Whole(k), Partial(k)}
          /\ entry[k].meta = NoFileYet \/ entry[k].meta \in 1 .. MaxUses
          /\ entry[k].tmps \subseteq Loaders
    /\ gc.evict \subseteq Keys

\* "readers never observe a partially written ... cache entry": the image a
\* lookup has read is the complete one of its key, whatever inserts, lookups
\* and evictions of that entry it ran beside, and whichever of them were killed.
LookupsAreWhole ==
    \A p \in Loaders : load[p].at \in {"bump", "rename", "unseal"} => load[p].image = Whole(load[p].key)
=============================================================================
