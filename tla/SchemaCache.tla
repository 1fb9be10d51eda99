---------------------------- MODULE SchemaCache ----------------------------
(***************************************************************************)
(* The caching schema resolver of pkg/controller/schemaresolver: a map     *)
(* from group/version/kind to the discovery resolver's outcome, guarded by *)
(* an RWMutex, purged by a handler on the CRD informer.                    *)
(*                                                                         *)
(* A schema is abstracted to the CRD state it was published from: the     *)
(* revision of the last write and whether the CRD exists (a resolution of  *)
(* a kind that does not exist is a NotFound error).  The API server        *)
(* publishes a CRD's schema to discovery some time after the CRD changes,  *)
(* so published[gk] lags crd[gk].  A read-locked section is one atomic    *)
(* step; the write lock taken for a miss is held across the discovery call *)
(* and the store, during which discovery may change.                       *)
(***************************************************************************)
EXTENDS Naturals, Sequences

CONSTANTS
    GKs,          \* group/kinds defined by CRDs
    Versions,     \* versions of those kinds
    TypeMetaGKs,  \* group/kinds a CRD object's own TypeMeta may carry
    Threads,      \* goroutines calling ResolveSchema concurrently
    MaxRev,       \* bound on CRD writes
    MaxPending,   \* bound on undelivered CRD notifications
    WatchGaps,    \* TRUE if a watch may lose a CRD delete
    None          \* no cache entry / no gvk

ASSUME TypeMetaGKs \cap GKs = {} /\ MaxRev \in Nat /\ WatchGaps \in BOOLEAN

GVKs == GKs \X Versions
GK(gvk) == gvk[1]

VARIABLES
    crd,        \* the CRD defining each group/kind: existence and revision
    rev,        \* revision counter of CRD writes
    published,  \* what discovery serves for each group/kind
    pending,    \* CRD informer notifications not yet handled
    hpc,        \* the CRD handler: "idle" or the purge of an update's new object
    cache,      \* r.cache: gvk -> [val, at] or None
    writer,     \* the goroutine holding r.lock for writing, or None
    pc,         \* per calling goroutine
    tgvk,       \* the gvk each goroutine resolves
    fetched,    \* per goroutine: the discovery outcome it is about to store
    seenRev,    \* history: per gk, the CRD revision of the last handled event
    crashed     \* the handler panicked

vars == <<crd, rev, published, pending, hpc, cache, writer, pc, tgvk, fetched,
          seenRev, crashed>>

CrdState == [live: BOOLEAN, rev: 0..MaxRev]
NoCrd == [live |-> FALSE, rev |-> 0]

\* A cache entry: the resolver's outcome (a schema, or NotFound when the
\* state is not live) and, as history, the CRD revision counter at the time
\* it was resolved.
Entry == [val: CrdState, at: 0..MaxRev]

Notification ==
    [type: {"add", "update", "delete"}, gk: GKs, oldTM: TypeMetaGKs,
     newTM: TypeMetaGKs, rev: 0..MaxRev, tomb: BOOLEAN]

-----------------------------------------------------------------------------
(* The cluster: CRD writes, delivered by the CRD informer, and discovery.  *)

CrdWrite(gk) ==
    /\ rev < MaxRev /\ Len(pending) < MaxPending /\ ~crashed
    /\ \E type \in {"add", "update", "delete"}, oldTM, newTM \in TypeMetaGKs,
          tomb \in {FALSE, WatchGaps} :
          /\ type = "add" <=> ~crd[gk].live
          /\ tomb => type = "delete"
          /\ rev' = rev + 1
          /\ crd' = [crd EXCEPT ![gk] = [live |-> type # "delete", rev |-> rev + 1]]
          /\ pending' = Append(pending, [type |-> type, gk |-> gk, oldTM |-> oldTM,
                                         newTM |-> newTM, rev |-> rev + 1, tomb |-> tomb])
    /\ UNCHANGED <<published, hpc, cache, writer, pc, tgvk, fetched, seenRev, crashed>>

\* Discovery catches up with the CRD.
Publish(gk) ==
    /\ published[gk] # crd[gk]
    /\ published' = [published EXCEPT ![gk] = crd[gk]]
    /\ UNCHANGED <<crd, rev, pending, hpc, cache, writer, pc, tgvk, fetched, seenRev, crashed>>

-----------------------------------------------------------------------------
(* Controller.Run's handler and purgeCRDFromCache                          *)

\* purgeCRDFromCache(gk): under the write lock, delete every entry whose
\* group and kind equal gk's.
PurgeCRDFromCache(gk) ==
    cache' = [gvk \in GVKs |-> IF GK(gvk) = gk THEN None ELSE cache[gvk]]

\* AddFunc / DeleteFunc, and the first purge of UpdateFunc: the type
\* assertion to *CustomResourceDefinition panics on a tombstone; otherwise
\* purge by the group/kind of the object's TypeMeta.
HandleEvent ==
    LET n == Head(pending) IN
    /\ pending # <<>> /\ hpc = "idle" /\ writer = None /\ ~crashed
    /\ seenRev' = [seenRev EXCEPT ![n.gk] = n.rev]
    /\ IF n.tomb
       THEN /\ crashed' = TRUE
            /\ UNCHANGED <<cache, hpc, pending>>
       ELSE /\ PurgeCRDFromCache(n.oldTM)
            /\ hpc' = IF n.type = "update" THEN "second" ELSE "idle"
            /\ pending' = IF n.type = "update" THEN pending ELSE Tail(pending)
            /\ UNCHANGED crashed
    /\ UNCHANGED <<crd, rev, published, writer, pc, tgvk, fetched>>

\* UpdateFunc's second purge, by the new object's TypeMeta.
HandleUpdateNew ==
    /\ hpc = "second" /\ writer = None
    /\ PurgeCRDFromCache(Head(pending).newTM)
    /\ hpc' = "idle"
    /\ pending' = Tail(pending)
    /\ UNCHANGED <<crd, rev, published, writer, tgvk, pc, fetched, seenRev, crashed>>

-----------------------------------------------------------------------------
(* ResolveSchema                                                           *)

\* The discovery-based resolver: the published schema, or NotFound.
DiscoveryResolve(gvk) == published[GK(gvk)]

\* resolveSchemaFromCache under the read lock: a hit (schema or cached
\* error) is returned, a miss goes on to take the write lock.
ResolveFromCache(t) ==
    /\ pc[t] = "idle" /\ writer = None /\ ~crashed
    /\ \E gvk \in GVKs :
          /\ tgvk' = [tgvk EXCEPT ![t] = gvk]
          /\ pc' = [pc EXCEPT ![t] = IF cache[gvk] = None THEN "miss" ELSE "idle"]
    /\ UNCHANGED <<crd, rev, published, pending, hpc, cache, writer, fetched,
                   seenRev, crashed>>

\* Mutant of ResolveFetch: the discovery call is made without the lock.
ResolveFetchUnlocked(t) ==
    /\ pc[t] = "miss"
    /\ fetched' = [fetched EXCEPT ![t] = [val |-> DiscoveryResolve(tgvk[t]), at |-> rev]]
    /\ pc' = [pc EXCEPT ![t] = "store"]
    /\ UNCHANGED <<crd, rev, published, pending, hpc, cache, writer, tgvk, seenRev, crashed>>

\* r.lock.Lock(), then the discovery resolver's answer.
ResolveFetch(t) ==
    /\ pc[t] = "miss" /\ writer = None
    /\ writer' = t
    /\ fetched' = [fetched EXCEPT ![t] = [val |-> DiscoveryResolve(tgvk[t]), at |-> rev]]
    /\ pc' = [pc EXCEPT ![t] = "store"]
    /\ UNCHANGED <<crd, rev, published, pending, hpc, cache, tgvk, seenRev, crashed>>

\* r.cache[gvk] = res, overwriting whatever another goroutine stored since
\* this one missed; the deferred Unlock.
ResolveStore(t) ==
    /\ pc[t] = "store"
    /\ cache' = [cache EXCEPT ![tgvk[t]] = fetched[t]]
    /\ writer' = None
    /\ pc' = [pc EXCEPT ![t] = "idle"]
    /\ UNCHANGED <<crd, rev, published, pending, hpc, tgvk, fetched, seenRev, crashed>>

-----------------------------------------------------------------------------

Init ==
    /\ crd = [gk \in GKs |-> NoCrd]
    /\ rev = 0
    /\ published = [gk \in GKs |-> NoCrd]
    /\ pending = <<>>
    /\ hpc = "idle"
    /\ cache = [gvk \in GVKs |-> None]
    /\ writer = None
    /\ pc = [t \in Threads |-> "idle"]
    /\ tgvk = [t \in Threads |-> None]
    /\ fetched = [t \in Threads |-> [val |-> NoCrd, at |-> 0]]
    /\ seenRev = [gk \in GKs |-> 0]
    /\ crashed = FALSE

Next ==
    \/ \E gk \in GKs : CrdWrite(gk) \/ Publish(gk)
    \/ HandleEvent
    \/ HandleUpdateNew
    \/ \E t \in Threads : ResolveFromCache(t) \/ ResolveFetch(t) \/ ResolveStore(t)

Spec == Init /\ [][Next]_vars

-----------------------------------------------------------------------------

TypeOK ==
    /\ crd \in [GKs -> CrdState] /\ published \in [GKs -> CrdState]
    /\ rev \in 0..MaxRev
    /\ pending \in Seq(Notification)
    /\ hpc \in {"idle", "second"}
    /\ cache \in [GVKs -> Entry \cup {None}]
    /\ writer \in Threads \cup {None}
    /\ pc \in [Threads -> {"idle", "miss", "store"}]
    /\ tgvk \in [Threads -> GVKs \cup {None}]
    /\ fetched \in [Threads -> Entry]
    /\ seenRev \in [GKs -> 0..MaxRev]
    /\ crashed \in BOOLEAN

\* A cache entry never moves back to an older schema: when two misses for
\* the same gvk race, the last write wins, and it must be the newer
\* resolution.  This rests on the discovery call being made under the write
\* lock, not between the read-locked lookup and the store.
MonotoneCache ==
    [][\A gvk \in GVKs :
          (cache[gvk] # None /\ cache'[gvk] # None) =>
              cache'[gvk].val.rev >= cache[gvk].val.rev]_vars

\* Spec section 8, property 4: once the handler has processed a change of the
\* CRD for (g, k), no entry for any version of (g, k) resolved before that
\* change is left in the cache.
InvalidatedAfterChange ==
    \A gvk \in GVKs : cache[gvk] # None => cache[gvk].at >= seenRev[GK(gvk)]

\* The CRD informer's handler never panics.
HandlerNeverPanics == ~crashed

=============================================================================
