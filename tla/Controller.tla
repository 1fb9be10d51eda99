----------------------------- MODULE Controller -----------------------------
(***************************************************************************)
(* The generic reconciliation controller of pkg/controller/generic.go,     *)
(* together with the parts of client-go it is built on: the informer that  *)
(* mirrors objects into an indexer and calls the registered event handler, *)
(* and the rate-limiting work queue (queue, dirty and processing sets,     *)
(* delayed re-adds, per-key failure counters).                             *)
(*                                                                         *)
(* An object is abstracted to its resource version: store[k] = 0 means the *)
(* key has no object in the indexer, any other value is the resource       *)
(* version of the object the indexer holds.  Resource versions are drawn   *)
(* from one cluster-wide counter, as etcd revisions are.                   *)
(***************************************************************************)
EXTENDS Naturals, Sequences, SequencesExt, FiniteSets

CONSTANTS
    Keys,        \* namespace/name keys of the watched objects
    Workers,     \* the worker goroutines (options.Workers of them)
    MaxRV,       \* bound on the resource-version counter
    MaxPending,  \* bound on undelivered informer notifications
    MaxRetries,  \* bound on consecutive reconcile failures per key
    WatchGaps,   \* TRUE if a watch may lose a delete that a relist then finds
    NoKey        \* the key of a worker that holds none

ASSUME MaxRV \in Nat /\ MaxPending \in Nat \ {0} /\ MaxRetries \in Nat
ASSUME WatchGaps \in BOOLEAN /\ NoKey \notin Keys

VARIABLES
    phase,        \* where Run(ctx) is
    ctxDone,      \* the context passed to Run has been cancelled
    synced,       \* informer.HasSynced()
    store,        \* the informer's indexer: key -> resource version (0 = absent)
    rv,           \* last resource version handed out by the API server
    pending,      \* notifications the informer has not yet given the handler
    queue,        \* workqueue: FIFO of keys ready to be processed
    dirty,        \* workqueue: keys that need processing
    processing,   \* workqueue: keys a worker holds between Get and Done
    shuttingDown, \* workqueue: ShutDown / ShutDownWithDrain was called
    waiting,      \* delaying queue: keys re-added after their backoff
    failures,     \* rate limiter: per-key failure count, reset by Forget
    wpc,          \* per-worker program counter
    wkey,         \* per-worker key it holds
    lastSeen      \* per key: the store value the last successful reconcile read

vars == <<phase, ctxDone, synced, store, rv, pending, queue, dirty, processing,
          shuttingDown, waiting, failures, wpc, wkey, lastSeen>>

Phases == {"Syncing", "Running", "Draining", "Waiting", "Stopped"}
WorkerPCs == {"none", "unstarted", "idle", "processing", "done", "exited"}

\* An informer notification. For a delete, "tomb" marks a
\* DeletedFinalStateUnknown tombstone produced by a relist that missed the
\* delete event; the handler then receives the tombstone, not the object.
Notification ==
    [type: {"add", "update", "delete"}, key: Keys, old: 0..MaxRV,
     new: 0..MaxRV, tomb: BOOLEAN]

-----------------------------------------------------------------------------
(* The work queue (client-go workqueue.Type, delayingType, rateLimitingType) *)

\* Mutant of QueueAdd: a key being processed is queued again at once.
QueueAddIgnoringProcessing(k) ==
    IF shuttingDown \/ k \in dirty
    THEN UNCHANGED <<queue, dirty>>
    ELSE /\ dirty' = dirty \cup {k}
         /\ queue' = Append(queue, k)

\* Add: dropped while shutting down or already dirty; a key being processed
\* is only marked dirty and is queued again by Done.
QueueAdd(k) ==
    IF shuttingDown \/ k \in dirty
    THEN UNCHANGED <<queue, dirty>>
    ELSE /\ dirty' = dirty \cup {k}
         /\ queue' = IF k \in processing THEN queue ELSE Append(queue, k)

\* Mutant of QueueAddRateLimited: the failure is counted, the key not re-added.
QueueAddRateLimitedNoRequeue(k) ==
    /\ failures' = [failures EXCEPT ![k] = @ + 1]
    /\ UNCHANGED waiting

\* AddRateLimited: counts a failure and re-adds the key after a backoff.
QueueAddRateLimited(k) ==
    /\ failures' = [failures EXCEPT ![k] = @ + 1]
    /\ waiting' = IF shuttingDown THEN waiting ELSE waiting \cup {k}

\* Mutant of QueueForget: undoes one failure instead of clearing the count.
QueueForgetDecrement(k) ==
    /\ failures' = [failures EXCEPT ![k] = @ - 1]
    /\ UNCHANGED waiting

\* Forget: clears the key's failure count.
QueueForget(k) ==
    /\ failures' = [failures EXCEPT ![k] = 0]
    /\ UNCHANGED waiting

-----------------------------------------------------------------------------
(* The informer: watch events applied to the indexer, then handed to the   *)
(* registered ResourceEventHandler in order.                               *)

CanNotify == Len(pending) < MaxPending

Notify(n) == pending' = Append(pending, n)

ObjAdd(k) ==
    /\ store[k] = 0 /\ rv < MaxRV /\ CanNotify
    /\ rv' = rv + 1
    /\ store' = [store EXCEPT ![k] = rv + 1]
    /\ Notify([type |-> "add", key |-> k, old |-> 0, new |-> rv + 1, tomb |-> FALSE])

ObjUpdate(k) ==
    /\ store[k] # 0 /\ rv < MaxRV /\ CanNotify
    /\ rv' = rv + 1
    /\ store' = [store EXCEPT ![k] = rv + 1]
    /\ Notify([type |-> "update", key |-> k, old |-> store[k], new |-> rv + 1, tomb |-> FALSE])

\* A delete seen on the watch (tomb = FALSE) or found by a relist after the
\* watch lost the event (tomb = TRUE).
ObjDelete(k, tomb) ==
    /\ store[k] # 0 /\ CanNotify
    /\ store' = [store EXCEPT ![k] = 0]
    /\ Notify([type |-> "delete", key |-> k, old |-> store[k], new |-> 0, tomb |-> tomb])
    /\ UNCHANGED rv

\* The periodic resync: an update whose old and new object are the same.
Resync(k) ==
    /\ store[k] # 0 /\ CanNotify
    /\ Notify([type |-> "update", key |-> k, old |-> store[k], new |-> store[k], tomb |-> FALSE])
    /\ UNCHANGED <<store, rv>>

InformerSynced ==
    /\ ~synced
    /\ synced' = TRUE
    /\ UNCHANGED <<phase, ctxDone, store, rv, pending, queue, dirty, processing,
                   shuttingDown, waiting, failures, wpc, wkey, lastSeen>>

InformerEvent ==
    /\ \E k \in Keys :
          \/ ObjAdd(k)
          \/ ObjUpdate(k)
          \/ \E tomb \in {FALSE, WatchGaps} : ObjDelete(k, tomb)
          \/ Resync(k)
    /\ UNCHANGED <<phase, ctxDone, synced, queue, dirty, processing,
                   shuttingDown, waiting, failures, wpc, wkey, lastSeen>>

-----------------------------------------------------------------------------
(* controller.Run: the event handler built around enqueue                  *)

\* enqueue: MetaNamespaceKeyFunc fails on a tombstone (it is not an object
\* with metadata), so the error is reported and nothing is added.
Enqueue(n) ==
    IF n.tomb THEN UNCHANGED <<queue, dirty>> ELSE QueueAdd(n.key)

\* AddFunc / UpdateFunc / DeleteFunc; UpdateFunc skips an update whose old
\* and new resource versions are equal.
HandleNotification(n) ==
    IF n.type = "update" /\ n.old = n.new
    THEN UNCHANGED <<queue, dirty>>
    ELSE Enqueue(n)

DeliverNotification ==
    /\ pending # <<>>
    /\ HandleNotification(Head(pending))
    /\ pending' = Tail(pending)
    /\ UNCHANGED <<phase, ctxDone, synced, store, rv, processing, shuttingDown,
                   waiting, failures, wpc, wkey, lastSeen>>

\* WaitForNamedCacheSync returns true: the workers are spawned.
SyncSucceeded ==
    /\ phase = "Syncing" /\ synced
    /\ phase' = "Running"
    /\ wpc' = [w \in Workers |-> "unstarted"]
    /\ UNCHANGED <<ctxDone, synced, store, rv, pending, queue, dirty, processing,
                   shuttingDown, waiting, failures, wkey, lastSeen>>

\* WaitForNamedCacheSync returns false because ctx was cancelled: Run returns
\* ctx.Err() without touching the queue.
SyncCancelled ==
    /\ phase = "Syncing" /\ ctxDone
    /\ phase' = "Stopped"
    /\ UNCHANGED <<ctxDone, synced, store, rv, pending, queue, dirty, processing,
                   shuttingDown, waiting, failures, wpc, wkey, lastSeen>>

Cancel ==
    /\ ~ctxDone
    /\ ctxDone' = TRUE
    /\ UNCHANGED <<phase, synced, store, rv, pending, queue, dirty, processing,
                   shuttingDown, waiting, failures, wpc, wkey, lastSeen>>

\* Mutant of BeginDrain: Run waits for the workers without shutting the
\* queue down.
BeginDrainWithoutShutDown ==
    /\ phase = "Running" /\ ctxDone
    /\ phase' = "Draining"
    /\ UNCHANGED <<ctxDone, synced, store, rv, pending, queue, dirty, processing,
                   shuttingDown, waiting, failures, wpc, wkey, lastSeen>>

\* <-ctx.Done() returns; ShutDownWithDrain marks the queue shutting down.
BeginDrain ==
    /\ phase = "Running" /\ ctxDone
    /\ phase' = "Draining"
    /\ shuttingDown' = TRUE
    /\ UNCHANGED <<ctxDone, synced, store, rv, pending, queue, dirty, processing,
                   waiting, failures, wpc, wkey, lastSeen>>

\* ShutDownWithDrain returns once nothing is being processed.
EndDrain ==
    /\ phase = "Draining" /\ processing = {}
    /\ phase' = "Waiting"
    /\ UNCHANGED <<ctxDone, synced, store, rv, pending, queue, dirty, processing,
                   shuttingDown, waiting, failures, wpc, wkey, lastSeen>>

\* waitGroup.Wait() returns; Run returns ctx.Err().
Stop ==
    /\ phase = "Waiting" /\ \A w \in Workers : wpc[w] = "exited"
    /\ phase' = "Stopped"
    /\ UNCHANGED <<ctxDone, synced, store, rv, pending, queue, dirty, processing,
                   shuttingDown, waiting, failures, wpc, wkey, lastSeen>>

\* The delaying queue's backoff for a key expires and the key is added.
BackoffExpired(k) ==
    /\ k \in waiting
    /\ waiting' = waiting \ {k}
    /\ QueueAdd(k)
    /\ UNCHANGED <<phase, ctxDone, synced, store, rv, pending, processing,
                   shuttingDown, failures, wpc, wkey, lastSeen>>

-----------------------------------------------------------------------------
(* The worker goroutines: wait.Until(c.runWorker, time.Second, ctx.Done()) *)

\* wait.Until checks the stop channel before it first calls runWorker.
WorkerStart(w) ==
    /\ wpc[w] = "unstarted"
    /\ wpc' = [wpc EXCEPT ![w] = IF ctxDone THEN "exited" ELSE "idle"]
    /\ UNCHANGED <<phase, ctxDone, synced, store, rv, pending, queue, dirty,
                   processing, shuttingDown, waiting, failures, wkey, lastSeen>>

\* queue.Get(): blocks while the queue is empty and not shutting down.
WorkerGet(w) ==
    /\ wpc[w] = "idle"
    /\ queue # <<>>
    /\ wpc' = [wpc EXCEPT ![w] = "processing"]
    /\ wkey' = [wkey EXCEPT ![w] = Head(queue)]
    /\ queue' = Tail(queue)
    /\ processing' = processing \cup {Head(queue)}
    /\ dirty' = dirty \ {Head(queue)}
    /\ UNCHANGED <<phase, ctxDone, synced, store, rv, pending, shuttingDown,
                   waiting, failures, lastSeen>>

\* queue.Get() reports shutdown: runWorker returns and wait.Until stops.
WorkerExit(w) ==
    /\ wpc[w] = "idle"
    /\ queue = <<>> /\ shuttingDown
    /\ wpc' = [wpc EXCEPT ![w] = "exited"]
    /\ UNCHANGED <<phase, ctxDone, synced, store, rv, pending, queue, dirty,
                   processing, shuttingDown, waiting, failures, wkey, lastSeen>>

\* lister.Get(name): the indexer's object, or NotFound (0) for a deleted one.
ListerGet(k) == store[k]

\* Mutant of WorkerReconcile: an error forgets the key instead of re-adding it.
WorkerReconcileForgettingFailure(w) ==
    LET k == wkey[w] IN
    /\ wpc[w] = "processing"
    /\ \/ /\ failures[k] < MaxRetries
          /\ QueueForget(k)
          /\ UNCHANGED lastSeen
       \/ /\ QueueForget(k)
          /\ lastSeen' = [lastSeen EXCEPT ![k] = ListerGet(k)]
    /\ wpc' = [wpc EXCEPT ![w] = "done"]
    /\ UNCHANGED <<phase, ctxDone, synced, store, rv, pending, queue, dirty,
                   processing, shuttingDown, wkey>>

\* c.reconcile(key) calls the reconciler with the object read from the
\* lister; an error re-adds the key rate-limited, success forgets it and
\* the reconciler has then acted on the object it read.
WorkerReconcile(w) ==
    LET k == wkey[w] IN
    /\ wpc[w] = "processing"
    /\ \/ /\ failures[k] < MaxRetries
          /\ QueueAddRateLimited(k)
          /\ UNCHANGED lastSeen
       \/ /\ QueueForget(k)
          /\ lastSeen' = [lastSeen EXCEPT ![k] = ListerGet(k)]
    /\ wpc' = [wpc EXCEPT ![w] = "done"]
    /\ UNCHANGED <<phase, ctxDone, synced, store, rv, pending, queue, dirty,
                   processing, shuttingDown, wkey>>

\* Mutant of WorkerDone: Done forgets that the key became dirty.
WorkerDoneDroppingDirty(w) ==
    LET k == wkey[w] IN
    /\ wpc[w] = "done"
    /\ processing' = processing \ {k}
    /\ wpc' = [wpc EXCEPT ![w] = "idle"]
    /\ wkey' = [wkey EXCEPT ![w] = NoKey]
    /\ UNCHANGED <<phase, ctxDone, synced, store, rv, pending, queue, dirty,
                   shuttingDown, waiting, failures, lastSeen>>

\* The deferred queue.Done(obj): a key that became dirty meanwhile is queued.
WorkerDone(w) ==
    LET k == wkey[w] IN
    /\ wpc[w] = "done"
    /\ processing' = processing \ {k}
    /\ queue' = IF k \in dirty THEN Append(queue, k) ELSE queue
    /\ wpc' = [wpc EXCEPT ![w] = "idle"]
    /\ wkey' = [wkey EXCEPT ![w] = NoKey]
    /\ UNCHANGED <<phase, ctxDone, synced, store, rv, pending, dirty,
                   shuttingDown, waiting, failures, lastSeen>>

-----------------------------------------------------------------------------

Init ==
    /\ phase = "Syncing"
    /\ ctxDone = FALSE
    /\ synced = FALSE
    /\ store = [k \in Keys |-> 0]
    /\ rv = 0
    /\ pending = <<>>
    /\ queue = <<>>
    /\ dirty = {}
    /\ processing = {}
    /\ shuttingDown = FALSE
    /\ waiting = {}
    /\ failures = [k \in Keys |-> 0]
    /\ wpc = [w \in Workers |-> "none"]
    /\ wkey = [w \in Workers |-> NoKey]
    /\ lastSeen = [k \in Keys |-> 0]

WorkerStep(w) ==
    \/ WorkerStart(w)
    \/ WorkerGet(w)
    \/ WorkerExit(w)
    \/ WorkerReconcile(w)
    \/ WorkerDone(w)

RunStep ==
    \/ SyncSucceeded
    \/ SyncCancelled
    \/ BeginDrain
    \/ EndDrain
    \/ Stop

Next ==
    \/ InformerEvent
    \/ InformerSynced
    \/ DeliverNotification
    \/ Cancel
    \/ RunStep
    \/ \E k \in Keys : BackoffExpired(k)
    \/ \E w \in Workers : WorkerStep(w)

\* The informer, the handler's delivery goroutine, the delaying queue's
\* timer loop, Run and every worker goroutine keep running once they can;
\* the API server's writes and the cancellation of ctx are not assumed.
Fairness ==
    /\ WF_vars(InformerSynced)
    /\ WF_vars(DeliverNotification)
    /\ WF_vars(RunStep)
    /\ \A k \in Keys : WF_vars(BackoffExpired(k))
    /\ \A w \in Workers : WF_vars(WorkerStep(w))

Spec == Init /\ [][Next]_vars /\ Fairness

-----------------------------------------------------------------------------

TypeOK ==
    /\ phase \in Phases
    /\ ctxDone \in BOOLEAN /\ synced \in BOOLEAN /\ shuttingDown \in BOOLEAN
    /\ store \in [Keys -> 0..MaxRV]
    /\ rv \in 0..MaxRV
    /\ pending \in Seq(Notification) /\ Len(pending) <= MaxPending
    /\ queue \in Seq(Keys)
    /\ dirty \subseteq Keys /\ processing \subseteq Keys /\ waiting \subseteq Keys
    /\ failures \in [Keys -> 0..MaxRetries]
    /\ wpc \in [Workers -> WorkerPCs]
    /\ wkey \in [Workers -> Keys \cup {NoKey}]
    /\ lastSeen \in [Keys -> 0..MaxRV]

\* Workers that hold key k between queue.Get and queue.Done.
Holders(k) == {w \in Workers : wpc[w] \in {"processing", "done"} /\ wkey[w] = k}

\* At most one worker reconciles a key at a time, and a key waits in the
\* queue at most once and never while a worker holds it: the dedup of
\* workqueue Add against dirty/processing, and Done's re-queue of dirty keys.
AtMostOneInFlight ==
    \A k \in Keys :
        /\ Cardinality(Holders(k)) <= 1
        /\ Cardinality({i \in DOMAIN queue : queue[i] = k}) <= 1
        /\ Holders(k) # {} => ~Contains(queue, k)

\* Key k still has a reconcile coming: a notification for it is undelivered,
\* it is in the queue, it is dirty while processed (Done will queue it), it
\* is in backoff, or a worker holds it and has not yet read the lister.
ReconcileOwed(k) ==
    \/ \E i \in DOMAIN pending : pending[i].key = k
    \/ Contains(queue, k)
    \/ k \in dirty /\ k \in processing
    \/ k \in waiting
    \/ \E w \in Holders(k) : wpc[w] = "processing"

\* No lost update: until the queue shuts down, whenever the indexer holds a
\* different object for k than the last successful reconcile of k read, another
\* reconcile of k is owed.  This is what the handler's enqueue, UpdateFunc's
\* resource-version filter, dirty marking and AddRateLimited must provide.
NoLostUpdate ==
    ~shuttingDown => \A k \in Keys : store[k] # lastSeen[k] => ReconcileOwed(k)

\* Every change of the indexer is eventually seen by a successful reconcile, unless the
\* context of Run is cancelled first.
EventuallyReconciled ==
    \A k \in Keys : (store[k] # lastSeen[k]) ~> (store[k] = lastSeen[k] \/ ctxDone)

-----------------------------------------------------------------------------
(* Refinement: the controller implements KeyedReconcile.  A reconcile of k *)
(* is owed while a notification that the handler will enqueue is pending,  *)
(* or k is queued, dirty or in backoff; a key's run is the program counter *)
(* of the worker holding it; stopping is the cancellation of Run's ctx.   *)

EnqueuedBy(n) == ~n.tomb /\ ~(n.type = "update" /\ n.old = n.new)

OwedMap ==
    [k \in Keys |->
        \/ \E i \in DOMAIN pending : pending[i].key = k /\ EnqueuedBy(pending[i])
        \/ Contains(queue, k) \/ k \in dirty \/ k \in waiting]

RunMap ==
    [k \in Keys |->
        IF Holders(k) = {} THEN "no"
        ELSE IF wpc[CHOOSE w \in Holders(k) : TRUE] = "processing" THEN "started"
        ELSE "read"]

KR == INSTANCE KeyedReconcile
        WITH Values <- 0..MaxRV, owed <- OwedMap, run <- RunMap,
             stopping <- ctxDone

\* Every step of the controller is a step of KeyedReconcile: no change of an
\* object goes without an owed reconcile, a worker takes a key only when
\* one is owed and no other worker holds it, an error re-adds the key, and
\* obligations are dropped only after ctx is cancelled (by the shut-down
\* queue's Add or the delaying queue after ShutDownWithDrain).
ImplementsKeyedReconcile == KR!Spec

\* With the fairness of the informer, the delaying queue, Run and the
\* workers, the controller also meets KeyedReconcile's progress promise:
\* before ctx is cancelled every owed key is taken by a worker once no
\* worker holds it (Done re-queues a key that became dirty meanwhile, Get
\* serves the FIFO), and a taken key is reconciled and released even after
\* the cancel.
ImplementsKeyedReconcileLive == KR!LiveSpec

\* Once the workers were started, Run returns only after every queued and
\* in-flight key was processed (the drain the comment at ShutDownWithDrain
\* promises).
DrainCompletes ==
    (phase = "Stopped" /\ shuttingDown) => (queue = <<>> /\ processing = {})

\* Cancelling the context eventually makes Run return.
CancelStops == ctxDone ~> (phase = "Stopped")

=============================================================================
