# TLA+ models of cel-admission-webhook

This directory holds TLA+ specifications of the concurrent and stateful parts of
the repository. The repository is a validating admission webhook. It evaluates
ValidatingAdmissionPolicies that are stored in a CRD under
`admissionregistration.x-k8s.io`. It reads them through a client that presents
them as the native `admissionregistration.k8s.io` type. Each module is
translated from the Go source. `PROJECT.json` maps every modelled definition to
the lines it stands for. It also lists the runs, the mutants, the findings and
the hazards.

## 1. The system and how its parts interact

| Part | Source | State | Operations |
|---|---|---|---|
| Reconciliation controller | `pkg/controller/generic.go` | informer handler registration; client-go work queue (queue, dirty and processing sets, rate limiter); worker goroutines | `Run` (register handler, wait for cache sync, spawn workers, wait for cancel, `ShutDownWithDrain`, wait); `runWorker`; `reconcile` |
| Indexed lister | `pkg/controller/lister.go` | the informer's indexer (read only) | `Get`, `Namespaced`, `List` |
| Schema cache | `pkg/controller/schemaresolver/resolver.go` | `cache` map gvk → cacheEntry, `RWMutex` | `ResolveSchema` (read-locked lookup, write-locked discovery call and store); `purgeCRDFromCache`; `Run` (CRD informer handlers) |
| Type-transforming client | `pkg/controller/transformed_client.go` | none of its own; the backing CRD client | `Create`, `Update`, `UpdateStatus`, `Delete`, `DeleteCollection`, `Get`, `List`, `Watch`; `Patch`/`Apply`/`ApplyStatus` panic |
| Conversion pair and wrapped clientset | `.../v1alpha1/injected_client.go` | none | `NativeToCRDPolicy`, `CRDToNativePolicy` (JSON round trip plus apiVersion relabel); binding variants; routing of the typed clientset |
| Admission plugin and multi-validator | `.../v1alpha1/plugin.go`, `pkg/validator/multi.go` | the CEL evaluator's informers (external) | `Handles`, `HasSynced`, `Run`, `Validate` (policy resources pass; otherwise poll readiness for 1 s, then deny "not yet ready" or evaluate) |
| Process lifecycle | `cmd/cel-admission-webhook/main.go` | root and server contexts; wait group | client setup; goroutines for each runnable validator and for the HTTP server, each cancelling the server context on exit; factory start; `waitGroup.Wait` |
| Interceptor proxy | `cmd/interceptor/main.go` | per exchange: the rewritten request, the body pipe and its copying goroutine, the response | `runServer`/`main` (serve or exit 1); `Rewrite` (path rename, body relayed line by line through `io.Pipe` with the group renamed); `ModifyResponse` (read all of a CRD-group response, rename the group back) |
| PKI/gentls, alertmanager client, integration test server | `pkg/pki`, `cmd/gentls`, `pkg/alertmanager`, `test/integration` | not modelled (section 6) | |

The parts interact as follows:

- The admission plugin's CEL evaluator watches policies through the wrapped
  clientset. `replacedClient` gives the policy client and the binding client
  each a type-transforming client with its own conversion pair, so both
  informers list and watch *through* them. The plugin's readiness,
  `HasSynced`, is the evaluator's, which (in `k8s.io/apiserver`, outside the
  sources) holds once both informers have listed successfully. A comment in
  `HasSynced` says the informer never reports synced after an *empty*
  initial list, and the workaround for that is commented out. Whether the
  informers in use behave that way is outside the sources, so the constant
  `EmptyListSyncs` fixes it per run.
- The plugin resolves schemas through the schema cache. The cache is purged by
  a handler on the CRD informer, which the cache's own `Run` registers.
- The generic controller is the reconciliation engine for informers of this
  kind.
- The interceptor is a separate development tool. It stands between native
  clients and the API server and renames the group in paths and bodies.

## 2. Modules

| Module | Models | Composes |
|---|---|---|
| `KeyedReconcile` | the per-key promise of `generic.go` (abstract) | — |
| `Controller` | `generic.go` `Run`/`runWorker`/`reconcile`, `lister.go` `Get`; client-go informer and work queue as environment | `KeyedReconcile`, as a refinement (`KR == INSTANCE KeyedReconcile WITH ...`) |
| `SchemaCache` | `resolver.go` | — |
| `TransformedClient` | `transformed_client.go` with `injected_client.go`'s conversion pairs and routing, and a consumer informer; the constant `Resource` picks policies or bindings | — |
| `Webhook` | `main.go` lifecycle, `plugin.go`, `multi.go` | two `TransformedClient`s: `TC` for policies (substituted by name), `TCB` for bindings (variables renamed `bBacking`, `bMirror`, ..., and its contents `BindingGens`) |
| `Interceptor` | `cmd/interceptor/main.go` | — |

Each `MC*.tla` gives the constants of one module their values: model values for
keys, workers, names and threads, and named bounds. Each `.cfg` is one run.

### Controller

**State.** The variables split into four groups:

- **The informer.**
  - `store` holds each key's resource version, 0 when absent.
  - `pending` is the ordered notifications not yet handed to the handler.
  - `synced` is the informer's sync flag.
- **The work queue.** `queue`, `dirty`, `processing` and `shuttingDown` are
  client-go `workqueue.Type`. `waiting` is the keys in a rate-limited backoff;
  `failures` is the rate limiter's per-key count.
- **`Run`.** `phase` takes the values Syncing, Running, Draining, Waiting and
  Stopped.
- **Each worker goroutine.** Each worker has `wpc` (unstarted, idle,
  processing, done, exited) and `wkey`. `lastSeen` is history: the store value
  read by each key's last successful reconcile.

**Actions.** Each step of the code has its own action:

- **Handler registration and handlers.** The handlers are `HandleNotification`
  and `Enqueue`, delivered in order by `DeliverNotification`:
  - `UpdateFunc` skips an update whose resource versions are equal.
  - `enqueue` calls `MetaNamespaceKeyFunc`, which fails on a
    `DeletedFinalStateUnknown` tombstone.
- **The sync wait.** It returns true (`SyncSucceeded`, which spawns the
  workers) or false when the context is cancelled (`SyncCancelled`, which
  returns without touching the queue).
- **Draining.**
  - `<-ctx.Done()` and `ShutDownWithDrain` are `BeginDrain` (the queue starts
    shutting down) and `EndDrain` (nothing is in flight).
  - `waitGroup.Wait` is `Stop`.
- **Each worker.**
  - `wait.Until` checking the stop channel before its first call is
    `WorkerStart`.
  - `queue.Get` is `WorkerGet` or `WorkerExit`.
  - The reconcile closure, with its error branch (`AddRateLimited`) and its
    success branch (`Forget`), is `WorkerReconcile`. It reads the lister
    through `ListerGet`.
  - The deferred `queue.Done` is `WorkerDone`, which re-queues a key that
    became dirty.
- **Environment.** The API server's writes, the periodic resync, lost
  deletes, the backoff timer (`BackoffExpired`) and the context's cancellation
  are environment actions.

### KeyedReconcile and the refinement

`KeyedReconcile` states what the controller promises a reconciler, per key,
with no queue or worker in it. `store`, `lastSeen` and `stopping` are the
object, what the last successful reconcile read, and shutdown. `owed[k]` says a
reconcile of `k` is owed. `run[k]` is "no", "started" or "read". The actions
are `Write` (sets `owed`), `Start` (only when owed and nothing runs for `k`),
`ReadOk` (reads the current object), `Fail` (owes another reconcile unless
stopping), `Finish`, `Drop` (gives up an obligation, only when stopping) and
`Stop`. `LiveSpec` adds the progress promise: until the controller is told to
stop, an owed key with nothing running starts (`WF_vars(~stopping /\ Start(k))`),
and a started reconcile always reads and finishes, stopping or not.

`Controller` maps onto it in `OwedMap` and `RunMap`:

- `owed[k]` is a pending notification the handler will enqueue (`EnqueuedBy`:
  not a tombstone, not an update with equal versions), or `k` queued, dirty or
  in backoff;
- `run[k]` is the program counter of the worker holding `k`;
- `stopping` is the cancellation of `Run`'s context, `ctxDone`. The queue's
  shutdown comes after it, so obligations are dropped only once it holds.

`ImplementsKeyedReconcile == KR!Spec` is checked as a `PROPERTY`. It holds only
if every controller step is a `KeyedReconcile` step: the dedup of `Add`, the
re-queue in `Done`, `AddRateLimited` on error and the handler's filter together.
`ImplementsKeyedReconcileLive == KR!LiveSpec` is checked in the liveness run.
It also needs the controller's fairness. The context may be cancelled before
the sync; `SyncCancelled` then returns without shutting the queue down. This
is why `stopping` maps to `ctxDone` and not to `shuttingDown`.

### SchemaCache

**State.**

- **The CRD, its informer and discovery.**
  - `crd` is the defining CRD's existence and revision.
  - `published` is what discovery serves, which lags `crd`.
  - `pending` is the CRD informer's notifications. Each one carries the
    group/kind in the object's own TypeMeta.
- **The resolver.**
  - `cache` maps gvk → an entry holding the resolved CRD state and, as
    history, the revision at resolution.
  - `writer` is the holder of the write lock.
  - `pc`, `tgvk` and `fetched` are per-goroutine.

**Actions.** `ResolveFromCache` is the read-locked lookup. `ResolveFetch` takes
the write lock and calls discovery. `ResolveStore` stores the result and
unlocks. `HandleEvent`/`HandleUpdateNew` are the `AddFunc`, `UpdateFunc` and
`DeleteFunc` handlers with `purgeCRDFromCache`. A type assertion on a tombstone
sets `crashed`.

### TransformedClient

An object is abstracted to four things:

- its Go type, native or CRD (`kind`);
- its apiVersion label;
- whether its content fits the other schema (a JSON conversion of content that
  does not fit fails);
- a content generation.

**State.**

- **The backing store.** `backing` is the store, `writes` bounds the number of
  writes, and `events` is the watch stream.
- **The consumer informer.** `mirror` is its view and `watching` says whether
  its watch is open.
- `reply` is the last call's result.

**Actions.**

- **Client calls.** `Create`, `Update`, `UpdateStatus`, `Delete`,
  `DeleteCollection`, `Get` and `List` are the client's methods. Each converts
  with the conversion pair. Create and Update convert, write, and convert
  back.
  - `UpdateStatus` goes to the status endpoint, which keeps the stored
    content. Its reply is therefore the conversion of what is stored.
  - `DeleteCollection` passes through. The API server deletes the matching
    objects one by one, in an order it picks, with an event for each. It may
    fail part way.
  - `Patch`, `Apply` and `ApplyStatus` only panic, and nothing calls them.
- **The watch filter.** `WatchDeliver` is the filter passed to `watch.Filter`.
  It converts objects of the backing type and drops the event when conversion
  fails. It forwards any other object, such as an error `Status`.
- **The environment.** `Relist` is the consumer's reflector relisting after an
  error event. `ForeignWrite` is another client of the CRD writing content
  that need not fit the native type.
- **Decoding.** The typed CRD client decodes a single-object reply and a
  watch event's object with TypeMeta cleared (`Decoded`). The items of a List
  keep the apiVersion they were stored with. The mirror properties therefore
  compare `Content`, which leaves the label aside.
- **Routing.** `To` and `From` are `replacedClient`'s choice of conversion
  pair: `CRDToNativePolicy`/`NativeToCRDPolicy` for `Resource = "policies"`,
  the binding pair for `"bindings"`.

### Webhook

**State.**

- **The lifecycle of `main`.** `ctxDone` and `serverDone` are the root and
  server contexts. `mainPc` is main's position, and `gr` holds the two
  goroutines (the plugin's `Run` and the HTTP server).
- The policy client and informer are `TC`'s variables. The binding ones are
  `TCB`'s, renamed with a `b` prefix.
- `synced` maps "policies" and "bindings" to each informer's sync state:
  "pending", "synced", or "stuck". "stuck" means the first list was empty
  and the informer has the empty-list bug (`AfterList`). `HasSynced` holds
  when both are "synced".
- `adm` and `verdict` are the request being validated and the last decision.

**Actions.**

- **main.** `SetupFail`, `Spawn`, `FactoryStart` and `MainExit` are main's
  steps.
- **Goroutine exits.** `PluginReturn` and `ServerReturn` return when the
  server context ends. `ServerFail` is the server returning on its own, after
  which the deferred `serverCancel` cancels the server context.
- **Admission.** `Receive` is `multi.Validate` and the plugin's
  `isPolicyResource` check. `PollReady` and `PollTimeout` are the two outcomes
  of the readiness poll.
- **Informer steps.** `RelistPolicies`, `RelistBindings`, `WatchPolicies` and
  `WatchBindings` are each instance's `Relist` and `WatchDeliver`. They are
  enabled from `factory.Start` until the server context ends. `Cluster` is
  either instance's foreign writes and watch errors.

### Interceptor

One exchange is modelled: exchanges share only the target URL and the
transport. A path or a body line is abstracted to the API group it names
("native", "crd" or "other"). A line is "huge" when it exceeds the scanner's
64 KiB token limit.

**State.**

- `srvPc` is the process: setup, serving or exited.
- `pc`, `req` and `outGrp` are the exchange and its outgoing path.
- `relay`, `toRelay` and `outBody` are the body goroutine and the pipe.
- `resp` is the server's response, an open flag and its items.
- `got` is what the client has received.

**Actions.**

- `Start` and `StartFail` are `runServer` and `main`.
- `Rewrite` renames a native path and starts the body goroutine. The goroutine
  is `RelayLine` (one `Scan`; a huge line ends the scan) and `RelayEnd`.
- `ModifyResponse` is the read-all and rename for CRD-group paths. `Forward`
  and `Finish` are the ReverseProxy's copy of any other response.
- `ServerRespond`, `ServerEvent` and `ServerClose` are the API server.

The webhook server package is not among the sources. Its `Run` is modelled
from the spec: it serves until the context ends or it fails.

## 3. Runs

| Run | Checks | Result | What it shows |
|---|---|---|---|
| controller_safety | TypeOK, AtMostOneInFlight, NoLostUpdate, ImplementsKeyedReconcile | pass | Two workers never hold one key at once, even with retries and shutdown. Every change not yet seen by a successful reconcile is still owed one (queued, dirty while processing, in backoff or being processed). The controller refines `KeyedReconcile`. |
| controller_live | EventuallyReconciled, CancelStops, ImplementsKeyedReconcileLive | pass | Every change is eventually reconciled unless the context is cancelled, and cancelling always makes `Run` return. The controller meets `KeyedReconcile`'s progress promise, fairness included. |
| controller_tombstone | NoLostUpdate | violation | A tombstoned delete is never enqueued. |
| controller_drain | DrainCompletes | violation | A cancel right after sync abandons queued keys. |
| schemacache_races | MonotoneCache | pass | Racing misses and purges never move an entry to an older schema. |
| schemacache_purge | InvalidatedAfterChange | violation | The purge key is the CRD object's TypeMeta, not the kind it defines. |
| client_list | TypeOK, ConvertibleObjectsMirrored, ListNeverPartial | pass | Every client operation runs against foreign writes of any content. `List` is all or nothing. Every backing object that converts reaches the consumer's mirror, whether it arrives by the watch or by a relist, and including bulk deletes. |
| client_delete | DeletedObjectsLeaveMirror | violation | A delete whose object does not convert is dropped by the watch filter. |
| client_roundtrip | RoundTripKeepsNativeAPIVersion | violation | The items of a `List` through the client are labelled `apiregistration.k8s.io/v1alpha1` by `CRDToNativePolicy`. Single replies and watch objects arrive without a label. |
| webhook_run | TypeOK, MirrorTracksBacking, ProcessExits, EventuallyReady | pass | Fitting content, and informers that sync on an empty first list (`EmptyListSyncs = TRUE`). Both informers' views track their backing stores, the plugin becomes ready, and a signal or a server failure ends the process. |
| webhook_emptylist | EventuallyReady | violation | With informers that have the empty-list bug (`EmptyListSyncs = FALSE`), a cluster with no binding (or no policy) leaves the plugin unready for good. |
| interceptor_watch | WatchEventsForwarded | violation | A client's native-group watch through the proxy receives no event while the server keeps the stream open. |

Every property of a passing run has a mutant in `PROJECT.json`. A mutant is a
plausible bug in the mapped code that TLC finds under the same configuration:

- `Add` queueing a processing key;
- `Done` forgetting the dirty mark (caught both as a lost update and as a
  liveness failure of the refinement);
- a reconcile error calling `Forget` instead of `AddRateLimited` (caught by
  the refinement);
- `AddRateLimited` not re-adding;
- `Forget` decrementing;
- the drain without `ShutDown`;
- the discovery call made outside the lock;
- the watch filter forwarding unconverted objects;
- `List` skipping bad items;
- a wrong apiVersion label;
- the server goroutine not cancelling the other;
- `HasSynced` requiring a non-empty list.

### Findings

1. **`generic.go:69`.** `MetaNamespaceKeyFunc` rejects tombstones, so deletes
   missed by the watch are never reconciled.
2. **`generic.go:125`.** `wait.Until` may never call `runWorker` when the
   context is cancelled just after the sync. Keys already queued are then
   abandoned, although the spec promises a drain.
3. **`resolver.go:50/57/58/62`.** The purge uses the CRD object's own
   TypeMeta group/kind, so cached schemas are never invalidated.
4. **`transformed_client.go:134`.** The watch filter drops, rather than
   delivers, events whose object fails conversion. The spec says they are
   delivered.
5. **`injected_client.go:94`/`130`.** The converted apiVersion is
   `apiregistration.k8s.io/v1alpha1`. It shows on the items of `List`, and so
   in every informer's list and relist. Single replies and watch objects reach
   the conversion with TypeMeta cleared.
6. **`plugin.go:64`.** `HasSynced` returns the evaluator's readiness with the
   empty-list workaround (lines 57-63) commented out. With informers that
   behave as its comment says, a cluster without a policy or a binding keeps
   the plugin unready. Every non-policy request is then denied as "not ready",
   for good. The spec has that deny only for the bounded polling window.
7. **`interceptor/main.go:76`.** `ModifyResponse` reads the whole body of every
   CRD-group response, watches included. A native-group watch through the
   proxy gets no event until the server closes the stream.

Seen while modelling and recorded as hazards without a run:

- **`main.go` never calls the schema resolver's `Run`.** Its CRD handler is
  therefore never registered, and the cache is never purged at all.
- **`resolver.go:61`.** `DeleteFunc`'s type assertion panics on a
  `DeletedFinalStateUnknown`. `SchemaCache` with `WatchGaps = TRUE` reaches
  this at once, as a violation of `HandlerNeverPanics`.
- **`interceptor/main.go:65`.** A body line over 64 KiB ends the scan, and the
  deferred `Close` gives the server a clean, truncated body. `RelayLine` models
  this, but no run checks the relayed body.
- **`transformed_client.go:113` with `plugin.go:87`.** One backing object
  whose content does not fit the native type makes every `List` fail, so the
  informer never syncs. Such content is outside the CRD's contract, so no
  webhook run writes it.
- **`transformed_client.go:72`.** `UpdateStatus` writes, then converts what
  is stored. When another client stored content that does not fit, the call
  fails although the write happened.
- **`main.go:109`.** The lazy REST mapper is reset only once a minute. A new
  CRD's kind stays unmapped for up to a minute. The mapper's reader is the
  upstream admission controller, which is outside the sources.
- **`gentls/main.go:42`.** `ca.pem` is written before the server pair. A
  failure in between leaves a CA that does not sign the served certificate.
- **`interceptor/main.go:73`.** `ModifyResponse` tests the outgoing path, so a
  client asking for the CRD group itself gets objects relabelled to the native
  group.

## 4. Bounds

| Module | Bounds | Why they are enough |
|---|---|---|
| Controller | 2 keys, 2 workers, 3 resource versions, 2 undelivered notifications, 1 retry; 1 key or 1 worker in the violation runs; the liveness runs use 2 resource versions | Two workers are needed for the at-most-one race. Two keys let one key's retry interleave with another's processing. Three versions give an update while a key is processing and one after. One retry exercises `AddRateLimited`, backoff and `Forget`. |
| SchemaCache | 1 CRD-defined kind in 2 versions, 2 resolving goroutines, the 2 TypeMeta forms a decoded CRD can carry, 3 CRD writes, 2 undelivered notifications | Two goroutines racing one gvk is the lock hazard. Three writes give add, update and delete. |
| TransformedClient | 2 names, 2 contents, 4 writes, 2 undelivered events; 3 writes for the delete case | These bounds allow a write, an error event, a relist and a further write. A `DeleteCollection` of both names can also fail after the first delete. |
| Webhook | per resource (policies, bindings): 1 name, 2 writes, 2 events; 2 policy contents, 1 binding content; 4 request targets | The request targets are the native policy, the CRD policy, the CRD binding and a deployment. With two policy contents an update changes what the mirror must hold, so a lost or unapplied update event violates `MirrorTracksBacking` (with one content it would be invisible). The binding informer only gates readiness, for which one content suffices. The run takes about 2m40s. |
| Interceptor | 1 exchange; bodies of up to 2 lines; 1 watch event | One event on an open watch is enough to show it held back. |

Symmetry over keys and workers is used only in the invariant runs of
`Controller`. It is not used with liveness.

## 5. Fairness

- **Controller.** The worker goroutines, the informer's delivery, `Run`'s own
  steps and the delaying queue's timer run on their own goroutines and are
  weakly fair. API-server writes and cancellation are not assumed to happen.
  `KeyedReconcile.LiveSpec` asks for weak fairness of `Start` only while not
  stopping. After a cancel, `wait.Until` may never start a worker, so
  starting is not promised then. Reading and finishing are promised always,
  because a worker that holds a key runs it to `Done`.
- **Webhook.** main, the two goroutines and the informer's reflector (list and
  watch) are weakly fair. Signals, server failures, cluster writes and requests
  are not. Readiness also depends on `EmptyListSyncs`, the informers'
  behaviour on an empty first list. That behaviour is stated per run, never
  assumed silently: `TRUE` in webhook_run (client-go's shared informer marks
  itself synced once its first list is replaced) and `FALSE` in
  webhook_emptylist (the bug the comment in `HasSynced` describes).
- **SchemaCache and TransformedClient.** They are checked only for safety, so
  they assume no fairness.
- **Interceptor.** The proxy's steps (its handler goroutine and the body
  goroutine) and the server's answer to a request are weakly fair. The server
  is not obliged to flush events or to close a watch: it holds a watch open
  for the client's timeout, which may be long.

Deadlock checking is off in the controller, webhook and interceptor runs. The
process or `Run` really stops there, and the bounded environment runs out of
writes.

## 6. Not modelled

- **In the interceptor,** `loadClientConfig` and the TLS transport setup
  (abstracted to success or failure), and the byte-level text of bodies (the
  dropped newlines among it).
- **PKI/gentls.** Certificate generation is key generation, x509 templates
  and PEM encoding. That is cryptography, which TLC cannot tell apart beyond
  "matches" or "does not". The only state is the three files that `gentls`
  writes one after another in a one-shot run. Its one hazard, a partial write,
  is listed. A model of it would restate three `WriteFile` calls.
- **The alertmanager client.** `Alert` makes one POST. An error is logged and
  the alert dropped, with no retry and no state.
- **The integration test server.** A test harness.
- **The generated API types.**
- **Parts of the modelled components:**
  - the panic of `UpdateStatus`'s type assertion on a backing client without a
    status subresource (the generated CRD clients are not among the sources),
    and `Patch`, `Apply` and `ApplyStatus`, which only panic;
  - `List` of the indexed lister, which changes no state;
  - the REST mapper's periodic reset;
  - the CEL evaluator itself, which is an external engine abstracted to its
    verdict.

## 7. Plan for further work

1. **An error reply of the client means nothing was written.** This is
   violated by `UpdateStatus`; it would be a run of its own.
2. **Discovery lag in the schema cache.** A property that the cache converges
   to the published schema once the purge key is right.
3. **Liveness of the schema cache's readers under the write lock.**
4. **A composition of `SchemaCache` with the `Webhook` lifecycle**, showing
   the never-started resolver handler as a run.
5. **The interceptor's request body and response group,** as properties of
   their own.
