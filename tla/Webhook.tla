------------------------------ MODULE Webhook ------------------------------
(***************************************************************************)
(* The webhook process of cmd/cel-admission-webhook/main.go with the        *)
(* admission path of pkg/validator/multi.go and the CEL admission plugin   *)
(* (pkg/controller/admissionregistration.x-k8s.io/v1alpha1/plugin.go).     *)
(*                                                                         *)
(* main spawns one goroutine per runnable validator (the plugin) and one   *)
(* for the HTTP server, then starts the informer factories and waits for   *)
(* both goroutines; either one cancels the shared server context when it   *)
(* returns.  The plugin's readiness is its evaluator's HasSynced, which    *)
(* (in k8s.io/apiserver, outside the sources) holds once the policy and    *)
(* the binding informers have synced.  They list and watch through the     *)
(* wrapped client, i.e. through two TransformedClients that replacedClient *)
(* builds; this module composes two instances of that module, the policy  *)
(* one by name and the binding one with its variables renamed.            *)
(*                                                                         *)
(* The webhook server package (pkg/webhook) is not part of the sources;    *)
(* its Run is modelled from the spec: it serves requests until the context *)
(* ends or it fails, and then returns.                                      *)
(***************************************************************************)
EXTENDS Naturals, Sequences

CONSTANTS
    Names, Gens, ForeignFits, MaxWrites, MaxEvents, Err,  \* of TransformedClient
    BindingGens, \* the binding contents other clients write (Gens: the policies')
    Resources,  \* the group/resource pairs requests are made for
    EmptyListSyncs  \* the evaluator's informers report synced after an empty first list

\* plugin.go's HasSynced keeps, commented out, a workaround for "informer bug
\* where if there are no items in initial list HasSynced never returns true";
\* whether the informers of the k8s.io/apiserver version in use have that bug
\* lies outside the sources, so each configuration fixes it.
ASSUME EmptyListSyncs \in BOOLEAN

VARIABLES
    backing, writes, events, mirror, watching, reply,  \* of TransformedClient
    ctxDone,     \* the root context was cancelled (SIGINT/SIGTERM)
    serverDone,  \* serverContext is done
    mainPc,      \* main: "setup", "spawned", "waiting" (in waitGroup.Wait), "exited"
    gr,          \* the two goroutines: "none", "running", "done"
    bBacking, bWrites, bEvents, bMirror, bWatching, bReply,  \* bindings
    synced,      \* per resource: "pending", "synced", or "stuck" (empty first list, bug)
    adm,         \* the admission request being validated
    verdict      \* the last admission decision

TC == INSTANCE TransformedClient WITH Resource <- "policies"
TCB == INSTANCE TransformedClient
        WITH Resource <- "bindings", Gens <- BindingGens, backing <- bBacking, writes <- bWrites,
             events <- bEvents, mirror <- bMirror, watching <- bWatching,
             reply <- bReply

tcVars == <<backing, writes, events, mirror, watching, reply,
            bBacking, bWrites, bEvents, bMirror, bWatching, bReply>>
pVars == <<backing, writes, events, mirror, watching, reply>>
bVars == <<bBacking, bWrites, bEvents, bMirror, bWatching, bReply>>
lifeVars == <<ctxDone, serverDone, mainPc, gr>>
vars == <<tcVars, lifeVars, synced, adm, verdict>>

Goroutines == {"plugin", "server"}
Informed == {"policies", "bindings"}
NoRes == [group |-> "", resource |-> ""]
Verdicts == {"none", "allow", "notready", "evaluated"}

-----------------------------------------------------------------------------
(* main                                                                    *)

\* Loading the client configuration or creating a client fails: main
\* returns before anything is started.
SetupFail ==
    /\ mainPc = "setup"
    /\ mainPc' = "exited"
    /\ UNCHANGED <<tcVars, ctxDone, serverDone, gr, synced, adm, verdict>>

\* waitGroup.Add and go for every runnable validator and for the server.
Spawn ==
    /\ mainPc = "setup"
    /\ mainPc' = "spawned"
    /\ gr' = [g \in Goroutines |-> "running"]
    /\ UNCHANGED <<tcVars, ctxDone, serverDone, synced, adm, verdict>>

\* factory.Start for the three factories, then waitGroup.Wait.
FactoryStart ==
    /\ mainPc = "spawned"
    /\ mainPc' = "waiting"
    /\ UNCHANGED <<tcVars, ctxDone, serverDone, gr, synced, adm, verdict>>

MainExit ==
    /\ mainPc = "waiting"
    /\ \A g \in Goroutines : gr[g] = "done"
    /\ mainPc' = "exited"
    /\ UNCHANGED <<tcVars, ctxDone, serverDone, gr, synced, adm, verdict>>

\* A signal cancels the root context, and with it serverContext.
Signal ==
    /\ ~ctxDone /\ mainPc # "exited"
    /\ ctxDone' = TRUE
    /\ serverDone' = TRUE
    /\ UNCHANGED <<tcVars, mainPc, gr, synced, adm, verdict>>

\* The plugin's Run blocks in the evaluator until serverContext is done and
\* returns nil; the goroutine calls serverCancel and waitGroup.Done.
PluginReturn ==
    /\ gr["plugin"] = "running" /\ serverDone
    /\ gr' = [gr EXCEPT !["plugin"] = "done"]
    /\ UNCHANGED <<tcVars, ctxDone, serverDone, mainPc, synced, adm, verdict>>

\* webhook.Run returns when serverContext is done.
ServerReturn ==
    /\ gr["server"] = "running" /\ serverDone
    /\ gr' = [gr EXCEPT !["server"] = "done"]
    /\ UNCHANGED <<tcVars, ctxDone, serverDone, mainPc, synced, adm, verdict>>

\* Mutant of ServerFail: the deferred function does not cancel serverContext.
ServerFailNoCancel ==
    /\ gr["server"] = "running" /\ ~serverDone
    /\ gr' = [gr EXCEPT !["server"] = "done"]
    /\ UNCHANGED <<tcVars, ctxDone, serverDone, mainPc, synced, adm, verdict>>

\* webhook.Run returns on its own (e.g. the listener fails); the deferred
\* function cancels serverContext to stop the other goroutine.
ServerFail ==
    /\ gr["server"] = "running" /\ ~serverDone
    /\ gr' = [gr EXCEPT !["server"] = "done"]
    /\ serverDone' = TRUE
    /\ UNCHANGED <<tcVars, ctxDone, mainPc, synced, adm, verdict>>

-----------------------------------------------------------------------------
(* The policy and binding informers, through the two TransformedClients.   *)
(* The factories run from factory.Start until serverContext is done.       *)

InformersOn == mainPc = "waiting" /\ ~serverDone

\* An informer's sync state after a list: the first list that succeeds
\* syncs it, unless it was empty and the informer has the empty-list bug,
\* after which it never reports synced.
AfterList(st, listed, empty) ==
    IF st # "pending" \/ ~listed THEN st
    ELSE IF empty /\ ~EmptyListSyncs THEN "stuck" ELSE "synced"

\* The reflector's list through the transformed client.
RelistPolicies ==
    /\ InformersOn
    /\ TC!Relist
    /\ synced' = [synced EXCEPT !["policies"] =
                      AfterList(@, watching', \A n \in Names : mirror'[n] = TC!None)]
    /\ UNCHANGED <<bVars, lifeVars, adm, verdict>>

RelistBindings ==
    /\ InformersOn
    /\ TCB!Relist
    /\ synced' = [synced EXCEPT !["bindings"] =
                      AfterList(@, bWatching', \A n \in Names : bMirror'[n] = TCB!None)]
    /\ UNCHANGED <<pVars, lifeVars, adm, verdict>>

WatchPolicies ==
    /\ InformersOn
    /\ TC!WatchDeliver
    /\ UNCHANGED <<bVars, lifeVars, synced, adm, verdict>>

WatchBindings ==
    /\ InformersOn
    /\ TCB!WatchDeliver
    /\ UNCHANGED <<pVars, lifeVars, synced, adm, verdict>>

\* Other clients write the backing CRDs; the API server ends watches.
Cluster ==
    /\ \/ (TC!ForeignWrite \/ TC!WatchError) /\ UNCHANGED bVars
       \/ (TCB!ForeignWrite \/ TCB!WatchError) /\ UNCHANGED pVars
    /\ UNCHANGED <<lifeVars, synced, adm, verdict>>

-----------------------------------------------------------------------------
(* Admission: multi.Validate over the one validator, the plugin.           *)

IsPolicyResource(r) ==
    /\ r.group \in {"admissionregistration.k8s.io", "admissionregistration.x-k8s.io"}
    /\ r.resource \in {"validatingadmissionpolicies", "validatingadmissionpolicybindings"}

\* celAdmissionPlugin.Handles: every operation.
Handles == TRUE

\* Mutant of HasSynced: ready only once the informer holds an object (the
\* informer bug the commented-out workaround in HasSynced refers to).
HasSyncedNeedsItems ==
    /\ \A i \in Informed : synced[i] = "synced"
    /\ \E n \in Names : mirror[n] # TC!None /\ bMirror[n] # TC!None

\* celAdmissionPlugin.HasSynced: the evaluator's readiness, i.e. its
\* informers have completed their first list.
HasSynced == \A i \in Informed : synced[i] = "synced"

\* A request reaches multi.Validate: the plugin handles it; a policy
\* resource is admitted at once, anything else waits for readiness.  With
\* no validator handling it multi.Validate would admit it.
Receive(r) ==
    /\ gr["server"] = "running" /\ ~serverDone /\ adm.pc = "idle"
    /\ IF ~Handles \/ IsPolicyResource(r)
       THEN verdict' = [res |-> r, val |-> "allow"] /\ UNCHANGED adm
       ELSE adm' = [pc |-> "polling", res |-> r] /\ UNCHANGED verdict
    /\ UNCHANGED <<tcVars, lifeVars, synced>>

\* PollImmediateWithContext sees HasSynced: the evaluator decides.
PollReady ==
    /\ adm.pc = "polling" /\ HasSynced
    /\ verdict' = [res |-> adm.res, val |-> "evaluated"]
    /\ adm' = [pc |-> "idle", res |-> NoRes]
    /\ UNCHANGED <<tcVars, lifeVars, synced>>

\* The one-second window (or the request's context) ends while HasSynced is
\* false: Forbidden, "not yet ready to handle request".
PollTimeout ==
    /\ adm.pc = "polling" /\ ~HasSynced
    /\ verdict' = [res |-> adm.res, val |-> "notready"]
    /\ adm' = [pc |-> "idle", res |-> NoRes]
    /\ UNCHANGED <<tcVars, lifeVars, synced>>

-----------------------------------------------------------------------------

Init ==
    /\ TC!Init /\ TCB!Init
    /\ ctxDone = FALSE /\ serverDone = FALSE
    /\ mainPc = "setup"
    /\ gr = [g \in Goroutines |-> "none"]
    /\ synced = [i \in Informed |-> "pending"]
    /\ adm = [pc |-> "idle", res |-> NoRes]
    /\ verdict = [res |-> NoRes, val |-> "none"]

MainStep == SetupFail \/ Spawn \/ FactoryStart \/ MainExit
GoroutineStep == PluginReturn \/ ServerReturn \/ ServerFail

Next ==
    \/ MainStep \/ Signal \/ GoroutineStep
    \/ RelistPolicies \/ RelistBindings \/ WatchPolicies \/ WatchBindings
    \/ Cluster
    \/ \E r \in Resources : Receive(r)
    \/ PollReady \/ PollTimeout

\* main and its goroutines keep running, and each informer's reflector keeps
\* listing and consuming its watch; signals, server failures, cluster writes
\* and requests are not assumed to happen.
Fairness ==
    /\ WF_vars(Spawn) /\ WF_vars(FactoryStart) /\ WF_vars(MainExit)
    /\ WF_vars(PluginReturn) /\ WF_vars(ServerReturn)
    /\ WF_vars(RelistPolicies) /\ WF_vars(RelistBindings)
    /\ WF_vars(WatchPolicies) /\ WF_vars(WatchBindings)

Spec == Init /\ [][Next]_vars /\ Fairness

-----------------------------------------------------------------------------

TypeOK ==
    /\ TC!TypeOK /\ TCB!TypeOK
    /\ ctxDone \in BOOLEAN /\ serverDone \in BOOLEAN
    /\ synced \in [Informed -> {"pending", "synced", "stuck"}]
    /\ mainPc \in {"setup", "spawned", "waiting", "exited"}
    /\ gr \in [Goroutines -> {"none", "running", "done"}]
    /\ adm \in [pc: {"idle", "polling"}, res: Resources \cup {NoRes}]
    /\ verdict \in [res: Resources \cup {NoRes}, val: Verdicts]

\* The plugin's policy and binding informers, reading through the
\* transformed clients, hold the native form of every backing object once
\* they have listed and consumed their watch (TransformedClient's
\* MirrorTracksBacking, for the consumers this process runs).
MirrorTracksBacking == TC!MirrorTracksBacking /\ TCB!MirrorTracksBacking

\* Once the signal arrives or the webhook server stops, main's
\* waitGroup.Wait returns and the process exits: each goroutine's exit
\* cancels serverContext for the other.
ProcessExits == (ctxDone \/ gr["server"] = "done") ~> (mainPc = "exited")

\* Once the informers are started, the plugin eventually becomes ready (its
\* informers sync through the transformed clients, whether or not the
\* cluster holds policies and bindings) unless the server context ends
\* first; until then every request on other resources is denied.
EventuallyReady == (InformersOn) ~> (HasSynced \/ serverDone)

=============================================================================
