------------------------- MODULE TransformedClient -------------------------
(***************************************************************************)
(* TransformedClient (pkg/controller/transformed_client.go) with the       *)
(* conversion pairs of injected_client.go: callers use the native          *)
(* ValidatingAdmissionPolicy (or Binding) type while the objects live in   *)
(* the backing CRD (admissionregistration.x-k8s.io).  A consumer's         *)
(* informer lists and watches through the client and keeps a mirror of     *)
(* what it was told; when its watch ends with an error event it lists      *)
(* again (client-go reflector).                                            *)
(*                                                                         *)
(* An object is abstracted to its Go type (native or CRD), its apiVersion *)
(* label, whether its content fits the other schema (JSON conversion of    *)
(* content that does not fit fails) and a content generation.  The backing store is also written by  *)
(* other clients of the CRD, whose content need not fit the native type.   *)
(***************************************************************************)
EXTENDS Naturals, Sequences, SequencesExt

CONSTANTS
    Names,          \* object names
    Gens,           \* distinguishable object contents
    ForeignFits,    \* whether content written by other clients may be non-fitting
    MaxWrites,      \* bound on writes to the backing store
    MaxEvents,      \* bound on undelivered watch events
    Err,            \* the error result
    Resource        \* "policies" or "bindings": the client replacedClient returns

NativeAV == "admissionregistration.k8s.io/v1alpha1"
CrdAV == "admissionregistration.x-k8s.io/v1alpha1"
\* The label CRDToNativePolicy writes (injected_client.go line 94).
ToAV == "apiregistration.k8s.io/v1alpha1"
AVs == {"", NativeAV, CrdAV, ToAV}

Kinds == {"native", "crd"}
Obj == [kind: Kinds, av: AVs, fits: BOOLEAN, gen: Gens]
None == [kind |-> "", av |-> "", fits |-> FALSE, gen |-> 0]

VARIABLES
    backing,   \* the CRD objects on the API server: name -> Obj or None
    writes,    \* number of writes so far
    events,    \* the backing watch stream not yet passed through the filter
    mirror,    \* the consumer informer's objects: name -> Obj or None
    watching,  \* the consumer informer has a watch open
    reply      \* the result of the last call made through the client

vars == <<backing, writes, events, mirror, watching, reply>>

-----------------------------------------------------------------------------
(* The conversion pair: a JSON round trip and an apiVersion relabel.       *)

\* NativeToCRDPolicy: Unmarshal fails on content that does not fit; a
\* non-empty apiVersion becomes the CRD's.
NativeToCRDPolicy(o) ==
    IF ~o.fits THEN Err ELSE [o EXCEPT !.kind = "crd", !.av = IF @ # "" THEN CrdAV ELSE ""]

\* Mutant of CRDToNativePolicy: the label written lacks the group.
CRDToNativePolicyBareVersion(o) ==
    IF ~o.fits THEN Err ELSE [o EXCEPT !.kind = "native", !.av = IF @ # "" THEN "v1alpha1" ELSE ""]

\* CRDToNativePolicy: the same, relabelled to "apiregistration.k8s.io/v1alpha1".
CRDToNativePolicy(o) ==
    IF ~o.fits THEN Err ELSE [o EXCEPT !.kind = "native", !.av = IF @ # "" THEN ToAV ELSE ""]

\* NativeToCRDPolicyBinding and CRDToNativePolicyBinding: the same JSON
\* round trip and relabel for ValidatingAdmissionPolicyBinding.
NativeToCRDPolicyBinding(o) ==
    IF ~o.fits THEN Err ELSE [o EXCEPT !.kind = "crd", !.av = IF @ # "" THEN CrdAV ELSE ""]

CRDToNativePolicyBinding(o) ==
    IF ~o.fits THEN Err ELSE [o EXCEPT !.kind = "native", !.av = IF @ # "" THEN ToAV ELSE ""]

\* replacedClient: the ValidatingAdmissionPolicies and
\* ValidatingAdmissionPolicyBindings clients are TransformedClients over
\* the CRD clients, each with its own conversion pair.
To(o) == IF Resource = "policies" THEN CRDToNativePolicy(o) ELSE CRDToNativePolicyBinding(o)
From(o) == IF Resource = "policies" THEN NativeToCRDPolicy(o) ELSE NativeToCRDPolicyBinding(o)

\* The typed CRD client decodes a single-object reply and a watch event's
\* object without their version (WithoutVersionDecoder clears TypeMeta);
\* the items of a List reply keep the apiVersion they were stored with.
Decoded(o) == [o EXCEPT !.av = ""]

\* An object's content, the apiVersion label aside.
Content(o) == IF o \in Obj THEN [o EXCEPT !.av = ""] ELSE o

-----------------------------------------------------------------------------
(* The backing store and its watch                                         *)

CanWrite == writes < MaxWrites /\ Len(events) < MaxEvents

\* A write to the backing store, with the event an open watch emits.
Write(n, o) ==
    LET e == [type |-> IF o = None THEN "deleted"
                       ELSE IF backing[n] = None THEN "added" ELSE "modified",
              name |-> n,
              obj |-> IF o = None THEN backing[n] ELSE o]
    IN /\ backing' = [backing EXCEPT ![n] = o]
       /\ writes' = writes + 1
       /\ events' = IF watching THEN Append(events, e) ELSE events

\* The API server ends the watch with an Error event carrying a Status, not
\* an object of the backing type (e.g. an expired resource version).
WatchError ==
    /\ watching /\ Len(events) < MaxEvents
    /\ \E n \in Names : events' = Append(events, [type |-> "error", name |-> n, obj |-> None])
    /\ UNCHANGED <<backing, writes, mirror, watching, reply>>

\* Another client of the CRD creates, updates or deletes an object.
ForeignWrite ==
    /\ CanWrite
    /\ \E n \in Names, g \in Gens, fits \in ForeignFits, del \in BOOLEAN :
          IF del THEN backing[n] # None /\ Write(n, None)
          ELSE Write(n, [kind |-> "crd", av |-> CrdAV, fits |-> fits, gen |-> g])
    /\ UNCHANGED <<mirror, watching, reply>>

-----------------------------------------------------------------------------
(* The client's operations                                                 *)

NativeObjs == [kind: {"native"}, av: {"", NativeAV}, fits: BOOLEAN, gen: Gens]

\* Create and Update: convert, call the backing client, convert the result.
\* A conversion error returns before anything is sent.
Create(o) ==
    LET c == From(o) IN
    /\ CanWrite
    /\ \E n \in Names :
          IF c = Err THEN reply' = [op |-> "create", val |-> Err] /\ UNCHANGED <<backing, writes, events>>
          ELSE IF backing[n] # None
          THEN reply' = [op |-> "create", val |-> Err] /\ UNCHANGED <<backing, writes, events>>
          ELSE /\ Write(n, c)
               /\ reply' = [op |-> "create", val |-> To(Decoded(c))]
    /\ UNCHANGED <<mirror, watching>>

Update(o) ==
    LET c == From(o) IN
    /\ CanWrite
    /\ \E n \in Names :
          IF c = Err \/ backing[n] = None
          THEN reply' = [op |-> "update", val |-> Err] /\ UNCHANGED <<backing, writes, events>>
          ELSE /\ Write(n, c)
               /\ reply' = [op |-> "update", val |-> To(Decoded(c))]
    /\ UNCHANGED <<mirror, watching>>

\* UpdateStatus: convert, call the backing client's status endpoint (the
\* client is asserted to have one), convert the result.  The status
\* endpoint keeps the stored content, so the write changes only the
\* (abstracted) status and the reply is the conversion of what is stored,
\* which other clients may have written: the write can succeed and the
\* call still return an error.
UpdateStatus(o) ==
    LET c == From(o) IN
    /\ CanWrite
    /\ \E n \in Names :
          IF c = Err \/ backing[n] = None
          THEN reply' = [op |-> "updatestatus", val |-> Err] /\ UNCHANGED <<backing, writes, events>>
          ELSE /\ Write(n, backing[n])
               /\ reply' = [op |-> "updatestatus", val |-> To(Decoded(backing[n]))]
    /\ UNCHANGED <<mirror, watching>>

\* Delete passes straight through to the backing client.
Delete(n) ==
    /\ CanWrite
    /\ IF backing[n] = None
       THEN reply' = [op |-> "delete", val |-> Err] /\ UNCHANGED <<backing, writes, events>>
       ELSE Write(n, None) /\ reply' = [op |-> "delete", val |-> None]
    /\ UNCHANGED <<mirror, watching>>

\* DeleteCollection passes straight through: the API server deletes the
\* objects the selector matches one by one, in an order of its choosing, an
\* event for each, and may fail part way, leaving the rest in place.
DeleteCollection ==
    LET stored == {n \in Names : backing[n] # None} IN
    \E S \in SUBSET stored : \E order \in SetToSeqs(S), done \in 0..Cardinality(S) :
       LET gone == Range(SubSeq(order, 1, done)) IN
       /\ writes + done <= MaxWrites
       /\ watching => Len(events) + done <= MaxEvents
       /\ backing' = [n \in Names |-> IF n \in gone THEN None ELSE backing[n]]
       /\ writes' = writes + done
       /\ events' = IF watching
                    THEN events \o [i \in 1..done |->
                            [type |-> "deleted", name |-> order[i], obj |-> backing[order[i]]]]
                    ELSE events
       /\ reply' = [op |-> "deletecollection", val |-> IF done = Len(order) THEN None ELSE Err]
       /\ UNCHANGED <<mirror, watching>>

Get(n) ==
    /\ IF backing[n] = None
       THEN reply' = [op |-> "get", val |-> Err]
       ELSE reply' = [op |-> "get", val |-> To(Decoded(backing[n]))]
    /\ UNCHANGED <<backing, writes, events, mirror, watching>>

\* Mutant of ListResult: items that fail conversion are skipped.
ListResultSkipping ==
    [n \in {m \in Names : backing[m] # None /\ To(backing[m]) # Err} |->
        To(backing[n])]

\* List: every item is converted; the first failure fails the whole call.
ListResult ==
    LET stored == {n \in Names : backing[n] # None} IN
    IF \E n \in stored : To(backing[n]) = Err THEN Err
    ELSE [n \in stored |-> To(backing[n])]

\* A List call's reply: the error, or the items by name.
ListReply(l) ==
    IF l = Err THEN [op |-> "list", val |-> Err]
    ELSE [op |-> "list", val |-> "items", items |-> l]

List ==
    /\ reply' = ListReply(ListResult)
    /\ UNCHANGED <<backing, writes, events, mirror, watching>>

\* Mutant of WatchDeliver: the filter forwards the backing object unconverted.
WatchDeliverUnconverted ==
    LET e == Head(events) IN
    /\ events # <<>>
    /\ IF e.type = "error"
       THEN /\ watching' = FALSE
            /\ events' = <<>>
            /\ UNCHANGED mirror
       ELSE /\ events' = Tail(events)
            /\ mirror' = [mirror EXCEPT ![e.name] = IF e.type = "deleted" THEN None ELSE Decoded(e.obj)]
            /\ UNCHANGED watching
    /\ UNCHANGED <<backing, writes, reply>>

\* Watch's filter on one event: an object of the backing type is converted,
\* and when conversion fails the event is logged and dropped (keep = false);
\* any other object is printed and forwarded unmodified.  The consumer's
\* informer applies a converted event to its mirror and ends the watch on an
\* error event.
WatchDeliver ==
    LET e == Head(events)
        c == To(Decoded(e.obj)) IN
    /\ events # <<>>
    /\ IF e.type = "error"
       THEN /\ watching' = FALSE
            /\ events' = <<>>
            /\ UNCHANGED mirror
       ELSE /\ events' = Tail(events)
            /\ mirror' = IF c = Err THEN mirror
                         ELSE [mirror EXCEPT ![e.name] = IF e.type = "deleted" THEN None ELSE c]
            /\ UNCHANGED watching
    /\ UNCHANGED <<backing, writes, reply>>

\* The consumer's informer lists through the client and, if the list
\* succeeds, replaces its mirror and opens a watch; otherwise it retries later.
Relist ==
    LET l == ListResult IN
    /\ ~watching
    /\ reply' = ListReply(l)
    /\ IF l = Err
       THEN UNCHANGED <<mirror, watching>>
       ELSE /\ mirror' = [n \in Names |-> IF n \in DOMAIN l THEN l[n] ELSE None]
            /\ watching' = TRUE
    /\ UNCHANGED <<backing, writes, events>>

-----------------------------------------------------------------------------

Init ==
    /\ backing = [n \in Names |-> None]
    /\ writes = 0
    /\ events = <<>>
    /\ mirror = [n \in Names |-> None]
    /\ watching = FALSE
    /\ reply = [op |-> "none", val |-> None]

Next ==
    \/ ForeignWrite
    \/ \E o \in NativeObjs : Create(o) \/ Update(o) \/ UpdateStatus(o)
    \/ \E n \in Names : Delete(n) \/ Get(n)
    \/ DeleteCollection
    \/ List
    \/ WatchError
    \/ WatchDeliver
    \/ Relist

Spec == Init /\ [][Next]_vars

-----------------------------------------------------------------------------

\* The consumer's view of a backing object: its conversion, None if absent.
NativeView(o) == IF o = None THEN None ELSE To(o)

TypeOK ==
    /\ backing \in [Names -> Obj \cup {None}]
    /\ writes \in 0..MaxWrites
    /\ Len(events) <= MaxEvents
    /\ mirror \in [Names -> Obj \cup {None}]
    /\ watching \in BOOLEAN

\* The consumer's informer, once it has listed and consumed its watch, holds
\* exactly the native form of every backing object: the watch filter's
\* conversion, the error-event relist and the event order together keep the
\* mirror in step with the store.
MirrorTracksBacking ==
    (watching /\ events = <<>>) =>
        \A n \in Names : Content(mirror[n]) = Content(NativeView(backing[n]))

\* Spec section 8, property 7: a List through the client either fails or
\* returns one converted item for every backing object, never a partial list.
ListNeverPartial ==
    [][(List \/ Relist) /\ reply'.val # Err =>
          DOMAIN reply'.items = {n \in Names : backing[n] # None}]_vars

\* Whatever other clients store, every backing object that converts to the
\* native type is in the consumer's mirror as its conversion once the
\* consumer has caught up with its watch: objects created, updated, status-
\* updated or deleted through the client, one by one or by DeleteCollection,
\* reach the mirror through the watch filter or the relist.
ConvertibleObjectsMirrored ==
    (watching /\ events = <<>>) =>
        \A n \in Names : backing[n] # None /\ To(backing[n]) # Err =>
            Content(mirror[n]) = Content(To(backing[n]))

\* An object deleted from the backing store is gone from the consumer's
\* mirror once the consumer has caught up with the watch (the spec: an event
\* whose object fails conversion is still delivered).
DeletedObjectsLeaveMirror ==
    (watching /\ events = <<>>) =>
        \A n \in Names : backing[n] = None => mirror[n] = None

\* Spec section 8, property 3: the round trip through the client gives back
\* objects of the native type's apiVersion (or none set).  Single-object
\* replies are decoded without a version, so the label that shows is the
\* one List items keep: every item of a successful List (the informer's
\* initial list and every relist included) carries the native apiVersion.
RoundTripKeepsNativeAPIVersion ==
    (reply.op = "list" /\ reply.val # Err) =>
        \A n \in DOMAIN reply.items : reply.items[n].av \in {"", NativeAV}

=============================================================================
