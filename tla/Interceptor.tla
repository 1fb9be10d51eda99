---------------------------- MODULE Interceptor ----------------------------
(***************************************************************************)
(* The development proxy of cmd/interceptor/main.go: an httputil           *)
(* ReverseProxy in front of the API server that lets native clients use    *)
(* admissionregistration.k8s.io/v1alpha1 while the objects are stored in   *)
(* the admissionregistration.x-k8s.io CRDs.  Rewrite renames the group in  *)
(* the path and streams the request body through an io.Pipe, line by line *)
(* with a bufio.Scanner, renaming the group inside it; ModifyResponse      *)
(* reads the whole response of a CRD-group request and renames the group  *)
(* back.  Responses of other requests are copied to the client as the      *)
(* server flushes them.                                                    *)
(*                                                                         *)
(* Exchanges share nothing but the target URL and the transport, so one   *)
(* exchange is modelled.  A path or a line of the body is abstracted to   *)
(* the API group it names; a line is "huge" when it exceeds the scanner's *)
(* token limit (bufio.MaxScanTokenSize, 64 KiB).  The API server, which    *)
(* answers a watch with a stream of events, is part of the environment.    *)
(***************************************************************************)
EXTENDS Naturals, Sequences

CONSTANTS
    MaxEvents,  \* bound on the events the server streams on one watch
    MaxLines    \* bound on the lines of a request body

\* "native": the path contains admissionregistration.k8s.io/v1alpha1;
\* "crd": it contains admissionregistration.x-k8s.io/v1alpha1.
Groups == {"native", "crd", "other"}
Verbs == {"get", "watch", "create"}
Line == [huge: BOOLEAN, grp: Groups]
Requests ==
    [grp: Groups, verb: Verbs \ {"create"}, body: {<<>>}] \cup
    [grp: Groups, verb: {"create"}, body: UNION {[1..n -> Line] : n \in 1..MaxLines}]
NoReq == [grp |-> "other", verb |-> "get", body |-> <<>>]

VARIABLES
    srvPc,    \* the process: "setup", "serving", "exited"
    pc,       \* the exchange: "none", "received", "sent", "responded", "done"
    req,      \* the client's request
    outGrp,   \* the group named by the outgoing request's path
    relay,    \* the body copy: "running" (goroutine scanning), "closed" (EOF)
    toRelay,  \* lines of the incoming body the scanner has not yet read
    outBody,  \* the body the server reads
    resp,     \* the server's response: open stream flag and its items' groups
    got       \* the items the client has received, by the group they name

vars == <<srvPc, pc, req, outGrp, relay, toRelay, outBody, resp, got>>

\* strings.ReplaceAll / bytes.ReplaceAll of the native group by the CRD's,
\* and back.
ToCRD(g) == IF g = "native" THEN "crd" ELSE g
ToNative(g) == IF g = "crd" THEN "native" ELSE g

-----------------------------------------------------------------------------

\* runServer builds the transport and ListenAndServeTLS accepts requests.
Start ==
    /\ srvPc = "setup"
    /\ srvPc' = "serving"
    /\ UNCHANGED <<pc, req, outGrp, relay, toRelay, outBody, resp, got>>

\* runServer returns an error (client config, URL, key pair, listener):
\* main prints it and exits 1.
StartFail ==
    /\ srvPc \in {"setup", "serving"} /\ pc \in {"none", "done"}
    /\ srvPc' = "exited"
    /\ UNCHANGED <<pc, req, outGrp, relay, toRelay, outBody, resp, got>>

Receive(r) ==
    /\ srvPc = "serving" /\ pc = "none"
    /\ req' = r
    /\ pc' = "received"
    /\ UNCHANGED <<srvPc, outGrp, relay, toRelay, outBody, resp, got>>

\* Rewrite: the target URL is set; a native-group path is renamed and its
\* body replaced by the read end of a pipe that a goroutine fills.  Any
\* other request keeps its path and body.
Rewrite ==
    /\ pc = "received"
    /\ pc' = "sent"
    /\ outGrp' = ToCRD(req.grp)
    /\ IF req.grp = "native"
       THEN relay' = "running" /\ toRelay' = req.body /\ outBody' = <<>>
       ELSE relay' = "closed" /\ toRelay' = <<>> /\ outBody' = req.body
    /\ UNCHANGED <<srvPc, req, resp, got>>

\* One scanner.Scan: a line is written to the pipe with the group renamed
\* (and without its newline); a line over the token limit ends the scan,
\* and the deferred Close gives the server a clean EOF.
RelayLine ==
    LET l == Head(toRelay) IN
    /\ relay = "running" /\ toRelay # <<>>
    /\ IF l.huge
       THEN relay' = "closed" /\ UNCHANGED <<toRelay, outBody>>
       ELSE /\ outBody' = Append(outBody, [l EXCEPT !.grp = ToCRD(@)])
            /\ toRelay' = Tail(toRelay)
            /\ UNCHANGED relay
    /\ UNCHANGED <<srvPc, pc, req, outGrp, resp, got>>

\* The scanner reaches the end of the body; writer.Close.
RelayEnd ==
    /\ relay = "running" /\ toRelay = <<>>
    /\ relay' = "closed"
    /\ UNCHANGED <<srvPc, pc, req, outGrp, toRelay, outBody, resp, got>>

-----------------------------------------------------------------------------
(* The API server                                                          *)

\* Having read the body, the server answers: an object of the group the
\* path names, or, for a watch, an open stream.
ServerRespond ==
    /\ pc = "sent" /\ relay = "closed"
    /\ resp' = IF req.verb = "watch" THEN [open |-> TRUE, items |-> <<>>]
               ELSE [open |-> FALSE, items |-> <<outGrp>>]
    /\ pc' = "responded"
    /\ UNCHANGED <<srvPc, req, outGrp, relay, toRelay, outBody, got>>

\* The server flushes a watch event.
ServerEvent ==
    /\ pc = "responded" /\ resp.open /\ Len(resp.items) < MaxEvents
    /\ resp' = [resp EXCEPT !.items = Append(@, outGrp)]
    /\ UNCHANGED <<srvPc, pc, req, outGrp, relay, toRelay, outBody, got>>

\* The server ends the watch (its timeout, or the client's).
ServerClose ==
    /\ pc = "responded" /\ resp.open
    /\ resp' = [resp EXCEPT !.open = FALSE]
    /\ UNCHANGED <<srvPc, pc, req, outGrp, relay, toRelay, outBody, got>>

-----------------------------------------------------------------------------
(* The response path                                                       *)

\* ModifyResponse leaves a response whose path does not name the CRD group
\* alone; the ReverseProxy copies it, flushing each chunk of a stream.
Forward ==
    /\ pc = "responded" /\ outGrp # "crd"
    /\ Len(got) < Len(resp.items)
    /\ got' = Append(got, resp.items[Len(got) + 1])
    /\ UNCHANGED <<srvPc, pc, req, outGrp, relay, toRelay, outBody, resp>>

\* ModifyResponse on a CRD-group path: io.ReadAll returns only at the end of
\* the body, then every CRD group name in it becomes the native one.
ModifyResponse ==
    /\ pc = "responded" /\ outGrp = "crd" /\ ~resp.open
    /\ got' = [i \in DOMAIN resp.items |-> ToNative(resp.items[i])]
    /\ pc' = "done"
    /\ UNCHANGED <<srvPc, req, outGrp, relay, toRelay, outBody, resp>>

\* The copy of an unmodified response ends with the server's body.
Finish ==
    /\ pc = "responded" /\ outGrp # "crd" /\ ~resp.open
    /\ Len(got) = Len(resp.items)
    /\ pc' = "done"
    /\ UNCHANGED <<srvPc, req, outGrp, relay, toRelay, outBody, resp, got>>

-----------------------------------------------------------------------------

Init ==
    /\ srvPc = "setup" /\ pc = "none" /\ req = NoReq /\ outGrp = "other"
    /\ relay = "closed" /\ toRelay = <<>> /\ outBody = <<>>
    /\ resp = [open |-> FALSE, items |-> <<>>]
    /\ got = <<>>

ProxyStep == Rewrite \/ RelayLine \/ RelayEnd \/ Forward \/ ModifyResponse \/ Finish

Next ==
    \/ Start \/ StartFail
    \/ \E r \in Requests : Receive(r)
    \/ ProxyStep
    \/ ServerRespond \/ ServerEvent \/ ServerClose

\* The proxy's goroutines and the server's request handling run when they
\* can; the server is not obliged to flush events or to end a watch.
Spec == Init /\ [][Next]_vars /\ WF_vars(Start) /\ WF_vars(ProxyStep) /\ WF_vars(ServerRespond)

-----------------------------------------------------------------------------

\* A watch a client makes on the native group through the proxy delivers
\* every event the server flushes while the watch stays open: what a
\* watching client (kubectl get -w, an informer) relies on.  Rewrite sends
\* the request to the CRD group, and ModifyResponse's io.ReadAll holds such
\* a stream back until the server ends it.
WatchEventsForwarded ==
    \A i \in 1..MaxEvents :
        (req.grp = "native" /\ Len(resp.items) >= i) ~> (Len(got) >= i)

=============================================================================
