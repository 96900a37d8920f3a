------------------------------ MODULE SotwStream ------------------------------
(***************************************************************************)
(* State-of-the-world streams: processRequestStream of                     *)
(* pkg/envoy/xds/server.go and sotwWatchRequest.WatchResources of          *)
(* watcher.go.  Version and nonce of a response are the cache version.     *)
(***************************************************************************)
EXTENDS XDSStream

NewSotw == [received |-> FALSE, acked |-> FALSE, names |-> {}, requested |-> {}]

\* updateRequestedResources; no names means all.
Expands(previous, current) ==
    IF current = {} THEN previous # {}
    ELSE previous # {} /\ ~(current \subseteq previous)

SotwWatch(req, expanded) ==
    LET next == ~expanded /\ req.nonce # 0
    IN  [pc |-> IF next THEN "read" ELSE "top", acked |-> req.acked, recv |-> req.nonce, names |-> req.names,
         expanded |-> expanded, waitNext |-> next, waitVersion |-> req.nonce,
         query |-> IF next THEN req.nonce ELSE 0, res |-> Nil]

\* Mutant of AckVersion: the version of an earlier stream is passed on.
AckVersionStale(acked, req) == req.acked

\* Until a response of this stream is ACKed the client's version is stale.
AckVersion(acked, req) == IF acked THEN req.acked ELSE 0

\* One request.  A nonce below the acked version on a stream whose first response
\* was received ends the stream.  Otherwise the observers hear of the ACK or NACK,
\* with the names of the last response sent, the pending watch is cancelled and a
\* new one is started.
SotwRequest ==
    LET req      == Head(requests)
        received == st.received \/ req.nonce > 0
        nack     == received /\ req.acked < req.nonce
        acked    == st.acked \/ (received /\ req.acked = req.nonce)
        expanded == Expands(st.requested, req.names)
    IN  /\ up /\ proto = "sotw" /\ requests # <<>>
        /\ IF received /\ req.acked > req.nonce
           THEN /\ Closed
                /\ UNCHANGED <<mutVars, hist>>
           ELSE /\ IF received
                   THEN HandleAck(AckVersion(acked, req), req.nonce, nack, st.names)
                   ELSE UNCHANGED mutVars
                /\ requests' = Tail(requests)
                /\ st' = [st EXCEPT !.received = received, !.acked = acked,
                                    !.requested = req.names]
                /\ watch' = SotwWatch(req, expanded)
                /\ hist' = [hist EXCEPT !.dropped = IF watch # Nil /\ watch.expanded /\ ~expanded
                                                    THEN Names ELSE @]
                /\ UNCHANGED <<up, responses>>
        /\ UNCHANGED <<cacheVars, proto, client>>

\* The head of the watch loop: a client ahead of the cache, or one whose interest
\* grew without a newer version, is given a version of its own.  Past versions stay
\* past, so the code's second look at the version needs no step.
SotwTop ==
    LET ensured == IF watch.recv = 0 THEN watch.acked + 1
                   ELSE IF watch.expanded THEN watch.recv + 1 ELSE 0
    IN  /\ watch # Nil /\ proto = "sotw" /\ watch.pc = "top"
        /\ EnsureVersion(ensured)
        /\ watch' = [watch EXCEPT !.pc = "read"]
        /\ UNCHANGED <<mutVars, proto, up, requests, responses, st, client, hist>>

SotwGet ==
    /\ watch # Nil /\ proto = "sotw" /\ watch.pc = "get"
    /\ LET res == GetResources(watch.query, watch.names)
       IN  watch' = [watch EXCEPT !.pc = IF res = Nil THEN "read" ELSE "out", !.res = res]
    /\ UNCHANGED <<cacheVars, mutVars, proto, up, requests, responses, st, client, hist>>

\* The stream goroutine takes the result of the watch and sends it.
SotwSend ==
    /\ up /\ proto = "sotw" /\ watch # Nil /\ watch.pc = "out"
    /\ responses' = Append(responses, watch.res)
    /\ st' = [st EXCEPT !.names = DOMAIN watch.res.res]
    /\ watch' = Nil
    /\ hist' = [hist EXCEPT !.dropped = {}]
    /\ UNCHANGED <<cacheVars, mutVars, proto, up, requests, client>>

-----------------------------------------------------------------------------
(* The client.                                                             *)

Wanted(n) == client.wants = {} \/ n \in client.wants

SotwAsk(cl) == [acked |-> cl.acked, nonce |-> cl.nonce, names |-> cl.wants]

SotwConnect ==
    LET cl == [client EXCEPT !.nonce = 0, !.refused = {}]
    IN  /\ ~up /\ proto = "sotw"
        /\ up' = TRUE /\ st' = NewSotw
        /\ client' = cl /\ requests' = <<SotwAsk(cl)>>
        /\ hist' = [hist EXCEPT !.dropped = {}]
        /\ UNCHANGED <<cacheVars, mutVars, proto, responses, watch>>

\* A response for all names replaces what is installed; one for named resources
\* updates them.
SotwReceive(accept) ==
    LET r  == Head(responses)
        ns == DOMAIN r.res
        cl == IF accept
              THEN [client EXCEPT !.has = [n \in Names |->
                        IF n \in ns /\ Wanted(n) THEN r.res[n]
                        ELSE IF client.wants = {} THEN NoValue ELSE @[n]],
                    !.acked = r.version, !.nonce = r.version, !.refused = {}]
              ELSE [client EXCEPT !.nonce = r.version, !.refused = Names]
    IN  /\ up /\ proto = "sotw" /\ responses # <<>>
        /\ responses' = Tail(responses)
        /\ client' = cl
        /\ requests' = Append(requests, SotwAsk(cl))
        /\ hist' = IF accept THEN Accepted(ns, r.version) ELSE Refused(ns, r.version)
        /\ UNCHANGED <<cacheVars, mutVars, proto, up, st, watch>>

\* The client asks for other names while the stream is up.
SotwChange(ns) ==
    LET cl == [client EXCEPT !.wants = ns,
                             !.has = [n \in Names |-> IF ns = {} \/ n \in ns
                                                      THEN @[n] ELSE NoValue]]
    IN  /\ up /\ proto = "sotw" /\ ns # client.wants
        /\ client' = cl
        /\ requests' = Append(requests, SotwAsk(cl))
        /\ UNCHANGED <<cacheVars, mutVars, proto, up, responses, st, watch, hist>>
=============================================================================
