----------------------------- MODULE DeltaStream -----------------------------
(***************************************************************************)
(* Delta streams: processDeltaRequestStream of pkg/envoy/xds/server.go and *)
(* deltaWatchRequest.WatchResources of watcher.go.  Nonces count the       *)
(* responses of the stream; 0 stands for the empty nonce.                  *)
(***************************************************************************)
EXTENDS XDSStream

NewDelta == [lastAcked |-> 0, ackedNames |-> {}, subs |-> {}, nonce |-> 0, resp |-> Nil,
             deferred |-> FALSE, deferredForce |-> {}, streamNonce |-> 0]

\* A nonce that answers neither the outstanding response nor an older one.
BadNonce(nonce) ==
    /\ nonce # 0 /\ nonce # st.nonce
    /\ IF st.nonce = 0 THEN st.resp = Nil \/ nonce > st.streamNonce
       ELSE nonce >= st.nonce

DeltaWatch(s, received, immediate, force, initial) ==
    [pc |-> "read", acked |-> s.lastAcked, subs |-> s.subs, names |-> s.ackedNames,
     force |-> force, waitNext |-> ~immediate /\ received # 0, waitVersion |-> received,
     empty |-> initial, res |-> Nil]

\* The names that a set of forced names stands for.
Forced(ns) == IF Star \in ns THEN Names ELSE ns

\* One request: subscriptions, then unsubscriptions, then the answer to the
\* outstanding response, if it is one.  While a response is outstanding what the
\* request asks for is deferred; otherwise a new watch is started with it.
DeltaRequest ==
    LET req       == Head(requests)
        initial   == st.resp = Nil /\ st.nonce = 0 /\ watch = Nil
        sub       == IF initial /\ req.sub = {} THEN {Star} ELSE req.sub
        subs      == st.subs \cup sub
        wildcard  == Star \in subs \ req.unsub
        \* a name still covered by the wildcard is resolved, any other is forgotten
        resolve   == {n \in req.unsub \cap subs : n # Star /\ wildcard}
        force     == (sub \ req.unsub) \cup resolve
        dropped   == (req.unsub \cap subs) \ resolve
        known     == (st.ackedNames \ dropped)
                     \cup (IF initial /\ req.nonce = 0 THEN req.initial ELSE {})
        answers   == req.nonce # 0 /\ req.nonce = st.nonce
        accepts   == answers /\ ~req.error
        s         == [st EXCEPT
                        !.subs = subs \ req.unsub,
                        !.deferredForce = @ \ req.unsub,
                        !.nonce = IF answers THEN 0 ELSE @,
                        !.lastAcked = IF accepts THEN st.resp.version ELSE @,
                        !.ackedNames = IF accepts
                                       THEN (known \ st.resp.gone) \cup DOMAIN st.resp.res
                                       ELSE known]
        immediate == req.sub # {} \/ req.unsub # {}
        allForce  == force \cup s.deferredForce
    IN  /\ up /\ proto = "delta" /\ requests # <<>>
        /\ IF BadNonce(req.nonce) \/ (req.nonce = 0 /\ req.error)
           THEN /\ Closed
                /\ UNCHANGED <<mutVars, hist>>
           ELSE /\ IF answers
                   THEN HandleAck(s.lastAcked, st.resp.version, req.error, DOMAIN st.resp.res)
                   ELSE UNCHANGED mutVars
                /\ requests' = Tail(requests)
                /\ IF s.nonce # 0
                   THEN /\ st' = [s EXCEPT !.deferred = @ \/ immediate,
                                           !.deferredForce = allForce]
                        /\ watch' = Nil
                   ELSE /\ st' = [s EXCEPT !.deferred = FALSE, !.deferredForce = {}]
                        /\ watch' = DeltaWatch(s, IF answers THEN st.resp.version ELSE 0,
                                               immediate \/ s.deferred \/ s.deferredForce # {},
                                               allForce, initial)
                /\ hist' = [hist EXCEPT !.dropped =
                              (IF watch = Nil THEN @ ELSE @ \cup Forced(watch.force))
                              \ Forced(allForce)]
                /\ UNCHANGED <<up, responses>>
        /\ UNCHANGED <<cacheVars, proto, client>>

\* Forced names count in the first round only, unless that is also the last.
DeltaGet ==
    /\ watch # Nil /\ proto = "delta" /\ watch.pc = "get"
    /\ LET res == GetDeltaResources(watch.acked, watch.subs, watch.names, watch.force, watch.empty)
       IN  watch' = [watch EXCEPT !.pc = IF res = Nil THEN "read" ELSE "out", !.res = res,
                                  !.force = IF res = Nil THEN {} ELSE @]
    /\ UNCHANGED <<cacheVars, mutVars, proto, up, requests, responses, st, client, hist>>

DeltaSend ==
    LET nonce == st.streamNonce + 1
    IN  /\ up /\ proto = "delta" /\ watch # Nil /\ watch.pc = "out"
        /\ responses' = Append(responses, [nonce |-> nonce, version |-> watch.res.version,
                                           res |-> watch.res.res, gone |-> watch.res.gone])
        /\ st' = [st EXCEPT !.streamNonce = nonce, !.nonce = nonce, !.resp = watch.res]
        /\ watch' = Nil
        /\ hist' = [hist EXCEPT !.dropped = @ \ (DOMAIN watch.res.res \cup watch.res.gone)]
        /\ UNCHANGED <<cacheVars, mutVars, proto, up, requests, client>>

-----------------------------------------------------------------------------
(* The client.                                                             *)

Covered(n) == Star \in client.wants \/ n \in client.wants

\* The first request of a stream names what is installed; a client that wants
\* everything subscribes to no names.
DeltaConnect ==
    /\ ~up /\ proto = "delta"
    /\ up' = TRUE /\ st' = NewDelta
    /\ client' = [client EXCEPT !.nonce = 0, !.refused = {}]
    /\ requests' = <<[nonce |-> 0, error |-> FALSE,
                      sub |-> IF client.wants = {Star} THEN {} ELSE client.wants, unsub |-> {},
                      initial |-> {n \in Names : client.has[n] # NoValue}]>>
    /\ hist' = [hist EXCEPT !.dropped = {}]
    /\ UNCHANGED <<cacheVars, mutVars, proto, responses, watch>>

DeltaReceive(accept) ==
    LET r  == Head(responses)
        ns == DOMAIN r.res
    IN  /\ up /\ proto = "delta" /\ responses # <<>>
        /\ responses' = Tail(responses)
        /\ client' = IF accept
                     THEN [client EXCEPT !.nonce = r.nonce, !.refused = @ \ (ns \cup r.gone),
                              !.has = [n \in Names |->
                                        IF n \in ns /\ Covered(n) THEN r.res[n]
                                        ELSE IF n \in r.gone THEN NoValue ELSE @[n]]]
                     ELSE [client EXCEPT !.nonce = r.nonce, !.refused = @ \cup ns \cup r.gone]
        /\ requests' = Append(requests, [nonce |-> r.nonce, error |-> ~accept, sub |-> {},
                                         unsub |-> {}, initial |-> {}])
        /\ hist' = IF accept THEN Accepted(ns, r.version) ELSE Refused(ns, r.version)
        /\ UNCHANGED <<cacheVars, mutVars, proto, up, st, watch>>

\* The client changes its subscriptions; it may repeat the last nonce it answered.
DeltaChange(ns) ==
    /\ up /\ proto = "delta" /\ ns # client.wants
    /\ client' = [client EXCEPT !.wants = ns,
                     !.has = [n \in Names |-> IF Star \in ns \/ n \in ns THEN @[n] ELSE NoValue]]
    /\ \E nonce \in {0, client.nonce} :
          requests' = Append(requests, [nonce |-> nonce, error |-> FALSE, sub |-> ns \ client.wants,
                                        unsub |-> client.wants \ ns, initial |-> {}])
    /\ UNCHANGED <<cacheVars, mutVars, proto, up, responses, st, watch, hist>>
=============================================================================
