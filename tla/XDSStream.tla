------------------------------ MODULE XDSStream ------------------------------
(***************************************************************************)
(* What the SotW and the Delta stream of the xDS server share              *)
(* (pkg/envoy/xds/server.go): one gRPC stream with a request and a         *)
(* response queue, the per-type stream state, and the goroutine that       *)
(* watches the cache for it.  The client is Envoy, external: it installs   *)
(* or refuses every response and answers it, and asks for names.           *)
(***************************************************************************)
EXTENDS AckingMutator

VARIABLES
    proto,      \* "sotw" or "delta": the variant this stream speaks
    up,         \* the stream exists
    requests,   \* client -> server, in order
    responses,  \* server -> client, in order
    st,         \* perSotwTypeStreamState / perDeltaTypeStreamState
    watch,      \* the pending watch goroutine, or Nil
    client,     \* Envoy: what it wants, has installed and has answered
    hist        \* per agent life: what Envoy accepted and refused; the names
                \* a cancelled watch was to answer at once

streamVars == <<proto, up, requests, responses, st, watch, client, hist>>

\* At the start of an agent, Envoy has answered nothing of it.
NoHist == [ok |-> [n \in Names |-> 0], okV |-> 0,
           bad |-> [n \in Names |-> 0], badV |-> 0, dropped |-> {}]

NewClient == [wants |-> {}, has |-> [n \in Names |-> NoValue],
              acked |-> 0, nonce |-> 0, refused |-> {}]

StreamInit ==
    /\ up = FALSE /\ requests = <<>> /\ responses = <<>>
    /\ st = Nil /\ watch = Nil
    /\ hist = NoHist

\* Envoy accepted (refused) a response with these names at this version.
Accepted(ns, v) ==
    [hist EXCEPT !.ok = [n \in Names |-> IF n \in ns THEN v ELSE @[n]], !.okV = v]
Refused(ns, v) ==
    [hist EXCEPT !.bad = [n \in Names |-> IF n \in ns THEN v ELSE @[n]], !.badV = v]

\* The stream ends, for either side's reason: the queues are lost, the server
\* cancels the pending watch and drops its state for the stream.
Closed ==
    /\ up' = FALSE /\ requests' = <<>> /\ responses' = <<>>
    /\ st' = Nil /\ watch' = Nil

Disconnect ==
    /\ up /\ Closed
    /\ UNCHANGED <<cacheVars, mutVars, proto, client, hist>>

\* Envoy restarts: it has nothing installed.
ClientRestart ==
    /\ IF up THEN Closed ELSE UNCHANGED <<up, requests, responses, st, watch>>
    /\ client' = [NewClient EXCEPT !.wants = client.wants]
    /\ UNCHANGED <<cacheVars, mutVars, proto, hist>>

\* The agent restarts: cache, mutator, wait groups and streams are new, Envoy
\* keeps what it has.
AgentRestart ==
    /\ version' = 1 /\ resources' = [n \in Names |-> Absent]
    /\ restoring' = TRUE /\ ackedVersion' = NotSeen /\ ackedNode' = "none"
    /\ comp' = [c \in CompIDs |-> NoComp] /\ pendingComps' = {}
    /\ group' = [g \in Groups |-> NewGroup]
    /\ hist' = NoHist
    /\ IF up THEN Closed ELSE UNCHANGED <<up, requests, responses, st, watch>>
    /\ UNCHANGED <<proto, client>>

\* The watch sleeps until the cache moves past the version it last looked at.
Asleep == watch # Nil /\ watch.pc = "read" /\ watch.waitNext /\ version <= watch.waitVersion

\* waitForVersion, then VersionState: the version is read before the resources.
WatchRead ==
    /\ watch # Nil /\ watch.pc = "read" /\ ~Asleep
    /\ watch' = [watch EXCEPT !.pc = "get", !.waitNext = TRUE, !.waitVersion = version]
    /\ UNCHANGED <<cacheVars, mutVars, proto, up, requests, responses, st, client, hist>>
=============================================================================
