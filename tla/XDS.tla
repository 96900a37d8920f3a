--------------------------------- MODULE XDS ---------------------------------
(***************************************************************************)
(* The xDS server with the callers that change resources and wait for      *)
(* Envoy to acknowledge them, Envoy itself, and a stream of another type   *)
(* that waits for the first ACK of this one (LDS waits for CDS,            *)
(* pkg/envoy/grpc.go).  The stream speaks SotW or Delta.                   *)
(***************************************************************************)
EXTENDS SotwStream, DeltaStream

CONSTANTS
    Protos,         \* the variants to explore, a subset of {"sotw", "delta"}
    SotwInterests,  \* the name lists a SotW client may ask for; {} is all
    DeltaInterests, \* the subscriptions a Delta client may hold
    MaxOps,         \* bound: mutations of the callers
    MaxEvents       \* bound: refused responses, changes of interest, disconnects,
                    \* restarts of either side, deadlines and cancellations, together

ASSUME XDSProtos == Protos \subseteq {"sotw", "delta"}
ASSUME XDSBounds == {MaxOps, MaxEvents} \subseteq Nat
ASSUME XDSInterests == /\ SotwInterests \subseteq SUBSET Names
                       /\ DeltaInterests \subseteq (SUBSET (Names \cup {Star})) \ {{}}

VARIABLE used   \* what has been used of the bounds

vars == <<cacheVars, mutVars, streamVars, used>>

Init ==
    /\ CacheInit /\ MutatorInit /\ StreamInit
    /\ proto \in Protos
    /\ \E ns \in IF proto = "sotw" THEN SotwInterests ELSE DeltaInterests :
          client = [NewClient EXCEPT !.wants = ns]
    /\ used = [ops |-> 0, events |-> 0]

Use(f, max) == used[f] < max /\ used' = [used EXCEPT ![f] = @ + 1]

\* WaitForFirstAck of the stream of another type: with resources of this type in the
\* cache it waits on the channel of the node until that is gone; see GateOpen.
WaitForFirstAck ==
    /\ HasAny /\ ackedNode = "none"
    /\ ackedNode' = "chan"
    /\ UNCHANGED <<cacheVars, restoring, ackedVersion, comp, pendingComps, group, streamVars, used>>

GateOpen == ackedNode = "nil"

Mutate ==
    /\ Use("ops", MaxOps)
    /\ \E g \in Groups \cup {Nil}, n \in Names :
          (\E v \in Values : Upsert(g, n, v)) \/ Delete(g, n)
    /\ UNCHANGED streamVars

Cancel ==
    /\ Use("events", MaxEvents)
    /\ CancelCompletions
    /\ UNCHANGED <<cacheVars, streamVars>>

Timeout ==
    /\ Use("events", MaxEvents)
    /\ \E g \in Groups : Deadline(g)
    /\ UNCHANGED streamVars

Restored == RestoreCompleted /\ UNCHANGED <<streamVars, used>>

Waiters == (\E g \in Groups : GroupStep(g)) /\ UNCHANGED <<streamVars, used>>

Server ==
    /\ \/ SotwRequest \/ SotwTop \/ SotwGet \/ SotwSend
       \/ DeltaRequest \/ DeltaGet \/ DeltaSend \/ WatchRead
    /\ UNCHANGED used

Connect == (SotwConnect \/ DeltaConnect) /\ UNCHANGED used

Accept == (SotwReceive(TRUE) \/ DeltaReceive(TRUE)) /\ UNCHANGED used

Reject ==
    /\ Use("events", MaxEvents)
    /\ SotwReceive(FALSE) \/ DeltaReceive(FALSE)

Change ==
    /\ Use("events", MaxEvents)
    /\ (\E ns \in SotwInterests : SotwChange(ns)) \/ (\E ns \in DeltaInterests : DeltaChange(ns))

Break ==
    /\ Use("events", MaxEvents)
    /\ Disconnect \/ ClientRestart \/ AgentRestart

Next ==
    \/ Mutate \/ Cancel \/ Timeout \/ Restored \/ Waiters \/ WaitForFirstAck
    \/ Server \/ Connect \/ Accept \/ Reject \/ Change \/ Break

Spec == Init /\ [][Next]_vars

-----------------------------------------------------------------------------
(* Types.                                                                  *)

Content == Values \cup {NoValue}

\* The state of the server and of its client keeps its shape.
TypeOK ==
    /\ version \in Nat \ {0}
    /\ resources \in [Names -> [val : Content, mod : 0..version]]
    /\ restoring \in BOOLEAN
    /\ ackedVersion \in -1..version
    /\ ackedNode \in {"none", "chan", "nil"}
    /\ pendingComps \subseteq CompIDs
    /\ \A c \in CompIDs : comp[c].version <= version /\ comp[c].rest \subseteq Names
    /\ \A g \in Groups : group[g].state \in {"open", "waiting", "revert", "returned"}
    /\ client.has \in [Names -> Content]

-----------------------------------------------------------------------------
(* Safety.                                                                 *)

\* Nothing is in flight and the watch, if there is one, sleeps.
Quiet == up /\ requests = <<>> /\ responses = <<>> /\ (watch = Nil \/ Asleep)

\* What the client asked for and the protocol can tell it about: a SotW response to
\* named resources does not say that one is gone.
Told(n) == IF proto = "sotw" THEN client.wants = {} \/ (n \in client.wants /\ n \in Present)
           ELSE Covered(n)

\* The client has of these names what the cache has, but for those it refused last.
UpToDate(ns) == \A n \in ns \ client.refused : Told(n) => client.has[n] = resources[n].val

\* A stream that has come to rest has a watch, and its client has what the cache has
\* but for the resources it refused last - whatever changed, disconnected or restarted
\* on the way.  The exception are the names a watch was to answer at once, when it was
\* cancelled by a later request before its response was sent: they are left out until
\* a response carries them (see ExpansionAnswered).  (processRequestStream,
\* processDeltaRequestStream, WatchResources, GetResources, GetDeltaResources)
Converged ==
    Quiet => watch # Nil /\ UpToDate(Names \ hist.dropped)

\* A completion reported as ACKed belongs to a version Envoy accepted from this agent;
\* on a Delta stream also the resource itself was in an accepted response of that or a
\* later version.  (HandleResourceVersionAck)
AckHonest ==
    \A c \in CompIDs : comp[c].status = "ok" =>
        /\ hist.okV >= comp[c].version
        /\ (proto = "delta" /\ comp[c].name # Nil) => hist.ok[comp[c].name] >= comp[c].version

\* A completion reported as NACKed belongs to a version Envoy refused, and on a Delta
\* stream to a response with its resource.  (HandleResourceVersionAck)
NackHonest ==
    \A c \in CompIDs : comp[c].status = "nack" =>
        /\ hist.badV >= comp[c].version
        /\ (proto = "delta" /\ comp[c].name # Nil) => hist.bad[comp[c].name] >= comp[c].version

\* The mutator never records, and so never skips a wait or opens the gate of another
\* stream for, a version Envoy did not accept from this agent: not the version it had
\* from an earlier agent, not one it refused.  (processRequestStream:467,
\* HandleResourceVersionAck, WaitForFirstAck)
AckedReal ==
    /\ ackedVersion <= hist.okV
    /\ GateOpen => hist.okV > 0

\* Envoy never sees its stream closed for an invalid nonce.  (ErrInvalidResponseNonce)
NonceValid ==
    up /\ requests # <<>> =>
        LET req == Head(requests)
        IN  IF proto = "sotw" THEN ~((st.received \/ req.nonce > 0) /\ req.acked > req.nonce)
            ELSE ~BadNonce(req.nonce)

\* Once Wait has returned no completion of the group can still call back, and the
\* mutator has forgotten them all.  (Wait, CleanupAfterWait)
WaitSound ==
    \A g \in Groups : group[g].state \in {"revert", "returned"} =>
        \A c \in OfGroup(g) : Completed(c) /\ c \notin pendingComps

\* When the stream rests, no completion waits for the upsert of a resource that is in
\* the cache and that Envoy asks for, and none at all waits if Envoy asks for all
\* resources in SotW, where every version is sent.  (A Delta stream, or one for named
\* resources, has nothing to send for the deletion of what Envoy never had: that waiter
\* is left to its deadline.)  (Upsert, Delete, HandleResourceVersionAck)
Served ==
    Quiet =>
        \A c \in pendingComps : comp[c].status = "wait" =>
            IF comp[c].name # Nil
            THEN \/ comp[c].name \notin (Present \ client.refused) \ hist.dropped
                 \/ ~Told(comp[c].name)
            ELSE proto = "delta" \/ client.wants # {} \/ client.refused \cup hist.dropped # {}

-----------------------------------------------------------------------------
(* What the comments of the code say and the code does not keep.           *)

\* updateRequestedResources: "return true only if current is an expansion of interest
\* in comparison to previous, as then an immediate response is required".  A stream at
\* rest has told its client everything it asked for.
ExpansionAnswered == Quiet => UpToDate(Names)
=============================================================================
