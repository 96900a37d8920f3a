------------------------------ MODULE Endpoint ------------------------------
(***************************************************************************)
(* One endpoint of the agent (pkg/endpoint): its state machine, the        *)
(* requests to regenerate it, the regeneration that its event queue runs,  *)
(* the resolution of its identity and its deletion.                        *)
(*                                                                         *)
(* Every critical section of the endpoint mutex is one step. The build     *)
(* mutex is held across several of them and is a variable.                 *)
(***************************************************************************)
EXTENDS PolicyComputer, EventQueue

CONSTANTS
    FirstLabel  \* the labels of the new endpoint, by the identity they resolve to

ASSUME FirstLabelResolves == FirstLabel \in Ids

VARIABLES
    ep,         \* the fields of Endpoint
    build,      \* buildMutex is held by the regeneration
    alive,      \* aliveCtx is not cancelled
    failed,     \* regenFailedChan, of capacity one
    h,          \* the event that the queue handles
    resolver    \* the controller that resolves the identity

endpointVars == <<ep, build, alive, failed, h, resolver>>

States == {"waiting-for-identity", "ready", "waiting-to-regenerate", "regenerating",
           "restoring", "disconnecting", "disconnected"}

NoPol   == <<NoId, 0>>
NoBuild == [pc |-> "idle", by |-> "none", want |-> 0, first |-> FALSE, id |-> NoId, idRev |-> 0,
            pol |-> NoPol, claim |-> 0, drop |-> {}]
NoResolution == [pc |-> "idle", label |-> NoId, idRev |-> 0, again |-> FALSE]

\* The proxy redirects that a policy needs; its content names them.
Redirects(p) == IF p = NoPol THEN {} ELSE {<<p[1], Content(p[1], p[2])>>}

\* An endpoint with identity id and its policy, or, for NoId, a new one whose
\* labels are not resolved yet.
EndpointInit(id) ==
    LET pol == IF id = NoId THEN NoPol ELSE <<id, 1>>
        rev == IF id = NoId THEN 0 ELSE 1
    IN  /\ ep = [state |-> IF id = NoId THEN "waiting-for-identity" ELSE "ready",
                 id |-> id, label |-> FirstLabel, idRev |-> 0,
                 level |-> FALSE, skipped |-> 0, rev |-> rev,
                 desired |-> pol, desiredRev |-> rev, realized |-> pol, map |-> pol,
                 redirects |-> Redirects(pol), initial |-> id # NoId]
        /\ build = FALSE
        /\ alive = TRUE
        /\ failed = FALSE
        /\ h = NoBuild
        /\ resolver = [NoResolution EXCEPT !.again = (id = NoId)]

\* The policies the endpoint is registered with.
Users(e, held) == {e.desired, e.realized, held} \ {NoPol}

-----------------------------------------------------------------------------
(* The state machine.                                                      *)

\* lockAlive, IsAlive.
IsAlive(e) == e.state \notin {"disconnecting", "disconnected"}

\* setState: the transitions that anyone but the builder may take.
Transitions(s) ==
    CASE s = "waiting-for-identity"  -> {"ready", "disconnecting"}
      [] s = "ready"                 -> {"waiting-for-identity", "disconnecting",
                                         "waiting-to-regenerate", "restoring"}
      [] s = "waiting-to-regenerate" -> {"disconnecting", "restoring"}
      [] s = "regenerating"          -> {"waiting-for-identity", "disconnecting",
                                         "waiting-to-regenerate", "restoring"}
      [] s = "restoring"             -> {"disconnecting", "restoring"}
      [] s = "disconnecting"         -> {"disconnected"}
      [] OTHER                       -> {}

setState(e, to) == IF to \in Transitions(e.state) THEN [e EXCEPT !.state = to] ELSE e

\* BuilderSetStateLocked: the transitions of the builder.
BuilderMaySet(e, to) ==
    \/ to = "regenerating" /\ e.state \in {"waiting-to-regenerate", "restoring"}
    \/ to = "ready" /\ e.state = "regenerating"

BuilderSetState(e, to) == IF BuilderMaySet(e, to) THEN [e EXCEPT !.state = to] ELSE e

\* setRegenerateStateLocked: a request is buffered where one is pending already
\* or where the identity is awaited; otherwise the caller must enqueue an event.
BuffersRunning(e) == e.state \in {"restoring", "waiting-to-regenerate", "waiting-for-identity",
                                  "regenerating"}
Buffers(e) == e.state \in {"restoring", "waiting-to-regenerate", "waiting-for-identity"}

setRegenerateStateEager(e, want) ==
    IF Buffers(e)
    THEN [e EXCEPT !.state = "waiting-to-regenerate", !.level = TRUE, !.skipped = Max({@, want})]
    ELSE setState(e, "waiting-to-regenerate")
setRegenerateState(e, want) ==
    IF Buffers(e) THEN [e EXCEPT !.level = TRUE, !.skipped = Max({@, want})]
    ELSE setState(e, "waiting-to-regenerate")

MustEnqueue(e) == ~Buffers(e) /\ "waiting-to-regenerate" \in Transitions(e.state)

\* SetRegenerateStateIfAlive, and the call of Regenerate where it is due.
Request(c, e, want) ==
    /\ ep' = IF IsAlive(e) THEN setRegenerateState(e, want) ELSE e
    /\ call' = [call EXCEPT ![c] = IF IsAlive(e) /\ MustEnqueue(e)
                                   THEN [pc |-> "enqueue", want |-> want] ELSE NoCall]

setPolicyRevision(e, rev) == [e EXCEPT !.rev = Max({@, rev})]

-----------------------------------------------------------------------------
(* The goroutines that ask for a regeneration.                             *)

\* UpdatePolicy, called by the importer, which waits for the regeneration of an
\* endpoint whose identity is selected. The revision of another endpoint is
\* bumped; one that has not realized a policy yet is made to wait for it.
UpdatePolicy(ids, toRev) ==
    /\ call["import"].pc = "set" /\ ~build
    /\ \/ /\ ~IsAlive(ep) \/ ep.id = NoId
          /\ call' = [call EXCEPT !["import"] = NoCall]
          /\ UNCHANGED <<ep, reqs, trigger>>
       \/ /\ IsAlive(ep) /\ ep.id # NoId /\ ep.id \notin ids
          /\ call' = [call EXCEPT !["import"] = NoCall]
          /\ IF ep.rev = 0
             THEN IF toRev > ep.skipped
                  THEN /\ RecomputeIdentityPolicy(ep.id, toRev)
                       /\ ep' = [ep EXCEPT !.skipped = toRev]
                  ELSE UNCHANGED <<ep, reqs, trigger>>
             ELSE /\ ep' = setPolicyRevision(ep, toRev)
                  /\ UNCHANGED <<reqs, trigger>>
       \/ /\ IsAlive(ep) /\ ep.id \in ids
          /\ Request("import", ep, toRev)
          /\ UNCHANGED <<reqs, trigger>>
    /\ UNCHANGED <<revision, changed, local, advances, table, comp, users, woken, events,
                   queue, drain, closed, build, alive, failed, h, resolver>>

\* RegenerateIfAlive, as RegenerateAllForPolicy calls it, or the identity
\* resolver to flush what was buffered.
RegenerateIfAlive(c) ==
    /\ call[c].pc = "set" /\ c # "import"
    /\ Request(c, ep, call[c].want)
    /\ UNCHANGED <<computerVars, queue, drain, closed, build, alive, failed, h, resolver>>

\* RegenerateIfAlive in the goroutine that superseding a used policy starts.
RegenerateSuperseded ==
    /\ woken /\ call["superseded"] = NoCall
    /\ woken' = FALSE
    /\ Request("superseded", ep, 0)
    /\ UNCHANGED <<revision, changed, local, reqs, advances, trigger, table, comp, users,
                   events, queue, drain, closed, build, alive, failed, h, resolver>>

\* The failure handler: it regenerates after a failure until that succeeds.
RegenerationFailureHandler ==
    /\ failed /\ alive /\ call["recovery"] = NoCall
    /\ failed' = FALSE
    /\ Request("recovery", ep, 0)
    /\ UNCHANGED <<computerVars, queue, drain, closed, build, alive, h, resolver>>

\* UpdateNoTrackRules, UpdateBandwidthPolicy: events of another kind, whose result
\* the caller waits for.
UpdateAnnotations ==
    /\ call["update"] = NoCall
    /\ Event
    /\ call' = [call EXCEPT !["update"] = [pc |-> "enqueue", want |-> 0]]
    /\ UNCHANGED <<revision, changed, local, reqs, advances, trigger, table, comp, users, woken,
                   queue, drain, closed, endpointVars>>

\* Regenerate: the event is put on the queue.
EnqueueEvent(c) ==
    /\ Enqueue(c) \/ Send(c)
    /\ UNCHANGED <<computerVars, endpointVars>>

-----------------------------------------------------------------------------
(* The regeneration, step by step.                                         *)

Goto(pc) == [h EXCEPT !.pc = pc]

\* The result of the event goes to the goroutine that Regenerate started: it
\* reports a failure that is no cancellation and releases the caller.
ResultUnreported(failure) ==
    /\ h' = NoBuild
    /\ call' = Returned(h.by)
    /\ build' = FALSE
    /\ UNCHANGED failed
Result(failure) ==
    /\ h' = NoBuild
    /\ call' = Returned(h.by)
    /\ failed' = (failed \/ failure)
    /\ build' = FALSE

\* EventQueue.run takes an event; a queue that drains cancels it. The handlers of
\* EndpointNoTrackEvent and EndpointPolicyBandwidthEvent do not touch the policy.
Handle ==
    /\ h.pc = "idle" /\ queue # <<>>
    /\ queue' = Tail(queue)
    /\ IF drain \/ Head(queue).by = "update"
       THEN /\ call' = Returned(Head(queue).by)
            /\ UNCHANGED h
       ELSE /\ h' = [NoBuild EXCEPT !.pc = IF ep.initial THEN "permit" ELSE "first",
                                    !.by = Head(queue).by, !.want = Head(queue).want,
                                    !.first = ~ep.initial]
            /\ UNCHANGED call
    /\ UNCHANGED <<computerVars, drain, closed, ep, build, alive, failed, resolver>>

\* The endpoint's identity is read under the lock and used without it.
ReadIdentity == [h EXCEPT !.pc = IF ep.id = NoId THEN "set" ELSE "fetch",
                          !.id = ep.id, !.idRev = ep.idRev]

\* ComputeInitialPolicy: the first regeneration computes a policy before it asks
\* for a build permit.
ComputeInitialPolicy ==
    /\ h.pc = "first" /\ ~build
    /\ IF IsAlive(ep) THEN build' = TRUE /\ h' = ReadIdentity
                      ELSE h' = Goto("permit") /\ UNCHANGED build
    /\ UNCHANGED <<computerVars, queueVars, ep, alive, failed, resolver>>

\* The permit is asked for with the context of the endpoint.
QueueEndpointBuild ==
    /\ h.pc = "permit"
    /\ IF IsAlive(ep) /\ alive
       THEN h' = [Goto("start") EXCEPT !.first = FALSE] /\ UNCHANGED <<call, build, failed>>
       ELSE Result(FALSE)
    /\ UNCHANGED <<computerVars, queue, drain, closed, ep, alive, resolver>>

\* regenerate takes the build mutex, enters the state regenerating and takes over
\* what was buffered.
StartRegenerate ==
    /\ h.pc = "start" /\ ~build
    /\ IF ep.state = "waiting-for-identity" \/ BuilderMaySet(ep, "regenerating")
       THEN /\ build' = TRUE
            /\ ep' = [BuilderSetState(ep, "regenerating") EXCEPT !.level = FALSE, !.skipped = 0]
            /\ h' = [Goto("read") EXCEPT !.want = Max({@, ep.skipped})]
            /\ UNCHANGED <<call, failed>>
       ELSE Result(IsAlive(ep)) /\ UNCHANGED ep
    /\ UNCHANGED <<computerVars, queue, drain, closed, alive, resolver>>

\* The directory of the build cannot be prepared: the error returns before the
\* builder would leave the state regenerating, and what was buffered is consumed.
PrepareBuildFails ==
    /\ h.pc = "read"
    /\ Event
    /\ Result(TRUE)
    /\ UNCHANGED <<revision, changed, local, reqs, advances, trigger, table, comp, users, woken,
                   queue, drain, closed, ep, alive, resolver>>

\* The end of a regeneration, successful or not: finalizeEndpointRegeneration
\* removes the redirects that the new policy does not use, and the builder
\* leaves the state regenerating.
Finalized(e) == [e EXCEPT !.redirects = @ \ h.drop]
Ended(e)     == BuilderSetState(Finalized(e), "ready")

\* A regeneration that fails after its start. The first computation is not a
\* failure, it is tried again.
Fail(failure) ==
    /\ IF h.first
       THEN /\ h' = [Goto("permit") EXCEPT !.id = NoId, !.idRev = 0, !.pol = NoPol, !.claim = 0]
            /\ build' = FALSE
            /\ UNCHANGED <<ep, call, failed>>
       ELSE Result(failure) /\ ep' = [Ended(ep) EXCEPT !.initial = TRUE]
    /\ users' = Users(ep, NoPol)

\* regenerateBPF starts: runPreCompilationSteps and regeneratePolicy read what
\* they need under the lock.
ReadPolicyInput ==
    /\ h.pc = "read"
    /\ IF alive THEN h' = ReadIdentity /\ UNCHANGED <<ep, call, failed, build, users>>
                ELSE Fail(FALSE)
    /\ UNCHANGED <<revision, changed, local, reqs, advances, trigger, table, comp, woken, events,
                   queue, drain, closed, alive, resolver>>

\* waitForPolicyComputationResult: the result for the identity that was read, if
\* it is current at the wanted revision. A hold keeps it attached.
FetchPolicy ==
    /\ h.pc = "fetch"
    /\ table[h.id] # NoResult /\ table[h.id].currentAt >= h.want
    /\ h' = [Goto("distill") EXCEPT !.pol = <<h.id, table[h.id].rev>>,
                                    !.claim = table[h.id].currentAt,
                                    !.want = IF h.first THEN @ ELSE 0]
    /\ UNCHANGED <<computerVars, queueVars, ep, build, alive, failed, resolver>>

\* The wait for it is given up after a second. A timeout while the computer is at
\* work is an event.
FetchTimeout ==
    /\ h.pc = "fetch"
    /\ table[h.id] = NoResult \/ table[h.id].currentAt < h.want
    /\ IF comp.pc = "idle" /\ ~trigger THEN UNCHANGED events ELSE Event
    /\ Fail(TRUE)
    /\ UNCHANGED <<revision, changed, local, reqs, advances, trigger, table, comp, woken,
                   queue, drain, closed, alive, resolver>>

\* insertUser: a policy that was superseded meanwhile regenerates its new user.
insertUser(p) == woken' = (woken \/ p \notin Live)

\* addNewRedirects and DistillPolicy: the endpoint becomes a user of the policy.
DistillPolicy ==
    /\ h.pc = "distill"
    /\ ep' = [ep EXCEPT !.redirects = @ \cup Redirects(h.pol)]
    /\ h' = [Goto("set") EXCEPT !.drop = @ \cup (Redirects(ep.desired) \ Redirects(h.pol))]
    /\ users' = Users(ep, h.pol)
    /\ insertUser(h.pol)
    /\ UNCHANGED <<revision, changed, local, reqs, advances, trigger, table, comp, events,
                   queueVars, build, alive, failed, resolver>>

\* setDesiredPolicy rejects a policy whose identity is not the endpoint's any
\* more; otherwise it becomes the desired one, and the policy map of an endpoint
\* that never realized one is filled at once if it is empty. Without an identity
\* there is no policy, and that is rejected if there is an identity by now.
Rejected == ep.id # h.id \/ (h.id # NoId /\ ep.idRev # h.idRev)

Desired(e) ==
    IF h.id = NoId THEN e
    ELSE [e EXCEPT !.desired = h.pol, !.desiredRev = h.claim,
                   !.map = IF ~h.first /\ e.realized = NoPol /\ e.map = NoPol THEN h.pol ELSE @]

SetDesiredPolicy ==
    /\ h.pc = "set"
    /\ IF Rejected
       THEN Fail(TRUE)
       ELSE LET e == [Desired(ep) EXCEPT !.initial = TRUE]
            IN  /\ ep' = e
                /\ h' = [Goto(IF h.first THEN "permit" ELSE "build") EXCEPT
                         !.id = NoId, !.idRev = 0, !.pol = NoPol, !.claim = 0]
                /\ build' = ~h.first
                /\ users' = Users(e, NoPol)
                /\ UNCHANGED <<call, failed>>
    /\ UNCHANGED <<revision, changed, local, reqs, advances, trigger, table, comp, woken, events,
                   queue, drain, closed, alive, resolver>>

\* The rest of regenerateBPF fails: the compilation, the wait for the proxies or
\* a map.
BuildFails ==
    /\ h.pc = "build"
    /\ Event
    /\ Fail(TRUE)
    /\ UNCHANGED <<revision, changed, local, reqs, advances, trigger, table, comp, woken,
                   queue, drain, closed, alive, resolver>>

\* Or it writes the desired policy to the policy map and finalizes.
PolicyMapSync ==
    /\ h.pc = "build"
    /\ ep' = Finalized([ep EXCEPT !.map = ep.desired])
    /\ h' = [Goto("realize") EXCEPT !.drop = {}, !.claim = ep.desiredRev]
    /\ UNCHANGED <<computerVars, queueVars, build, alive, failed, resolver>>

\* updateRealizedState, then the builder leaves the state regenerating.
UpdateRealizedState ==
    /\ h.pc = "realize"
    /\ ep' = Ended(setPolicyRevision([ep EXCEPT !.realized = ep.desired], h.claim))
    /\ users' = Users(ep', NoPol)
    /\ Result(FALSE)
    /\ UNCHANGED <<revision, changed, local, reqs, advances, trigger, table, comp, woken, events,
                   queue, drain, closed, alive, resolver>>

\* Or its directories cannot be exchanged, with the policy map written already.
SynchronizeDirectoriesFails ==
    /\ h.pc = "realize"
    /\ Event
    /\ Fail(TRUE)
    /\ UNCHANGED <<revision, changed, local, reqs, advances, trigger, table, comp, woken,
                   queue, drain, closed, alive, resolver>>

RegenerationStep ==
    \/ Handle
    \/ ComputeInitialPolicy
    \/ QueueEndpointBuild
    \/ StartRegenerate
    \/ ReadPolicyInput
    \/ FetchPolicy
    \/ FetchTimeout
    \/ DistillPolicy
    \/ SetDesiredPolicy
    \/ PolicyMapSync
    \/ UpdateRealizedState

-----------------------------------------------------------------------------
(* The identity.                                                           *)

\* ModifyIdentityLabels; the controller that resolves the identity is run again.
ModifyIdentityLabels(label) ==
    /\ IsAlive(ep) /\ label # ep.label
    /\ Event
    /\ ep' = [setState(ep, "waiting-for-identity") EXCEPT !.label = label, !.idRev = @ + 1]
    /\ resolver' = [resolver EXCEPT !.again = TRUE]
    /\ UNCHANGED <<revision, changed, local, reqs, advances, trigger, table, comp, users, woken,
                   queueVars, build, alive, failed, h>>

\* identityLabelsChanged reads the labels. Labels that are those of the identity
\* end the wait for it, and what was buffered meanwhile is requested. Other
\* labels are allocated an identity, without the lock.
ResolveIdentity ==
    /\ resolver.pc = "idle" /\ resolver.again /\ alive /\ call["resolver"] = NoCall
    /\ IF ~IsAlive(ep) \/ ep.id = ep.label
       THEN LET parked   == IsAlive(ep) /\ ep.state = "waiting-for-identity"
                deferred == parked /\ (ep.level \/ ep.skipped > 0)
            IN  /\ resolver' = NoResolution
                /\ ep' = IF parked THEN setState(ep, "ready") ELSE ep
                /\ call' = IF deferred
                           THEN [call EXCEPT !["resolver"] = [pc |-> "set", want |-> ep.skipped]]
                           ELSE call
       ELSE /\ resolver' = [pc |-> "allocate", label |-> ep.label, idRev |-> ep.idRev,
                            again |-> FALSE]
            /\ UNCHANGED <<ep, call>>
    /\ UNCHANGED <<computerVars, queue, drain, closed, build, alive, failed, h>>

\* The lock is taken again, after the allocation and the grace period: an
\* obsolete resolution is dropped, otherwise SetIdentity moves the endpoint to
\* the new identity and a regeneration is requested.
SetIdentity ==
    /\ resolver.pc = "allocate"
    /\ resolver' = [NoResolution EXCEPT !.again = resolver.again]
    /\ IF ~IsAlive(ep) \/ resolver.idRev # ep.idRev
       THEN UNCHANGED <<ep, call, local, reqs, trigger, table, woken>>
       ELSE /\ LocalIdentity(ep.id, resolver.label)
            /\ LET e == [ep EXCEPT !.id = resolver.label]
               IN  Request("resolver",
                           IF e.state = "waiting-for-identity" THEN setState(e, "ready") ELSE e, 0)
    /\ UNCHANGED <<revision, changed, advances, comp, users, events,
                   queue, drain, closed, build, alive, failed, h>>

\* The allocation fails: the controller runs the resolution again.
AllocateIdentityFails ==
    /\ resolver.pc = "allocate"
    /\ Event
    /\ resolver' = [NoResolution EXCEPT !.again = TRUE]
    /\ UNCHANGED <<revision, changed, local, reqs, advances, trigger, table, comp, users, woken,
                   queueVars, ep, build, alive, failed, h>>

ResolverStep == ResolveIdentity \/ SetIdentity

-----------------------------------------------------------------------------
(* The deletion.                                                           *)

\* Delete stops the event queue. It is the last event that is considered; the bound
\* always leaves room for it while a caller is blocked on the queue.
DeleteStop ==
    /\ StopDrain
    /\ events < MaxEvents \/ \E c \in Callers : call[c].pc = "send"
    /\ events' = MaxEvents
    /\ UNCHANGED <<revision, changed, local, reqs, advances, trigger, table, comp, users, woken,
                   endpointVars>>

\* Then it cancels the context of the endpoint.
DeleteCancel ==
    /\ StopClose
    /\ alive' = FALSE
    /\ UNCHANGED <<computerVars, ep, build, failed, h, resolver>>

\* WaitToBeDrained: the goroutine of the queue has ended.
DrainedUnlessHandled == closed /\ queue = <<>>
Drained == closed /\ queue = <<>> /\ h.pc = "idle"

\* Nothing runs any more: leaveLocked releases the policies, their redirects and
\* the identity, and the endpoint is disconnected.
DeleteLeave ==
    /\ Drained /\ ~build
    /\ IsAlive(ep)
    /\ LocalIdentity(ep.id, NoId)
    /\ ep' = [setState(setState(ep, "disconnecting"), "disconnected") EXCEPT
                !.id = NoId, !.desired = NoPol, !.realized = NoPol, !.map = NoPol,
                !.redirects = @ \ (Redirects(ep.desired) \cup Redirects(ep.realized))]
    /\ users' = {}
    /\ UNCHANGED <<revision, changed, advances, comp, events, queueVars,
                   build, alive, failed, h, resolver>>

=============================================================================
