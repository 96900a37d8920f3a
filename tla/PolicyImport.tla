---------------------------- MODULE PolicyImport ----------------------------
(***************************************************************************)
(* The way of a policy change to the datapath: the importer                *)
(* (pkg/policy/cell/policy_importer.go) and the full recalculation         *)
(* (pkg/policy/trigger.go) change the repository, the computer computes    *)
(* the policies of the identities and the endpoint is regenerated, while   *)
(* its labels change and it is deleted.                                    *)
(*                                                                         *)
(* The periodic regeneration of all endpoints is left out: what is shown   *)
(* does not need it.                                                       *)
(***************************************************************************)
EXTENDS Endpoint

VARIABLES
    imp,        \* processUpdates: the batch of updates that is applied
    full        \* TriggerPolicyUpdates: [pc, rev, found]

vars == <<computerVars, queueVars, endpointVars, imp, full>>

NoImport == [pc |-> "idle", start |-> 0, end |-> 0, own |-> 0, ids |-> {}, found |-> {}]
NoFull   == [pc |-> "idle", rev |-> 0, found |-> {}]

\* The endpoint is up to date, or it is new, which counts as an event.
Init ==
    /\ \/ ComputerInit(FirstLabel) /\ EndpointInit(FirstLabel) /\ events = 0
       \/ ComputerInit(NoId) /\ EndpointInit(NoId) /\ events = 1
    /\ QueueInit
    /\ imp = NoImport
    /\ full = NoFull

-----------------------------------------------------------------------------
(* The importer.                                                           *)

\* processUpdates reads the revision it starts from.
ImportStart ==
    /\ imp.pc = "idle" /\ revision < MaxRev /\ events < MaxEvents
    /\ imp' = [NoImport EXCEPT !.pc = "replace", !.start = revision, !.end = revision]
    /\ UNCHANGED <<computerVars, queueVars, endpointVars, full>>

\* One update of the batch. The rules of touched change; the subjects that
\* ReplaceByResource reports are local identities.
ImportReplace(touched) ==
    /\ imp.pc = "replace"
    /\ Replace(touched)
    /\ imp' = [imp EXCEPT !.end = revision + 1, !.own = @ + 1, !.ids = @ \cup (touched \cap local)]
    /\ UNCHANGED <<local, reqs, advances, trigger, table, comp, users, woken,
                   queueVars, endpointVars, full>>

\* The range of revisions that the import produced is advanced over, unless
\* another path changed the repository meanwhile.
AdvanceFromStart == imp.start
AdvanceFrom == IF imp.end - imp.start # imp.own THEN imp.end ELSE imp.start

\* The batch is applied. The computer is told, which looks the identities up before
\* it takes its lock.
ImportLookup ==
    /\ imp.pc = "replace" /\ imp.own > 0
    /\ imp' = [imp EXCEPT !.pc = "notify", !.found = imp.ids \cap local]
    /\ UNCHANGED <<computerVars, queueVars, endpointVars, full>>

\* Then the endpoint manager calls UpdatePolicy of every endpoint.
ImportNotify ==
    /\ imp.pc = "notify"
    /\ ComputerUpdatePolicy(imp.ids, imp.found, AdvanceFrom, imp.end)
    /\ call' = [call EXCEPT !["import"] = [pc |-> "set", want |-> imp.end]]
    /\ imp' = [imp EXCEPT !.pc = "wait"]
    /\ UNCHANGED <<revision, changed, local, table, comp, users, woken, events,
                   queue, drain, closed, endpointVars, full>>

ImportUpdate == UpdatePolicy(imp.ids, imp.end) /\ UNCHANGED <<imp, full>>

\* All endpoints have returned.
ImportDone ==
    /\ imp.pc = "wait" /\ call["import"] = NoCall
    /\ imp' = NoImport
    /\ UNCHANGED <<computerVars, queueVars, endpointVars, full>>

-----------------------------------------------------------------------------
(* TriggerPolicyUpdates: a resource that policies are computed from changed. *)

BumpRevision ==
    /\ full.pc = "idle"
    /\ Replace(Ids)
    /\ full' = [pc |-> "lookup", rev |-> revision + 1, found |-> {}]
    /\ UNCHANGED <<local, reqs, advances, trigger, table, comp, users, woken,
                   queueVars, endpointVars, imp>>

\* All identities are computed again, and all endpoints regenerated.
LookupAll ==
    /\ full.pc = "lookup"
    /\ full' = [full EXCEPT !.pc = "recompute", !.found = local]
    /\ UNCHANGED <<computerVars, queueVars, endpointVars, imp>>

RecomputeAll ==
    /\ full.pc = "recompute" /\ call["all"] = NoCall
    /\ RecomputeIdentityPolicyForAllIdentities(full.found, full.rev)
    /\ call' = [call EXCEPT !["all"] = [pc |-> "set", want |-> full.rev]]
    /\ full' = NoFull
    /\ UNCHANGED <<revision, changed, local, advances, table, comp, users, woken, events,
                   queue, drain, closed, endpointVars, imp>>

-----------------------------------------------------------------------------

Importing == ImportLookup \/ ImportNotify \/ ImportUpdate \/ ImportDone
Recalculating == LookupAll \/ RecomputeAll
Computing == ComputerStep /\ UNCHANGED <<queueVars, endpointVars, imp, full>>
Regenerating == RegenerationStep /\ UNCHANGED <<imp, full>>
Resolving == ResolverStep /\ UNCHANGED <<imp, full>>
Calling(c) == (RegenerateIfAlive(c) \/ EnqueueEvent(c)) /\ UNCHANGED <<imp, full>>
Waking == RegenerateSuperseded /\ UNCHANGED <<imp, full>>
Recovering == RegenerationFailureHandler /\ UNCHANGED <<imp, full>>
Deleting == (DeleteCancel \/ DeleteLeave) /\ UNCHANGED <<imp, full>>

\* What the environment may do at any time.
Environment ==
    \/ ImportStart
    \/ \E touched \in SUBSET Ids : ImportReplace(touched)
    \/ BumpRevision
    \/ (PrepareBuildFails \/ BuildFails \/ SynchronizeDirectoriesFails) /\ UNCHANGED <<imp, full>>
    \/ AllocateIdentityFails /\ UNCHANGED <<imp, full>>
    \/ \E i \in Ids : ModifyIdentityLabels(i) /\ UNCHANGED <<imp, full>>
    \/ UpdateAnnotations /\ UNCHANGED <<imp, full>>
    \/ DeleteStop /\ UNCHANGED <<imp, full>>

Next ==
    \/ Importing
    \/ Recalculating
    \/ Computing
    \/ Regenerating
    \/ Resolving
    \/ \E c \in Callers : Calling(c)
    \/ Waking
    \/ Recovering
    \/ Deleting
    \/ Environment

Spec == Init /\ [][Next]_vars

\* Every goroutine that can run is run, and every wait that the code bounds ends.
Fairness ==
    /\ WF_vars(Importing)
    /\ WF_vars(Recalculating)
    /\ WF_vars(Computing)
    /\ WF_vars(Regenerating)
    /\ WF_vars(Resolving)
    /\ \A c \in Callers : WF_vars(Calling(c))
    /\ WF_vars(Waking)
    /\ WF_vars(Recovering)
    /\ WF_vars(Deleting)

FairSpec == Spec /\ Fairness

-----------------------------------------------------------------------------
(* Properties.                                                             *)

Pols == (Ids \X Revisions) \cup {NoPol}
Marks == Ids \X (0..MaxRev)

\* The variables have their types, and the bounds hold.
TypeOK ==
    /\ revision \in Revisions /\ events \in 0..MaxEvents
    /\ changed \in [Ids -> SUBSET Revisions] /\ local \subseteq Ids
    /\ reqs \in [Ids -> Seq(0..MaxRev)] /\ trigger \in BOOLEAN /\ woken \in BOOLEAN
    /\ advances \in Seq([ids : SUBSET Ids, from : Revisions, to : Revisions])
    /\ table \in [Ids -> [rev : 0..MaxRev, currentAt : 0..MaxRev]]
    /\ comp.pc \in {"idle", "read", "compute", "finish"}
    /\ users \subseteq Pols \ {NoPol}
    /\ call \in [Callers -> [pc : {"idle", "set", "enqueue", "send", "wait"}, want : 0..MaxRev]]
    /\ Len(queue) <= Capacity
    /\ ep.state \in States /\ ep.id \in Ids \cup {NoId} /\ ep.label \in Ids
    /\ ep.rev \in 0..MaxRev /\ ep.skipped \in 0..MaxRev /\ ep.redirects \subseteq Marks
    /\ {ep.desired, ep.realized, ep.map} \subseteq Pols
    /\ h.pc \in {"idle", "first", "permit", "start", "read", "fetch", "distill", "set", "build",
                 "realize"}
    /\ build \in BOOLEAN /\ alive \in BOOLEAN /\ failed \in BOOLEAN
    /\ resolver.pc \in {"idle", "allocate"}

\* A computed policy is right at the revision it is said to be current at: no
\* change of its identity's rules lies between the revision it was computed at and
\* that one (Result.CurrentAtRevision).
CurrentAtRevision ==
    \A i \in local : table[i] # NoResult =>
        \A c \in changed[i] : ~ (table[i].rev < c /\ c <= table[i].currentAt)

\* However imports, full recalculations and failed computations overlap, that holds
\* as long as no identity is given up and taken again, which needs the labels to
\* change twice (applyAdvances, and the range that processUpdates passes to it).
CurrentAtHonest == ep.idRev < 2 => CurrentAtRevision

\* No request to regenerate is lost: an endpoint that waits to be regenerated has
\* an event that has yet to start, and one that waits for its identity has a
\* resolution to come; otherwise every later request would be buffered for ever
\* (setRegenerateStateLocked, identityLabelsChanged).
RequestPending ==
    /\ ep.state = "waiting-to-regenerate" /\ ~drain =>
          \/ queue # <<>>
          \/ \E c \in Callers : call[c].pc \in {"enqueue", "send"}
          \/ h.pc \in {"first", "permit", "start"} \/ h.first
    /\ ep.state = "waiting-for-identity" /\ alive =>
          resolver.again \/ (resolver.pc = "allocate" /\ resolver.idRev = ep.idRev)

\* An endpoint that uses a superseded policy is regenerated: that regeneration is
\* running, requested, or about to be (supersede, insertUser). Otherwise the
\* endpoint would keep a policy nobody updates.
SupersededReplaced ==
    IsAlive(ep) /\ ~drain /\ ep.realized # NoPol /\ ep.realized \notin Live =>
        \/ woken \/ failed
        \/ ep.state # "ready" \/ h.pc # "idle"
        \/ \E c \in Callers : call[c].pc # "idle"

\* A deleted endpoint has nothing left to run: its queue is empty, no event is
\* handled and no caller is blocked on the queue (Endpoint.Stop, WaitToBeDrained).
NothingAfterDelete ==
    ep.state = "disconnected" =>
        /\ queue = <<>> /\ h.pc = "idle"
        /\ \A c \in Callers : call[c].pc \notin {"send", "wait"}

\* Once nothing changes any more, a live endpoint is ready with the identity of its
\* labels, its policy map holds the policy that it realized for that identity, and
\* the proxy has the redirects of that policy. As long as no identity is given up
\* and taken again (see CurrentAtHonest), that policy is the one of the revision of
\* the repository. This needs no periodic regeneration.
Settled ==
    /\ ep.state = "ready" /\ ep.id = ep.label
    /\ ep.realized = ep.map /\ ep.realized[1] = ep.id
    /\ ep.idRev < 2 => Content(ep.id, ep.realized[2]) = Content(ep.id, revision)
    /\ Redirects(ep.map) \subseteq ep.redirects

Settles == <>[](drain \/ Settled)

\* An import that told the computer returns, although it waits for regenerations
\* that may fail or be cancelled; a deletion that stopped the queue ends, although
\* callers may be blocked on it.
Returns ==
    /\ imp.pc = "wait" ~> imp.pc = "idle"
    /\ drain ~> ep.state = "disconnected"

\* The revision that an endpoint claims to have realized: the policy it enforces
\* is that of its identity at that revision (UpdatePolicy, setPolicyRevision).
RevisionRealized ==
    IsAlive(ep) /\ ep.realized # NoPol =>
        \A c \in changed[ep.realized[1]] : ~ (ep.realized[2] < c /\ c <= ep.rev)

\* The proxy has the redirects of the policy that the policy map enforces
\* (finalizeEndpointRegeneration, removeOldRedirects).
RedirectsServed == Redirects(ep.map) \subseteq ep.redirects

=============================================================================
