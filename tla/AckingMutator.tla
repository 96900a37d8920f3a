---------------------------- MODULE AckingMutator ----------------------------
(***************************************************************************)
(* Waiting for acknowledgements: the AckingResourceMutatorWrapper of       *)
(* pkg/envoy/xds/ack.go around the cache, and the wait groups and          *)
(* completions of pkg/completion/completion.go its callers wait with.      *)
(* Every caller in the agent passes the one local Envoy node, so the maps  *)
(* keyed by node have one entry.  m.version is the cache version the last  *)
(* mutation returned; every use of it directly follows a mutation under    *)
(* m.locker and is written version'.                                       *)
(***************************************************************************)
EXTENDS XDSCache, Sequences

CONSTANTS
    Groups,     \* wait groups
    MaxComps    \* bound: completions created over a behaviour

ASSUME CompsNatural == MaxComps \in Nat
ASSUME NilNoGroup == Nil \notin Groups

VARIABLES
    restoring,      \* m.restoring
    ackedVersion,   \* m.ackedVersions[node], NotSeen before the first request
    ackedNode,      \* m.ackedNodes[node]: "none", "chan", "nil"
    comp,           \* completions, with the pendingCompletion they own
    pendingComps,   \* domain of m.pendingCompletions
    group           \* wait groups: state, context, revert functions

mutVars == <<restoring, ackedVersion, ackedNode, comp, pendingComps, group>>

NotSeen == -1
CompIDs == 1..MaxComps
NoComp ==
    [status |-> "free", group |-> Nil, version |-> 0, name |-> Nil, rest |-> {}, node |-> FALSE]
NewGroup == [state |-> "open", ctx |-> "live", undo |-> <<>>]

\* An agent that has finished restoring its endpoints.
MutatorInit ==
    /\ restoring = FALSE
    /\ ackedVersion = NotSeen
    /\ ackedNode = "none"
    /\ comp = [c \in CompIDs |-> NoComp]
    /\ pendingComps = {}
    /\ group = [g \in Groups |-> NewGroup]

\* Completion.Err() # nil
Failed(c) == comp[c].status \in {"nack", "ctx"}
Completed(c) == comp[c].status \in {"ok", "nack", "ctx", "cancel"}
\* What a pass over m.pendingCompletions keeps: failed completions are dropped.
Live == {c \in pendingComps : ~Failed(c)}
Free == {c \in CompIDs : comp[c].status = "free"}
OfGroup(g) == {c \in CompIDs : comp[c].group = g}
NextComp == CHOOSE c \in Free : \A d \in Free : c <= d

\* AddCompletionWithCallback: n is the resource the caller changed; rest and node
\* are remainingNodesResources, its one entry and whether that is still there.
Pending(g, n, rest) ==
    [status |-> "wait", group |-> g, version |-> version', name |-> n, rest |-> rest,
     node |-> TRUE]

\* The wait group g is nil, or its owner has not called Wait yet.
MayAdd(g) == g # Nil => group[g].state = "open" /\ Free # {}

Waits(g) == g # Nil /\ ~restoring

\* addCurrentVersionCompletion skips a node that has acked the current version.
WaitsForCurrent(g) == Waits(g) /\ ackedVersion < version'

\* The revert function the caller keeps: the content the change replaced.
PushUndo(g, n) ==
    group' = IF g # Nil /\ version' # version
             THEN [group EXCEPT ![g].undo = <<[name |-> n, val |-> resources[n].val]>> \o @]
             ELSE group

\* Upsert
Upsert(g, n, v) ==
    /\ MayAdd(g)
    /\ TX(n, v)
    /\ IF Changes(n, v) /\ Waits(g)
       THEN /\ comp' = [comp EXCEPT ![NextComp] = Pending(g, n, {n})]
            /\ pendingComps' = pendingComps \cup {NextComp}
       ELSE IF ~Changes(n, v) /\ WaitsForCurrent(g)
       THEN /\ comp' = [comp EXCEPT ![NextComp] = Pending(g, Nil, {})]
            /\ pendingComps' = pendingComps \cup {NextComp}
       ELSE UNCHANGED <<comp, pendingComps>>
    /\ PushUndo(g, n)
    /\ UNCHANGED <<restoring, ackedVersion, ackedNode>>

\* The completions Delete(n) leaves: none that failed, none that names n.
Forget(n) ==
    [c \in CompIDs |->
        IF c \in Live
        THEN [comp[c] EXCEPT !.rest = @ \ {n}, !.name = IF @ = n THEN Nil ELSE @]
        ELSE comp[c]]

\* Delete
Delete(g, n) ==
    /\ MayAdd(g)
    /\ TX(n, NoValue)
    /\ IF WaitsForCurrent(g)
       THEN /\ comp' = [Forget(n) EXCEPT ![NextComp] = Pending(g, Nil, {})]
            /\ pendingComps' = Live \cup {NextComp}
       ELSE /\ comp' = Forget(n)
            /\ pendingComps' = Live
    /\ PushUndo(g, n)
    /\ UNCHANGED <<restoring, ackedVersion, ackedNode>>

\* Complete(err) for the completions in cs: the first call wins, and an error
\* cancels the wait group of the completion.
CompleteAll(cs, old, status) ==
    [c \in CompIDs |-> IF c \in cs /\ old[c].status = "wait"
                       THEN [old[c] EXCEPT !.status = status] ELSE old[c]]

CancelGroups(gs) ==
    [g \in Groups |-> IF g \in gs /\ group[g].ctx = "live"
                      THEN [group[g] EXCEPT !.ctx = "done"] ELSE group[g]]

\* CancelCompletions
CancelCompletions ==
    /\ pendingComps # {}
    /\ comp' = CompleteAll(pendingComps, comp, "cancel")
    /\ pendingComps' = {}
    /\ UNCHANGED <<restoring, ackedVersion, ackedNode, group>>

\* The completions an answer to version resp is for.
Reached(resp) == {c \in Live : comp[c].version <= resp /\ comp[c].node}

\* Mutant of Emptied: the names of the response are not looked at.
EmptiedAll(reached, names) == reached

\* Those whose last awaited name is in the response.
Emptied(reached, names) == {c \in reached : comp[c].rest \subseteq names}

\* Mutant of Finished: a NACK finishes whatever it reaches.
FinishedByNack(ack, nack, empty, reached) ==
    IF nack THEN reached ELSE {c \in empty : comp[c].version <= ack}

\* Mutant of Finished: the ACK of a completion's own version does not count.
FinishedLater(ack, nack, empty, reached) ==
    IF nack THEN empty ELSE {c \in empty : comp[c].version < ack}

\* What the answer completes: with no names left, a NACK at once, an ACK if it
\* is for the version of the completion or a later one.
Finished(ack, nack, empty, reached) ==
    IF nack THEN empty ELSE {c \in empty : comp[c].version <= ack}

\* HandleResourceVersionAck
HandleAck(ack, resp, nack, names) ==
    LET reached == Reached(resp)
        empty   == Emptied(reached, names)
        done    == Finished(ack, nack, empty, reached)
        trimmed == [c \in CompIDs |-> IF c \in reached
                        THEN [comp[c] EXCEPT !.rest = @ \ names, !.node = c \notin empty]
                        ELSE comp[c]]
    IN  /\ ackedVersion' = IF ackedVersion < ack THEN ack ELSE ackedVersion
        /\ ackedNode' = IF ack > 0 /\ ackedVersion < ack THEN "nil" ELSE ackedNode
        /\ comp' = CompleteAll(done, trimmed, IF nack THEN "nack" ELSE "ok")
        /\ pendingComps' = Live \ done
        /\ group' = IF nack THEN CancelGroups({comp[c].group : c \in done}) ELSE group
        /\ UNCHANGED restoring

\* MarkRestoreCompleted
RestoreCompleted ==
    /\ restoring
    /\ restoring' = FALSE
    /\ UNCHANGED <<cacheVars, ackedVersion, ackedNode, comp, pendingComps, group>>

-----------------------------------------------------------------------------
(* WaitGroup.Wait, called once per group.                                  *)

Wait(g) ==
    /\ group[g].state = "open" /\ OfGroup(g) # {}
    /\ group' = [group EXCEPT ![g].state = "waiting"]
    /\ UNCHANGED <<cacheVars, restoring, ackedVersion, ackedNode, comp, pendingComps>>

\* The deadline of the context the caller made the group with passes.
Deadline(g) ==
    /\ group[g].ctx = "live" /\ group[g].state = "waiting"
    /\ group' = [group EXCEPT ![g].ctx = "late"]
    /\ UNCHANGED <<cacheVars, restoring, ackedVersion, ackedNode, comp, pendingComps>>

\* The context is done: Wait completes what is left with the context's error ...
WaitComplete(g, c) ==
    /\ group[g].state = "waiting" /\ group[g].ctx # "live"
    /\ c \in OfGroup(g) /\ ~Completed(c)
    /\ comp' = CompleteAll({c}, comp, "ctx")
    /\ UNCHANGED <<cacheVars, restoring, ackedVersion, ackedNode, pendingComps, group>>

\* ... and CleanupAfterWait takes it out of the mutator's map.
WaitCleanup(g, c) ==
    /\ group[g].state = "waiting" /\ group[g].ctx # "live"
    /\ c \in OfGroup(g) \cap pendingComps /\ Completed(c)
    /\ pendingComps' = pendingComps \ {c}
    /\ UNCHANGED <<cacheVars, restoring, ackedVersion, ackedNode, comp, group>>

\* Mutant of WaitReturn: the first completion is enough.
WaitReturnFirst(g) ==
    /\ group[g].state = "waiting"
    /\ \E c \in OfGroup(g) : Completed(c)
    /\ group' = [group EXCEPT ![g].ctx = "done", ![g].state = "returned"]
    /\ UNCHANGED <<cacheVars, restoring, ackedVersion, ackedNode, comp, pendingComps>>

\* Wait returns; a caller that gets an error reverts its changes.  When the deadline
\* and the last completion are both there, select takes either, and the deadline's
\* error overrides what the completions say.
WaitReturn(g) ==
    /\ group[g].state = "waiting"
    /\ \A c \in OfGroup(g) : Completed(c)
    /\ group[g].ctx # "live" => OfGroup(g) \cap pendingComps = {}
    /\ \E failed \in BOOLEAN :
          /\ (\E c \in OfGroup(g) : Failed(c)) => failed
          /\ failed => group[g].ctx = "late" \/ \E c \in OfGroup(g) : Failed(c)
          /\ group' = [group EXCEPT ![g].ctx = "done",
                                    ![g].state = IF failed THEN "revert" ELSE "returned"]
    /\ UNCHANGED <<cacheVars, restoring, ackedVersion, ackedNode, comp, pendingComps>>

\* The revert functions, newest first: TX with the replaced content.
Revert(g) ==
    /\ group[g].state = "revert"
    /\ IF group[g].undo = <<>>
       THEN /\ group' = [group EXCEPT ![g].state = "returned"]
            /\ UNCHANGED cacheVars
       ELSE /\ TX(Head(group[g].undo).name, Head(group[g].undo).val)
            /\ group' = [group EXCEPT ![g].undo = Tail(@)]
    /\ UNCHANGED <<restoring, ackedVersion, ackedNode, comp, pendingComps>>

GroupStep(g) ==
    \/ Wait(g) \/ WaitReturn(g) \/ Revert(g)
    \/ \E c \in CompIDs : WaitComplete(g, c) \/ WaitCleanup(g, c)
=============================================================================
