--------------------------- MODULE PolicyComputer ---------------------------
(***************************************************************************)
(* From a policy change to the policy of an identity: the policy           *)
(* repository (pkg/policy/repository.go), the identity policy computer     *)
(* with its table of results (pkg/policy/compute/compute.go) and the users *)
(* of a computed policy (pkg/policy/l4.go).                                *)
(*                                                                         *)
(* The content of a policy is told apart by the revisions at which the     *)
(* rules of its identity changed: a policy computed for id at revision r   *)
(* is the pair <<id, r>>, and Content(id, r) says which change it shows.   *)
(* The table is only written by the loop and by the removal of an          *)
(* identity, so the statedb revision that guards a write is abstracted to  *)
(* whether the row that was read is still there.                           *)
(***************************************************************************)
EXTENDS Integers, SequencesExt, FiniteSetsExt

CONSTANTS
    Ids,        \* numeric identities
    NoId,       \* InvalidIdentity
    MaxRev,     \* bound on the revision of the repository
    MaxEvents   \* bound on policy changes, label changes, failures, deletions

ASSUME RevisionsExist == MaxRev \in Nat \ {0}
ASSUME NoIdInvalid == NoId \notin Ids
ASSUME EventsNatural == MaxEvents \in Nat

VARIABLES
    revision,   \* Repository.revision
    changed,    \* per identity, the revisions at which its rules changed
    local,      \* the identities of local endpoints (identity manager)
    reqs,       \* pending computeRequests: per identity their toRevs, in order
    advances,   \* pending advanceRequests
    trigger,    \* the wake-up channel of the loop, of capacity one
    table,      \* the statedb table: per identity a Result or NoResult
    comp,       \* processRequests: its batch and results
    users,      \* L4Policy.users: the policies the endpoint uses
    woken,      \* a goroutine that calls RegenerateIfAlive was started
    events      \* how many of those have happened

computerVars == <<revision, changed, local, reqs, advances, trigger, table,
                  comp, users, woken, events>>

Revisions == 1..MaxRev
NoResult  == [rev |-> 0, currentAt |-> 0]
NoReqs    == [i \in Ids |-> <<>>]
Idle      == [pc |-> "idle", batch |-> NoReqs, adv |-> <<>>,
              old |-> [i \in Ids |-> 0], res |-> NoReqs]

\* The last change of id's rules that a policy computed at revision r shows.
Content(id, r) == Max({0} \cup {c \in changed[id] : c <= r})

\* Something that happens to the agent, within the bound.
Event == events < MaxEvents /\ events' = events + 1

\* The identity id is in use and computed, or nothing is (NoId).
ComputerInit(id) ==
    /\ revision = 1
    /\ changed = [i \in Ids |-> {}]
    /\ local = {id} \ {NoId}
    /\ reqs = NoReqs
    /\ advances = <<>>
    /\ trigger = FALSE
    /\ table = [i \in Ids |-> IF i = id THEN [rev |-> 1, currentAt |-> 1] ELSE NoResult]
    /\ comp = Idle
    /\ users = {<<i, 1>> : i \in local}
    /\ woken = FALSE

-----------------------------------------------------------------------------

\* ReplaceByResource: the rules that select ids change, under the repository
\* lock, with the revision. Also BumpRevision, for a change of another resource
\* that policies are computed from.
Replace(ids) ==
    /\ revision < MaxRev
    /\ Event
    /\ revision' = revision + 1
    /\ changed' = [i \in Ids |-> IF i \in ids THEN changed[i] \cup {revision + 1}
                                 ELSE changed[i]]

\* enqueueLocked: the first pending request of the identity is reused.
EnqueuedOne(s, toRev) == IF s = <<>> THEN <<toRev>> ELSE [s EXCEPT ![1] = Max({@, toRev})]
Enqueued(q, ids, toRev) == [i \in Ids |-> IF i \in ids THEN EnqueuedOne(q[i], toRev) ELSE q[i]]

RecomputeIdentityPolicy(id, toRev) ==
    /\ reqs' = Enqueued(reqs, {id}, toRev)
    /\ trigger' = TRUE

\* found are the local identities, which the identity manager returned before the
\* lock of the requests was taken: one of them may be gone by now.
RecomputeIdentityPolicyForAllIdentities(found, toRev) ==
    /\ reqs' = Enqueued(reqs, found, toRev)
    /\ trigger' = TRUE

\* UpdatePolicy: the importer's request to compute ids, those of them that were
\* found to be local, and to advance the others.
ComputerUpdatePolicy(ids, found, fromRev, toRev) ==
    /\ reqs' = Enqueued(reqs, found, toRev)
    /\ advances' = Append(advances, [ids |-> ids, from |-> fromRev, to |-> toRev])
    /\ trigger' = TRUE

\* supersede: the users of a replaced policy are regenerated.
Supersede(pols) == woken' = (woken \/ pols \cap users # {})

\* The policies that are not superseded: those of the table, and those that the
\* loop has replaced and will supersede next.
Live == {<<i, table[i].rev>> : i \in {j \in Ids : table[j] # NoResult}}
            \cup {<<i, comp.old[i]>> : i \in {j \in Ids : comp.pc = "finish" /\ comp.old[j] > 0}}

\* The identity of the endpoint changes from old to new (NoId for none):
\* LocalEndpointIdentityRemoved, then LocalEndpointIdentityAdded, under the lock
\* of the identity manager.
LocalIdentity(old, new) ==
    LET kept == IF old = NoId THEN reqs ELSE [reqs EXCEPT ![old] = <<>>]
    IN  /\ local' = (local \ {old}) \cup ({new} \ {NoId})
        /\ reqs' = IF new = NoId THEN kept ELSE Enqueued(kept, {new}, 0)
        /\ trigger' = (trigger \/ new # NoId)
        /\ table' = IF old = NoId THEN table ELSE [table EXCEPT ![old] = NoResult]
        /\ Supersede({<<i, table[i].rev>> : i \in {j \in {old} \ {NoId} : table[j] # NoResult}})

-----------------------------------------------------------------------------
(* processRequests, the loop of the computer.                              *)

\* The revision the policy of id is current at after the given updates.
revisionAfterAdvances(advs, id, current) ==
    FoldLeft(LAMBDA cur, adv : IF cur < adv.from \/ cur >= adv.to \/ id \in adv.ids
                               THEN cur ELSE adv.to,
             current, advs)

applyAdvances(tbl, advs) ==
    [i \in Ids |-> IF tbl[i] = NoResult THEN NoResult
                   ELSE [tbl[i] EXCEPT !.currentAt = revisionAfterAdvances(advs, i, @)]]

\* The loop takes everything that is pending.
TakeBatch ==
    /\ comp.pc = "idle" /\ trigger
    /\ trigger' = FALSE
    /\ comp' = IF reqs = NoReqs /\ advances = <<>> THEN comp
               ELSE [Idle EXCEPT !.pc = "read", !.batch = reqs, !.adv = advances]
    /\ reqs' = NoReqs /\ advances' = <<>>
    /\ UNCHANGED <<revision, changed, local, table, users, woken, events>>

\* Requests that a computation has already served are dropped. Without work left
\* the advances are applied at once.
CheckBatch ==
    LET work == [i \in Ids |-> SelectSeq(comp.batch[i], LAMBDA toRev :
                                  table[i] = NoResult \/ table[i].rev < toRev)]
    IN  /\ comp.pc = "read"
        /\ IF work = NoReqs
           THEN /\ table' = applyAdvances(table, comp.adv)
                /\ comp' = Idle
           ELSE /\ comp' = [comp EXCEPT !.pc = "compute", !.batch = work,
                                        !.old = [i \in Ids |-> IF work[i] = <<>> THEN 0
                                                               ELSE table[i].rev],
                                        !.res = [i \in Ids |-> [k \in DOMAIN work[i] |-> 0]]]
                /\ UNCHANGED table
        /\ UNCHANGED <<revision, changed, local, reqs, advances, trigger, users, woken, events>>

\* One of the goroutines that compute a policy, one for each request: it reads the
\* repository once. A failed computation leaves -1.
ComputeSelectorPolicy(id) ==
    /\ comp.pc = "compute"
    /\ \E k \in DOMAIN comp.res[id] :
          /\ comp.res[id][k] = 0
          /\ \/ /\ comp' = [comp EXCEPT !.res[id][k] = revision]
                /\ UNCHANGED events
             \/ /\ Event
                /\ comp' = [comp EXCEPT !.res[id][k] = -1]
    /\ UNCHANGED <<revision, changed, local, reqs, advances, trigger, table, users, woken>>

\* CompareAndSwap, for the results of one identity in turn: a row that was found
\* when the requests were checked must still be there and is replaced once; where
\* none was found each result is inserted, over the one before.
Computed(id) == SelectSeq(comp.res[id], LAMBDA r : r > 0)
Swapped(id)  == Computed(id) # <<>> /\ (comp.old[id] = 0 \/ table[id] # NoResult)
Committed(id) ==
    LET rev == IF comp.old[id] = 0 THEN Last(Computed(id)) ELSE Head(Computed(id))
    IN  [rev |-> rev, currentAt |-> rev]

\* The results are written in one transaction, then the advances.
CommitBatch ==
    /\ comp.pc = "compute"
    /\ \A i \in Ids : 0 \notin Range(comp.res[i])
    /\ table' = applyAdvances([i \in Ids |-> IF Swapped(i) THEN Committed(i) ELSE table[i]],
                              comp.adv)
    /\ comp' = [comp EXCEPT !.pc = "finish", !.adv = <<>>,
                            !.old = [i \in Ids |-> IF Swapped(i) THEN @[i] ELSE 0]]
    /\ UNCHANGED <<revision, changed, local, reqs, advances, trigger, users, woken, events>>

\* Failed computations are requested again, each beside what is pending, and
\* replaced policies superseded.
FinishBatch ==
    LET Failed(i) == SelectSeq([k \in DOMAIN comp.res[i] |->
                                  IF comp.res[i][k] = -1 THEN comp.batch[i][k] ELSE -1],
                               LAMBDA toRev : toRev # -1)
    IN  /\ comp.pc = "finish"
        /\ reqs' = [i \in Ids |-> reqs[i] \o Failed(i)]
        /\ trigger' = (trigger \/ \E i \in Ids : Failed(i) # <<>>)
        /\ Supersede({<<i, comp.old[i]>> : i \in {j \in Ids : comp.old[j] > 0}})
        /\ comp' = Idle
        /\ UNCHANGED <<revision, changed, local, advances, table, users, events>>

ComputerStep ==
    \/ TakeBatch
    \/ CheckBatch
    \/ \E id \in Ids : ComputeSelectorPolicy(id)
    \/ CommitBatch
    \/ FinishBatch

=============================================================================
