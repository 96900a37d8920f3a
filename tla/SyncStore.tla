----------------------------- MODULE SyncStore ------------------------------
(***************************************************************************)
(* The synchronisation of a local state to the kvstore,                    *)
(* pkg/kvstore/store/syncstore.go, on top of the etcd client's Update and  *)
(* Delete (pkg/kvstore/etcd.go) and of its lease manager.  Callers change  *)
(* the state and queue the key; workers write what the state holds when    *)
(* they handle the key.  A "synced" marker is written once no key that was *)
(* upserted before Synced is pending.  When a lease expires, its keys are  *)
(* queued again.                                                           *)
(*                                                                         *)
(* The workqueue of client-go is external: an item is queued at most once, *)
(* is not handed to two workers, and is queued again at the end of its     *)
(* processing when it was added meanwhile.                                 *)
(***************************************************************************)
EXTENDS LeaseManager, Sequences

CONSTANTS Names,      \* the keys of the store
          Values,     \* their values
          Callers,    \* the goroutines that call the store
          MaxOps,     \* how many calls they make
          MaxFaults   \* how many requests fail and leases expire

Marker == "marker"    \* the synced key
NoValue == "none"
NoItem == [canary |-> FALSE, key |-> Marker]
Canary(skip, n) == [canary |-> TRUE, skip |-> skip, id |-> n]
Item(k) == [canary |-> FALSE, key |-> k]
\* The canary of Synced is the first one; the others are made for a lease of
\* the marker that has expired.
Items == {Item(k) : k \in Names} \cup {Canary(n # 0, n) : n \in 0..MaxLeases}

ASSUME PathsAreNames == Paths = Names \cup {Marker} /\ Marker \notin Names

VARIABLES
    state,        \* wss.state, NoValue when a key is not in it
    synced,       \* wss.synced
    pendingSync,  \* wss.pendingSync
    queue, dirty, processing,  \* external: the workqueue
    delayed,      \* external: items added with a rate limit
    canaries,     \* number of canaries made, which are distinct items
    caller,       \* the call each caller, or waitForExpiration, is in
    item, val,    \* per worker: the item and the value it handles
    store,        \* external: etcd, the value and the lease of each key
    callbacks,    \* how often the synced callbacks ran
    ops, faults,  \* bounds
    due           \* history: the upserts issued before Synced that have not
                  \* been written, nor replaced by a later call

storeVars == <<state, synced, pendingSync>>
queueVars == <<queue, dirty, processing, delayed, canaries>>
workVars == <<item, val>>
boundVars == <<ops, faults>>
vars == <<elmVars, sessionVars, callVars, storeVars, queueVars, caller,
          workVars, store, callbacks, boundVars, due>>

Idle == [op |-> "idle", key |-> Marker]
Absent == [val |-> NoValue, lease |-> NoLease]

Init ==
    /\ LeaseInit
    /\ state = [k \in Names |-> NoValue] /\ synced = FALSE
    /\ pendingSync = {}
    /\ queue = <<>> /\ dirty = {} /\ processing = {} /\ delayed = {}
    /\ canaries = 0
    /\ caller = [c \in Callers \cup LeaseIDs |-> Idle]
    /\ item = [t \in Threads |-> NoItem]
    /\ val = [t \in Threads |-> NoValue]
    /\ store = [k \in Paths |-> Absent]
    /\ callbacks = 0 /\ ops = 0 /\ faults = 0
    /\ due = {}

-----------------------------------------------------------------------------
(* The workqueue *)

Add(i) ==
    /\ dirty' = dirty \cup {i}
    /\ queue' = IF i \in dirty \cup processing THEN queue ELSE Append(queue, i)

\* The end of the processing of item i.
Done(i) ==
    /\ processing' = processing \ {i}
    /\ queue' = IF i \in dirty THEN Append(queue, i) ELSE queue
    /\ UNCHANGED <<dirty, canaries>>

\* The rate limiter's delay is over.
DelayedAdd(i) ==
    /\ i \in delayed
    /\ delayed' = delayed \ {i}
    /\ Add(i)
    /\ UNCHANGED <<elmVars, sessionVars, callVars, storeVars, processing,
                   canaries, caller, workVars, store, callbacks, boundVars,
                   due>>

-----------------------------------------------------------------------------
(* UpsertKey, DeleteKey and Synced *)

Goto(c, op, k) == caller' = [caller EXCEPT ![c] = [op |-> op, key |-> k]]

UpsertKey(c, k, v) ==
    /\ caller[c] = Idle /\ ops < MaxOps
    /\ ops' = ops + 1
    /\ state' = [state EXCEPT ![k] = v]
    /\ Goto(c, IF state[k] = v THEN "idle" ELSE "load",
               IF state[k] = v THEN Marker ELSE k)
    /\ due' = IF state[k] = v THEN due ELSE due \ {k}
    /\ UNCHANGED <<elmVars, sessionVars, callVars, synced, pendingSync,
                   queueVars, workVars, store, callbacks, faults>>

\* if !wss.synced.Load()
UpsertLoad(c) ==
    /\ caller[c].op = "load"
    /\ Goto(c, IF synced THEN "add" ELSE "pend", caller[c].key)
    /\ UNCHANGED <<elmVars, sessionVars, callVars, storeVars, queueVars,
                   workVars, store, callbacks, boundVars, due>>

UpsertPend(c) ==
    /\ caller[c].op = "pend"
    /\ pendingSync' = pendingSync \cup {caller[c].key}
    /\ Goto(c, "add", caller[c].key)
    /\ UNCHANGED <<elmVars, sessionVars, callVars, state, synced, queueVars,
                   workVars, store, callbacks, boundVars, due>>

AddKey(c) ==
    /\ caller[c].op = "add"
    /\ Add(Item(caller[c].key))
    /\ caller' = [caller EXCEPT ![c] = Idle]
    /\ UNCHANGED <<elmVars, sessionVars, callVars, storeVars, processing,
                   delayed, canaries, workVars, store, callbacks, boundVars,
                   due>>

DeleteKey(c, k) ==
    /\ caller[c] = Idle /\ ops < MaxOps /\ state[k] # NoValue
    /\ ops' = ops + 1
    /\ state' = [state EXCEPT ![k] = NoValue]
    /\ Goto(c, "add", k)
    /\ due' = due \ {k}
    /\ UNCHANGED <<elmVars, sessionVars, callVars, synced, pendingSync,
                   queueVars, workVars, store, callbacks, faults>>

\* The keys whose upsert has returned and is not in the kvstore yet.
Unwritten == {k \in Names : /\ state[k] \notin {NoValue, store[k].val}
                            /\ \A c \in Callers : caller[c].key # k}

\* Only the first invocation has an effect.
Synced(c) ==
    /\ caller[c] = Idle /\ ~synced
    /\ synced' = TRUE
    /\ Goto(c, "canary", Marker)
    /\ due' = Unwritten
    /\ UNCHANGED <<elmVars, sessionVars, callVars, state, pendingSync,
                   queueVars, workVars, store, callbacks, boundVars>>

AddCanary(skip) ==
    /\ canaries' = canaries + 1
    /\ Add(Canary(skip, canaries))
    /\ UNCHANGED <<processing, delayed>>

SyncedAdd(c) ==
    /\ caller[c].op = "canary"
    /\ AddCanary(FALSE)
    /\ caller' = [caller EXCEPT ![c] = Idle]
    /\ UNCHANGED <<elmVars, sessionVars, callVars, storeVars, workVars, store,
                   callbacks, boundVars, due>>
-----------------------------------------------------------------------------
(* processNextItem and the handlers *)

\* A request to etcd fails, or its lease is gone.
Fault == faults < MaxFaults /\ faults' = faults + 1

Get(t) ==
    /\ pc[t] = "idle" /\ queue # <<>>
    /\ LET i == Head(queue) IN
       /\ item' = [item EXCEPT ![t] = i]
       /\ path' = [path EXCEPT ![t] = IF i.canary THEN Marker ELSE i.key]
       /\ queue' = Tail(queue) /\ dirty' = dirty \ {i}
       /\ processing' = processing \cup {i}
    /\ pc' = [pc EXCEPT ![t] = "got"]
    /\ UNCHANGED <<elmVars, sessionVars, lease, storeVars, delayed, canaries,
                   caller, val, store, callbacks, boundVars, due>>

\* handle reads the state and calls Update, which asks for a lease, or Delete.
HandleKey(t) ==
    /\ pc[t] = "got" /\ ~item[t].canary
    /\ val' = [val EXCEPT ![t] = state[item[t].key]]
    /\ pc' = [pc EXCEPT ![t] = IF val'[t] = NoValue THEN "delete" ELSE "lookup"]
    /\ UNCHANGED <<elmVars, sessionVars, path, lease, storeVars, queueVars,
                   caller, item, store, callbacks, boundVars, due>>

\* handleSync fails while keys are pending.
HandleSync(t) ==
    /\ pc[t] = "got" /\ item[t].canary
    /\ val' = [val EXCEPT ![t] = Marker]
    /\ pc' = [pc EXCEPT ![t] = IF pendingSync = {} THEN "lookup" ELSE "failed"]
    /\ UNCHANGED <<elmVars, sessionVars, path, lease, storeVars, queueVars,
                   caller, item, store, callbacks, boundVars, due>>

\* The steps of the lease manager leave the store alone.
LeaseStep(t) ==
    /\ (GetSession(t) /\ UNCHANGED sessionVars) \/ NewSession(t)
    /\ UNCHANGED <<storeVars, queueVars, caller, workVars, store, callbacks,
                   boundVars, due>>

LeaseFails(t) ==
    /\ NewSessionFails(t) \/ WaitCancelled(t)
    /\ Fault
    /\ UNCHANGED <<sessionVars, storeVars, queueVars, caller, workVars, store,
                   callbacks, ops, due>>

\* client.Put: etcd has the lease, and its answer may be lost.
Put(t) ==
    /\ pc[t] = "leased" /\ lease[t] \in alive
    /\ store' = [store EXCEPT ![path[t]] = [val |-> val[t], lease |-> lease[t]]]
    /\ due' = {k \in due : k # path[t] \/ val[t] # state[k]}
    /\ \/ /\ pc' = [pc EXCEPT ![t] = IF item[t].canary THEN "call" ELSE "ok"]
          /\ UNCHANGED faults
       \/ Fault /\ pc' = [pc EXCEPT ![t] = "failed"]
    /\ UNCHANGED <<elmVars, sessionVars, path, lease, storeVars, queueVars,
                   caller, workVars, callbacks, ops>>

\* etcd refuses the put as the lease has expired.
PutExpired(t) ==
    /\ pc[t] = "leased" /\ lease[t] \notin alive
    /\ CancelIfExpired(lease[t])
    /\ pc' = [pc EXCEPT ![t] = "failed"]
    /\ UNCHANGED <<elmVars, granted, alive, expiring, path, lease, storeVars,
                   queueVars, caller, workVars, store, callbacks, boundVars,
                   due>>

\* The put or the delete does not reach etcd.
RequestFails(t) ==
    /\ pc[t] \in {"leased", "delete"} /\ Fault
    /\ pc' = [pc EXCEPT ![t] = "failed"]
    /\ UNCHANGED <<elmVars, sessionVars, path, lease, storeVars, queueVars,
                   caller, workVars, store, callbacks, ops, due>>

\* client.Delete; the key is detached from its lease in a step of its own.
Delete(t) ==
    /\ pc[t] = "delete"
    /\ store' = [store EXCEPT ![path[t]] = Absent]
    /\ \/ pc' = [pc EXCEPT ![t] = "release"] /\ UNCHANGED faults
       \/ Fault /\ pc' = [pc EXCEPT ![t] = "failed"]
    /\ UNCHANGED <<elmVars, sessionVars, path, lease, storeVars, queueVars,
                   caller, workVars, callbacks, ops, due>>

Release(t) ==
    /\ pc[t] = "release"
    /\ ReleaseKeys({path[t]})
    /\ pc' = [pc EXCEPT ![t] = "ok"]
    /\ UNCHANGED <<sessionVars, path, lease, storeVars, queueVars, caller,
                   workVars, store, callbacks, boundVars, due>>

\* The marker is written: run the callbacks unless the canary skips them.
Callbacks(t) ==
    /\ pc[t] = "call"
    /\ callbacks' = IF item[t].skip THEN callbacks ELSE callbacks + 1
    /\ pc' = [pc EXCEPT ![t] = "ok"]
    /\ UNCHANGED <<elmVars, sessionVars, path, lease, storeVars, queueVars,
                   caller, workVars, store, boundVars, due>>

\* pendingSync.Delete: key.value is empty for a canary.
Unpend(t) ==
    /\ pc[t] = "ok"
    /\ pc' = [pc EXCEPT ![t] = "done"]
    /\ pendingSync' = pendingSync \ {path[t]}
    /\ UNCHANGED <<elmVars, sessionVars, path, lease, state, synced, queueVars,
                   caller, workVars, store, callbacks, boundVars, due>>

\* How an item whose handling failed is retried.
RetryNever(t) == delayed
Retry(t) == IF pc[t] = "failed" THEN delayed \cup {item[t]} ELSE delayed

\* The deferred Done, after AddRateLimited when the handler failed.
Finish(t) ==
    /\ pc[t] \in {"done", "failed"}
    /\ pc' = [pc EXCEPT ![t] = "idle"]
    /\ delayed' = Retry(t)
    /\ Done(item[t])
    /\ item' = [item EXCEPT ![t] = NoItem] /\ val' = [val EXCEPT ![t] = NoValue]
    /\ path' = [path EXCEPT ![t] = NoPath] /\ lease' = [lease EXCEPT ![t] = NoLease]
    /\ UNCHANGED <<elmVars, sessionVars, storeVars, caller, store, callbacks,
                   boundVars, due>>

-----------------------------------------------------------------------------
(* Leases that expire *)

\* External: the server lets a lease expire, and the keys attached to it go.
ServerExpire(l) ==
    /\ l \in alive /\ Fault
    /\ alive' = alive \ {l}
    /\ store' = [k \in Paths |-> IF store[k].lease = l THEN Absent ELSE store[k]]
    /\ UNCHANGED <<elmVars, granted, done, expiring, callVars, storeVars,
                   queueVars, caller, workVars, callbacks, ops, due>>

\* External: the client learns it, or gives up on a lease that is alive.
ClientExpire(l) ==
    /\ SessionDone(l)
    /\ IF l \in alive THEN Fault ELSE UNCHANGED faults
    /\ UNCHANGED <<storeVars, queueVars, caller, workVars, store, callbacks,
                   ops, due>>

Expire(l) ==
    /\ WaitForExpiration(l)
    /\ UNCHANGED <<storeVars, queueVars, caller, workVars, store, callbacks,
                   boundVars, due>>

\* handleExpiredLease: the marker gets a new canary; a key of the state goes
\* through the steps of UpsertKey that mark it pending and queue it.
HandleExpiredLease(l, k) ==
    /\ caller[l] = Idle
    /\ Reported(l, k)
    /\ IF k = Marker
       THEN AddCanary(TRUE) /\ UNCHANGED caller
       ELSE /\ Goto(l, IF state[k] = NoValue THEN "idle" ELSE "load",
                       IF state[k] = NoValue THEN Marker ELSE k)
            /\ UNCHANGED queueVars
    /\ UNCHANGED <<callVars, storeVars, workVars, store, callbacks, boundVars,
                   due>>

-----------------------------------------------------------------------------

WorkerStep(t) ==
    \/ Get(t) \/ HandleKey(t) \/ HandleSync(t) \/ LeaseStep(t) \/ Put(t)
    \/ PutExpired(t) \/ Delete(t) \/ Release(t) \/ Callbacks(t) \/ Unpend(t)
    \/ Finish(t)

CallerStep(c) == UpsertLoad(c) \/ UpsertPend(c) \/ AddKey(c) \/ SyncedAdd(c)

ExpiryStep(l) == Expire(l) \/ \E k \in Paths : HandleExpiredLease(l, k)

Next ==
    \/ \E c \in Callers : \/ \E k \in Names : \/ \E v \in Values : UpsertKey(c, k, v)
                                             \/ DeleteKey(c, k)
                          \/ Synced(c)
    \/ \E c \in Callers \cup LeaseIDs : CallerStep(c)
    \/ \E t \in Threads : WorkerStep(t) \/ LeaseFails(t) \/ RequestFails(t)
    \/ \E i \in Items : DelayedAdd(i)
    \/ \E l \in LeaseIDs : ServerExpire(l) \/ ClientExpire(l) \/ ExpiryStep(l)

Spec == Init /\ [][Next]_vars

\* Goroutines that can run do, the rate limiter's delays end, and the client
\* learns that the server has dropped a lease (its keepalive is refused).
Fairness ==
    /\ \A t \in Threads : WF_pc(WorkerStep(t))
    /\ WF_caller(\E c \in Callers \cup LeaseIDs : CallerStep(c))
    /\ \A i \in Items : WF_delayed(DelayedAdd(i))
    /\ WF_vars(\E l \in LeaseIDs : \/ ExpiryStep(l)
                                   \/ l \notin alive /\ ClientExpire(l))

FairSpec == Spec /\ Fairness

-----------------------------------------------------------------------------

\* The variables have their types; a count is never negative.
TypeOK ==
    /\ leases \subseteq LeaseIDs /\ count \in [LeaseIDs -> Nat]
    /\ keys \in [Paths -> {NoLease} \cup LeaseIDs]
    /\ current \in {NoLease} \cup LeaseIDs
    /\ acquiring \in BOOLEAN /\ granted \in Nat
    /\ alive \subseteq LeaseIDs /\ done \subseteq LeaseIDs
    /\ expiring \in [LeaseIDs -> SUBSET Paths]
    /\ path \in [Threads -> Paths \cup {NoPath}]
    /\ lease \in [Threads -> {NoLease} \cup LeaseIDs]
    /\ state \in [Names -> Values \cup {NoValue}]
    /\ pendingSync \subseteq Names
    /\ \A k \in Paths : store[k].lease \in {NoLease} \cup LeaseIDs

\* Key k is on its way to a worker, or will be once its lease is known to have
\* expired.
Coming(k) ==
    \/ Item(k) \in dirty \cup processing \cup delayed
    \/ \E c \in Callers \cup LeaseIDs : caller[c].key = k
    \/ \E l \in LeaseIDs : k \in expiring[l]
    \/ keys[k] \in leases \ alive

\* No update is lost: a key whose value in the kvstore is not the one in the
\* state is queued, delayed, being handled, or about to be queued, whatever
\* fails and whichever lease expires meanwhile.
NoLostUpdate ==
    \A k \in Names : store[k].val # state[k] => Coming(k)

\* A key of the kvstore that a lease may take away is attached to that lease,
\* or is on its way to a worker: otherwise nobody would notice its expiry.
ExpiryNoticed ==
    \A k \in Names : store[k].val # NoValue =>
        \/ keys[k] = store[k].lease
        \/ Coming(k)

MarkerWritten == store[Marker].val # NoValue

\* What syncstore.go says of Synced: the marker is written once all upserts
\* already issued have been written. An upsert that a later call for the key
\* replaces is not waited for.
MarkerAfterUpserts == MarkerWritten => due = {}

\* When nobody calls the store any more, the kvstore ends up with its state,
\* and with the marker if Synced was called, whose callbacks have then run
\* exactly once although canaries are retried and made again: no key waits
\* forever for a lease, for a retry, or for the canary.
Converges ==
    <>[](/\ \A k \in Names : store[k].val = state[k]
         /\ synced => MarkerWritten
         /\ callbacks = IF synced THEN 1 ELSE 0)
=============================================================================
