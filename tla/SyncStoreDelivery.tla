------------------------- MODULE SyncStoreDelivery --------------------------
(***************************************************************************)
(* SyncStore loses no update of a key and overlooks no expiry of its       *)
(* lease, for any number of keys, workers, leases and failures.  The       *)
(* argument follows one key: what a worker that handles it knows, what     *)
(* holds while nobody handles it, and that the steps of everybody else     *)
(* leave both alone.                                                       *)
(***************************************************************************)
EXTENDS SyncStoreProofs

USE ZenonT(20)

-----------------------------------------------------------------------------
(* The invariant.                                                          *)

\* Key k will be handled (again), whatever the worker that handles it now does.
Queued(k) ==
    \/ Item(k) \in dirty \cup delayed
    \/ \E c \in Callers \cup LeaseIDs : caller[c].key = k

\* Or it will be queued once its lease is known to have expired.
Lapsing(k) ==
    \/ Queued(k)
    \/ \E l \in LeaseIDs : k \in expiring[l]
    \/ keys[k] \in leases \ alive

\* What a worker knows of the key it handles, up to the moment it is done.
Handling(t, k) ==
    /\ pc[t] \notin {"got", "failed"} /\ val[t] # state[k] => Queued(k)
    /\ pc[t] \in {"lookup", "waiting", "acquiring", "leased"} => val[t] # NoValue
    /\ pc[t] \in {"delete", "release"} => val[t] = NoValue
    /\ pc[t] # "call"
    /\ pc[t] = "leased" => keys[k] = lease[t] \/ Lapsing(k)
    /\ pc[t] \in {"release", "ok", "done"} =>
          \/ val[t] = NoValue /\ store[k].val = NoValue
          \/ val[t] # NoValue /\ Lapsing(k)
          \/ val[t] # NoValue /\ store[k].val = val[t] /\ keys[k] = store[k].lease

\* What holds of a key that nobody handles.
Resting(k) ==
    /\ store[k].val # state[k] => Queued(k) \/ (state[k] # NoValue /\ Lapsing(k))
    /\ store[k].val # NoValue => keys[k] = store[k].lease \/ Lapsing(k)

\* Worker t handles key k.
Handles(t, k) == pc[t] # "idle" /\ item[t] = Item(k)

Followed(k) ==
    /\ \A t \in Threads : Handles(t, k) => Handling(t, k)
    /\ Item(k) \notin processing => Resting(k)

DeliveryInv == \A k \in Names : Followed(k)

-----------------------------------------------------------------------------
(* Steps of the others.                                                    *)

\* What the steps do to a key that their worker, if they have one, does not
\* handle.
Foreign(k) ==
    /\ Queued(k) => Queued(k)'
    /\ Lapsing(k) => Lapsing(k)' \/ state[k] = NoValue
    /\ state'[k] = state[k] \/ Queued(k)'
    /\ store'[k] = store[k] \/ (store'[k] = Absent /\ (keys[k] = store[k].lease => Lapsing(k)'))
    /\ keys'[k] = keys[k] \/ Lapsing(k)'
    /\ Item(k) \in processing => Item(k) \in processing'
    /\ \A t \in Threads : Handles(t, k)' =>
          /\ Handles(t, k) /\ val'[t] = val[t] /\ lease'[t] = lease[t]
          /\ pc'[t] = pc[t] \/ (pc[t] = "waiting" /\ pc'[t] = "lookup")

\* Such a step leaves the key's invariant alone.
LEMMA ForeignKeeps ==
  ASSUME NEW k \in Names, Followed(k), Foreign(k)
  PROVE  Followed(k)'
<1>0. Absent.val = NoValue
  BY DEF Absent
<1>q. Queued(k)' => Lapsing(k)'
  BY DEF Lapsing
<1>1. ASSUME NEW t \in Threads, Handles(t, k)'
      PROVE  Handling(t, k)'
  <2>1. /\ Handling(t, k) /\ val'[t] = val[t] /\ lease'[t] = lease[t]
        /\ pc'[t] = pc[t] \/ (pc[t] = "waiting" /\ pc'[t] = "lookup")
    BY <1>1 DEF Foreign, Followed
  <2>2. pc'[t] \notin {"got", "failed"} /\ val'[t] # state'[k] => Queued(k)'
    BY <2>1 DEF Foreign, Handling
  <2>3. /\ pc'[t] \in {"lookup", "waiting", "acquiring", "leased"} => val'[t] # NoValue
        /\ pc'[t] \in {"delete", "release"} => val'[t] = NoValue
        /\ pc'[t] # "call"
    BY <2>1 DEF Handling
  <2>4. ASSUME pc'[t] \notin {"got", "failed"}, val'[t] # NoValue, Lapsing(k)
        PROVE  Lapsing(k)'
    <3>1. CASE state'[k] # state[k]
      BY <1>q, <3>1 DEF Foreign
    <3>2. CASE state'[k] = state[k]
      BY <1>q, <2>2, <2>4, <3>2 DEF Foreign
    <3> QED
      BY <3>1, <3>2
  <2>5. ASSUME pc'[t] = "leased" PROVE keys'[k] = lease'[t] \/ Lapsing(k)'
    BY <2>1, <2>3, <2>4, <2>5 DEF Foreign, Handling
  <2>6. ASSUME pc'[t] \in {"release", "ok", "done"}
        PROVE  \/ val'[t] = NoValue /\ store'[k].val = NoValue
               \/ val'[t] # NoValue /\ Lapsing(k)'
               \/ val'[t] # NoValue /\ store'[k].val = val'[t] /\ keys'[k] = store'[k].lease
    <3>1. pc[t] \in {"release", "ok", "done"}
      BY <2>1, <2>6
    <3>2. CASE val[t] = NoValue /\ store[k].val = NoValue
      BY <1>0, <2>1, <3>2 DEF Foreign
    <3>3. CASE val[t] # NoValue /\ Lapsing(k)
      BY <2>1, <2>4, <2>6, <3>3
    <3>4. CASE val[t] # NoValue /\ store[k].val = val[t] /\ keys[k] = store[k].lease
      BY <2>1, <3>4 DEF Foreign
    <3> QED
      BY <2>1, <3>1, <3>2, <3>3, <3>4 DEF Handling
  <2> QED
    BY <2>2, <2>3, <2>5, <2>6 DEF Handling
<1>2. ASSUME Item(k) \notin processing'
      PROVE  Resting(k)'
  <2>1. Resting(k)
    BY <1>2 DEF Foreign, Followed
  <2>2. CASE state'[k] # state[k]
    BY <1>q, <2>2 DEF Foreign, Resting
  <2>3. CASE state'[k] = state[k] /\ store'[k] = store[k]
    BY <1>q, <2>1, <2>3 DEF Foreign, Resting
  <2>4. CASE /\ state'[k] = state[k]
             /\ store'[k] = Absent /\ (keys[k] = store[k].lease => Lapsing(k)')
    BY <1>0, <2>1, <2>4 DEF Foreign, Resting
  <2> QED
    BY <2>2, <2>3, <2>4 DEF Foreign
<1> QED
  BY <1>1, <1>2 DEF Followed

\* Nothing that makes a key come back to a worker changes.
LEMMA Quiet ==
  ASSUME NEW k, UNCHANGED <<dirty, delayed, caller, expiring, leases, alive>>, keys'[k] = keys[k]
  PROVE  (Queued(k)' <=> Queued(k)) /\ (Lapsing(k)' <=> Lapsing(k))
<1>1. Queued(k)' <=> Queued(k)
  BY DEF Queued
<1> QED
  BY <1>1 DEF Lapsing

\* Only the queues and the callers change, and the key stays queued.
LEMMA StillQueued ==
  ASSUME NEW k, Queued(k) => Queued(k)', UNCHANGED <<expiring, leases, alive>>, keys'[k] = keys[k]
  PROVE  Lapsing(k) => Lapsing(k)'
  BY DEF Lapsing

\* The workers stay where they are.
LEMMA WorkersStay ==
  ASSUME NEW k, UNCHANGED <<callVars, workVars, processing>>
  PROVE  /\ Item(k) \in processing => Item(k) \in processing'
         /\ \A t \in Threads : Handles(t, k)' =>
               /\ Handles(t, k) /\ val'[t] = val[t] /\ lease'[t] = lease[t]
               /\ pc'[t] = pc[t] \/ (pc[t] = "waiting" /\ pc'[t] = "lookup")
  BY DEF Handles, callVars, workVars

\* UpsertKey and DeleteKey of a key queue it; Synced concerns no key.
LEMMA CallForeign ==
  ASSUME Base, NEW k \in Names, NEW c \in Callers,
         (\E m \in Names : (\E v \in Values : UpsertKey(c, m, v)) \/ DeleteKey(c, m)) \/ Synced(c)
  PROVE  Foreign(k)
<1>1. UNCHANGED <<callVars, workVars, processing, dirty, delayed, expiring, leases, alive, keys, store>>
  BY DEF UpsertKey, DeleteKey, Synced, queueVars, elmVars, sessionVars
<1>2. caller[c] = Idle /\ Idle.key = Marker /\ k # Marker
  BY PathsAreNames DEF UpsertKey, DeleteKey, Synced, Idle
<1>3. \A d \in Callers \cup LeaseIDs : d # c => caller'[d] = caller[d]
  BY DEF UpsertKey, DeleteKey, Synced, Goto, Base, Types, StoreTypes
<1>4. Queued(k) => Queued(k)'
  BY <1>1, <1>2, <1>3 DEF Queued
<1>5. state'[k] = state[k] \/ Queued(k)'
  <2>1. CASE Synced(c)
    BY <2>1 DEF Synced
  <2>2. ASSUME NEW m \in Names, NEW v \in Values, UpsertKey(c, m, v)
        PROVE  state'[k] = state[k] \/ Queued(k)'
    <3>1. CASE state[m] = v
      BY <2>2, <3>1 DEF UpsertKey, Base, Types, StoreTypes
    <3>2. CASE state[m] # v
      <4>1. caller'[c].key = m
        BY <2>2, <3>2 DEF UpsertKey, Goto, Base, Types, StoreTypes
      <4>2. m # k => state'[k] = state[k]
        BY <2>2 DEF UpsertKey, Base, Types, StoreTypes
      <4> QED
        BY <4>1, <4>2 DEF Queued
    <3> QED
      BY <3>1, <3>2
  <2>3. ASSUME NEW m \in Names, DeleteKey(c, m)
        PROVE  state'[k] = state[k] \/ Queued(k)'
    <3>1. caller'[c].key = m
      BY <2>3 DEF DeleteKey, Goto, Base, Types, StoreTypes
    <3>2. m # k => state'[k] = state[k]
      BY <2>3 DEF DeleteKey, Base, Types, StoreTypes
    <3> QED
      BY <3>1, <3>2 DEF Queued
  <2> QED
    BY <2>1, <2>2, <2>3
<1> QED
  BY <1>1, <1>4, <1>5, StillQueued, WorkersStay DEF Foreign

\* UpsertLoad, UpsertPend and AddKey take a key towards the queue.
LEMMA CallerForeign ==
  ASSUME Base, NEW k \in Names, NEW c \in Callers \cup LeaseIDs, CallerStep(c)
  PROVE  Foreign(k)
<1>1. UNCHANGED <<callVars, workVars, processing, delayed, expiring, leases, alive, keys, store, state>>
  BY DEF CallerStep, UpsertLoad, UpsertPend, AddKey, SyncedAdd, AddCanary, queueVars, storeVars,
         elmVars, sessionVars
<1>2. dirty \subseteq dirty'
  BY DEF CallerStep, UpsertLoad, UpsertPend, AddKey, SyncedAdd, AddCanary, Add, queueVars
<1>3. \A d \in Callers \cup LeaseIDs : d # c => caller'[d] = caller[d]
  BY DEF CallerStep, UpsertLoad, UpsertPend, AddKey, SyncedAdd, Goto, Base, Types, StoreTypes
<1>4. caller[c].key = k => caller'[c].key = k \/ Item(k) \in dirty'
  <2>1. CASE UpsertLoad(c) \/ UpsertPend(c)
    BY <2>1, SMT DEF UpsertLoad, UpsertPend, Goto, Base, Types, StoreTypes
  <2>2. CASE AddKey(c)
    BY <2>2 DEF AddKey, Add
  <2>3. CASE SyncedAdd(c)
    <3>1. caller[c].op = "canary" /\ caller[c] \in Calls
      BY <2>3 DEF SyncedAdd, Base, Types, StoreTypes
    <3>2. caller[c].key = Marker
      BY <3>1, SMT DEF Calls, Idle
    <3> QED
      BY <3>2, PathsAreNames
  <2> QED
    BY <2>1, <2>2, <2>3 DEF CallerStep
<1>5. Queued(k) => Queued(k)'
  BY <1>1, <1>2, <1>3, <1>4 DEF Queued
<1> QED
  BY <1>1, <1>5, StillQueued, WorkersStay DEF Foreign

\* The rate limiter adds an item to the queue.
LEMMA DelayedForeign ==
  ASSUME Base, NEW k \in Names, NEW i, DelayedAdd(i)
  PROVE  Foreign(k)
<1>1. UNCHANGED <<callVars, workVars, processing, caller, expiring, leases, alive, keys, store, state>>
  BY DEF DelayedAdd, queueVars, storeVars, elmVars, sessionVars
<1>2. dirty' = dirty \cup {i} /\ delayed' = delayed \ {i}
  BY DEF DelayedAdd, Add
<1>3. Queued(k) => Queued(k)'
  BY <1>1, <1>2 DEF Queued
<1> QED
  BY <1>1, <1>3, StillQueued, WorkersStay DEF Foreign

\* The server drops a lease: a key that was written with it and is attached to
\* it is lost, and attached to a lease that is not alive.
LEMMA ServerForeign ==
  ASSUME Base, LeaseInv, NEW k \in Names, NEW l \in LeaseIDs, ServerExpire(l)
  PROVE  Foreign(k)
<1>1. /\ UNCHANGED <<callVars, workVars, processing, state>>
      /\ UNCHANGED <<dirty, delayed, caller, expiring, leases, keys>>
      /\ alive' = alive \ {l}
  BY DEF ServerExpire, queueVars, storeVars, elmVars
<1>2. Queued(k)' <=> Queued(k)
  BY <1>1 DEF Queued
<1>3. Lapsing(k) => Lapsing(k)'
  BY <1>1, <1>2 DEF Lapsing
<1>4. k \in Paths
  BY PathsAreNames
<1>5. store'[k] = store[k] \/ (store'[k] = Absent /\ (keys[k] = store[k].lease => Lapsing(k)'))
  <2>1. CASE store[k].lease # l
    BY <1>4, <2>1 DEF ServerExpire
  <2>2. CASE store[k].lease = l
    <3>1. store'[k] = Absent
      BY <1>4, <2>2 DEF ServerExpire
    <3>2. keys[k] = l => l \in leases' \ alive'
      BY <1>1, <1>4, LeaseIsLease DEF LeaseInv, CountInv
    <3> QED
      BY <1>1, <2>2, <3>1, <3>2 DEF Lapsing
  <2> QED
    BY <2>1, <2>2
<1> QED
  BY <1>1, <1>2, <1>3, <1>5, WorkersStay DEF Foreign

\* The client learns of it.
LEMMA ClientForeign ==
  ASSUME Base, NEW k \in Names, NEW l, ClientExpire(l)
  PROVE  Foreign(k)
<1>1. /\ UNCHANGED <<callVars, workVars, processing, state, store>>
      /\ UNCHANGED <<dirty, delayed, caller, expiring, leases, alive, keys>>
  BY DEF ClientExpire, SessionDone, queueVars, storeVars, elmVars
<1> QED
  BY <1>1, Quiet, WorkersStay DEF Foreign

\* waitForExpiration: the key is reported if it was attached to the lease.
LEMMA ExpireForeign ==
  ASSUME Base, LeaseInv, NEW k \in Names, NEW l \in LeaseIDs, Expire(l)
  PROVE  Foreign(k)
<1>1. /\ UNCHANGED <<callVars, workVars, processing, state, store>>
      /\ UNCHANGED <<dirty, delayed, caller, alive>>
      /\ leases' = leases \ {l} /\ l \in leases
      /\ keys' = ForgetKeys(l)
      /\ expiring' = [expiring EXCEPT ![l] = Attached(l)]
  BY DEF Expire, WaitForExpiration, ExpiredKeys, queueVars, storeVars
<1>2. k \in Paths
  BY PathsAreNames
<1>3. expiring'[l] = Attached(l) /\ \A m \in LeaseIDs : m # l => expiring'[m] = expiring[m]
  BY <1>1 DEF Base, Types, LeaseTypes
<1>4. expiring[l] = {}
  BY <1>1 DEF LeaseInv, ExpiringInv
<1>5. Queued(k)' <=> Queued(k)
  BY <1>1 DEF Queued
<1>6. CASE keys[k] = l
  <2>1. k \in expiring'[l]
    BY <1>2, <1>3, <1>6 DEF Attached
  <2>2. Lapsing(k)'
    BY <2>1 DEF Lapsing
  <2> QED
    BY <1>1, <1>5, <2>2, WorkersStay DEF Foreign
<1>7. CASE keys[k] # l
  <2>1. keys'[k] = keys[k]
    BY <1>1, <1>2, <1>7 DEF ForgetKeys
  <2>2. Lapsing(k) => Lapsing(k)'
    BY <1>1, <1>3, <1>4, <1>5, <1>7, <2>1 DEF Lapsing
  <2> QED
    BY <1>1, <1>5, <2>1, <2>2, WorkersStay DEF Foreign
<1> QED
  BY <1>6, <1>7

\* handleExpiredLease: a key of the state is on its way to the queue.
LEMMA ReportForeign ==
  ASSUME Base, LeaseInv, NEW k \in Names, NEW l \in LeaseIDs, NEW m \in Paths,
         HandleExpiredLease(l, m)
  PROVE  Foreign(k)
<1>1. /\ UNCHANGED <<callVars, workVars, processing, state, store>>
      /\ UNCHANGED <<delayed, leases, alive, keys>> /\ dirty \subseteq dirty'
  BY DEF HandleExpiredLease, Reported, AddCanary, Add, queueVars, storeVars, elmVars
<1>2. caller[l] = Idle /\ Idle.key = Marker /\ k # Marker
  BY PathsAreNames DEF HandleExpiredLease, Idle
<1>3. \A d \in Callers \cup LeaseIDs : d # l => caller'[d] = caller[d]
  BY DEF HandleExpiredLease, Goto, Base, Types, StoreTypes
<1>4. Queued(k) => Queued(k)'
  BY <1>1, <1>2, <1>3 DEF Queued
<1>5. expiring' = [expiring EXCEPT ![l] = @ \ {m}]
  BY DEF HandleExpiredLease, Reported
<1>6. \A j \in LeaseIDs : k # m /\ k \in expiring[j] => k \in expiring'[j]
  BY <1>5 DEF Base, Types, LeaseTypes
<1>7. CASE k # m
  <2>1. Lapsing(k) => Lapsing(k)'
    BY <1>1, <1>4, <1>6, <1>7 DEF Lapsing
  <2> QED
    BY <1>1, <1>4, <2>1, WorkersStay DEF Foreign
<1>8. CASE k = m /\ state[k] = NoValue
  BY <1>1, <1>4, <1>8, WorkersStay DEF Foreign
<1>9. CASE k = m /\ state[k] # NoValue
  <2>1. caller'[l].key = k
    BY <1>2, <1>9, SMT DEF HandleExpiredLease, Goto, Base, Types, StoreTypes
  <2>2. Queued(k)' /\ Lapsing(k)'
    BY <2>1 DEF Queued, Lapsing
  <2> QED
    BY <1>1, <2>2, WorkersStay DEF Foreign
<1> QED
  BY <1>7, <1>8, <1>9

\* A worker that does not handle key k works on another key.
LEMMA OtherPath ==
  ASSUME Base, NEW k \in Names, NEW t \in Threads, pc[t] # "idle", ~Handles(t, k)
  PROVE  path[t] # k /\ item[t] # Item(k) /\ path[t] \in Paths
  BY BusyItem, PathsAreNames DEF Handles

\* Only worker t moves (and those that wait for its lease), and it does not
\* come to handle key k.
LEMMA OthersStay ==
  ASSUME NEW k, NEW t \in Threads, ~Handles(t, k)',
         \A u \in Threads \ {t} : /\ item'[u] = item[u] /\ val'[u] = val[u] /\ lease'[u] = lease[u]
                                  /\ pc'[u] = pc[u] \/ (pc[u] = "waiting" /\ pc'[u] = "lookup")
  PROVE  \A u \in Threads : Handles(u, k)' =>
            /\ Handles(u, k) /\ val'[u] = val[u] /\ lease'[u] = lease[u]
            /\ pc'[u] = pc[u] \/ (pc[u] = "waiting" /\ pc'[u] = "lookup")
  BY DEF Handles

\* The steps in which a worker changes only its own variables and the lease
\* manager's.
LEMMA MoveForeign ==
  ASSUME Base, NEW k \in Names, NEW t \in Threads, pc[t] # "idle", ~Handles(t, k),
         UNCHANGED <<item, processing, state>>,
         \A u \in Threads \ {t} : /\ val'[u] = val[u] /\ lease'[u] = lease[u]
                                  /\ pc'[u] = pc[u] \/ (pc[u] = "waiting" /\ pc'[u] = "lookup"),
         store'[k] = store[k], keys'[k] = keys[k], Queued(k)' <=> Queued(k), Lapsing(k) => Lapsing(k)'
  PROVE  Foreign(k)
<1>1. ~Handles(t, k)'
  BY OtherPath DEF Handles
<1>2. \A u \in Threads : Handles(u, k)' =>
         /\ Handles(u, k) /\ val'[u] = val[u] /\ lease'[u] = lease[u]
         /\ pc'[u] = pc[u] \/ (pc[u] = "waiting" /\ pc'[u] = "lookup")
  BY <1>1, OthersStay
<1> QED
  BY <1>2 DEF Foreign

\* The lease manager's steps.
LEMMA LeaseForeign ==
  ASSUME Base, LeaseInv, NEW k \in Names, NEW t \in Threads, ~Handles(t, k),
         LeaseStep(t) \/ LeaseFails(t)
  PROVE  Foreign(k)
<1>1. /\ UNCHANGED <<item, val, processing, state, store, dirty, delayed, caller, expiring>>
      /\ pc[t] # "idle"
  BY DEF LeaseStep, LeaseFails, GetSession, GetAttached, GetKnown, GetNone, NewSession,
         NewSessionFails, WaitCancelled, storeVars, queueVars, workVars, sessionVars
<1>2. Queued(k)' <=> Queued(k)
  BY <1>1 DEF Queued
<1>3. path[t] # k /\ path[t] \in Paths
  BY <1>1, OtherPath
<1>4. CASE (GetAttached(t) \/ GetKnown(t)) /\ UNCHANGED sessionVars
  <2>1. \A u \in Threads \ {t} : lease'[u] = lease[u] /\ pc'[u] = pc[u]
    BY <1>4 DEF GetAttached, GetKnown, Attach, Return, Base, Types, WorkTypes
  <2>2. leases' = leases /\ alive' = alive
    BY <1>4 DEF GetAttached, GetKnown, Attach, elmVars, sessionVars
  <2>3. keys'[k] = keys[k]
    BY <1>3, <1>4, PathsAreNames DEF GetAttached, GetKnown, Attach, elmVars, Base, Types, LeaseTypes
  <2> QED
    BY <1>1, <1>2, <2>1, <2>2, <2>3, Quiet, MoveForeign
<1>5. CASE (GetNone(t) \/ WaitCancelled(t) \/ NewSessionFails(t)) /\ UNCHANGED sessionVars
  <2>1. \A u \in Threads \ {t} :
           lease'[u] = lease[u] /\ (pc'[u] = pc[u] \/ (pc[u] = "waiting" /\ pc'[u] = "lookup"))
    BY <1>5 DEF GetNone, WaitCancelled, NewSessionFails, Acquired, Base, Types, WorkTypes
  <2>2. leases' = leases /\ alive' = alive /\ keys' = keys
    BY <1>5 DEF GetNone, WaitCancelled, NewSessionFails, elmVars, sessionVars
  <2> QED
    BY <1>1, <1>2, <2>1, <2>2, Quiet, MoveForeign
<1>6. CASE NewSession(t)
  <2>1. \A u \in Threads \ {t} :
           lease'[u] = lease[u] /\ (pc'[u] = pc[u] \/ (pc[u] = "waiting" /\ pc'[u] = "lookup"))
    BY <1>6 DEF NewSession, Acquired, Base, Types, WorkTypes
  <2>2. /\ leases' = leases \cup {granted'} /\ alive' = alive \cup {granted'} /\ keys' = keys
        /\ granted' = granted + 1
    BY <1>6 DEF NewSession
  <2>3. granted' \notin leases
    BY <2>2, GrantedLeases, SMT DEF Base, Types, LeaseTypes
  <2>4. Lapsing(k) => Lapsing(k)'
    BY <1>1, <1>2, <2>2, <2>3 DEF Lapsing
  <2> QED
    BY <1>1, <1>2, <2>1, <2>2, <2>4, MoveForeign
<1> QED
  BY <1>4, <1>5, <1>6 DEF LeaseStep, LeaseFails, GetSession

\* The requests to etcd, and what a worker does without any.
LEMMA RequestForeign ==
  ASSUME Base, NEW k \in Names, NEW t \in Threads, ~Handles(t, k),
         \/ HandleKey(t) \/ HandleSync(t) \/ Put(t) \/ PutExpired(t) \/ RequestFails(t)
         \/ Delete(t) \/ Release(t) \/ Callbacks(t) \/ Unpend(t)
  PROVE  Foreign(k)
<1>1. /\ UNCHANGED <<item, processing, state, dirty, delayed, caller, expiring, leases, alive>>
      /\ pc[t] # "idle"
  BY DEF HandleKey, HandleSync, Put, PutExpired, RequestFails, Delete, Release, ReleaseKeys, Callbacks, Unpend,
         storeVars, queueVars, workVars, sessionVars, elmVars
<1>2. path[t] # k /\ path[t] \in Paths /\ k \in Paths
  BY <1>1, OtherPath, PathsAreNames
<1>3. lease' = lease /\ \A u \in Threads \ {t} : pc'[u] = pc[u]
  BY DEF HandleKey, HandleSync, Put, PutExpired, RequestFails, Delete, Release, Callbacks, Unpend,
         Base, Types, WorkTypes
<1>4. \A u \in Threads \ {t} : val'[u] = val[u]
  BY DEF HandleKey, HandleSync, Put, PutExpired, RequestFails, Delete, Release, Callbacks, Unpend,
         workVars, Base, Types, WorkTypes
<1>5. store'[k] = store[k]
  BY <1>2 DEF HandleKey, HandleSync, Put, PutExpired, RequestFails, Delete, Release, Callbacks, Unpend,
              Base, Types, StoreTypes
<1>6. keys'[k] = keys[k]
  BY <1>2 DEF HandleKey, HandleSync, Put, PutExpired, RequestFails, Delete, Release, ReleaseKeys, Callbacks,
              Unpend, elmVars
<1> QED
  BY <1>1, <1>3, <1>4, <1>5, <1>6, Quiet, MoveForeign

\* A worker takes another item, or is done with one.
LEMMA TakeForeign ==
  ASSUME Base, NEW k \in Names, NEW t \in Threads, ~Handles(t, k),
         (Get(t) /\ Head(queue) # Item(k)) \/ Finish(t)
  PROVE  Foreign(k)
<1>1. UNCHANGED <<state, store, caller, expiring, leases, alive, keys>>
  BY DEF Get, Finish, storeVars, elmVars, sessionVars
<1>2. \A u \in Threads \ {t} :
         item'[u] = item[u] /\ val'[u] = val[u] /\ lease'[u] = lease[u] /\ pc'[u] = pc[u]
  BY DEF Get, Finish, Base, Types, WorkTypes
<1>3. /\ ~Handles(t, k)'
      /\ Item(k) \in processing => Item(k) \in processing'
      /\ Item(k) \in dirty => Item(k) \in dirty'
      /\ Item(k) \in delayed => Item(k) \in delayed'
  <2>1. CASE Get(t)
    BY <2>1 DEF Get, Finish, Handles, Base, Types, WorkTypes
  <2>2. CASE Finish(t)
    <3>1. item[t] # Item(k)
      BY <2>2, OtherPath DEF Finish
    <3> QED
      BY <2>2, <3>1 DEF Finish, Done, Retry, Handles, Base, Types, WorkTypes
  <2> QED
    BY <2>1, <2>2
<1>4. Queued(k) => Queued(k)'
  BY <1>1, <1>3 DEF Queued
<1>5. \A u \in Threads : Handles(u, k)' =>
         /\ Handles(u, k) /\ val'[u] = val[u] /\ lease'[u] = lease[u]
         /\ pc'[u] = pc[u] \/ (pc[u] = "waiting" /\ pc'[u] = "lookup")
  BY <1>2, <1>3, OthersStay
<1> QED
  BY <1>1, <1>3, <1>4, <1>5, StillQueued DEF Foreign

-----------------------------------------------------------------------------
(* Steps of the worker that handles the key.                               *)

\* Nobody else handles the key.
LEMMA HandledAlone ==
  ASSUME Base, NEW k, NEW t \in Threads, Handles(t, k)
  PROVE  Item(k) \in processing /\ \A u \in Threads : Handles(u, k) => u = t
  BY DEF Handles, Base, WorkInv

\* The worker's path is the key.
LEMMA HandledPath ==
  ASSUME Base, NEW k \in Names, NEW t \in Threads, Handles(t, k)
  PROVE  path[t] = k /\ item[t].canary = FALSE /\ item[t].key = k /\ k \in Paths /\ pc[t] # "idle"
  BY BusyItem, ItemTypes, PathsAreNames DEF Handles

\* It is enough to show what the worker knows after its step.
LEMMA OwnStep ==
  ASSUME Base', NEW k, NEW t \in Threads, Handles(t, k)', Handling(t, k)'
  PROVE  Followed(k)'
<1>1. Item(k) \in processing' /\ \A u \in Threads : Handles(u, k)' => u = t
  BY DEF Handles, Base, WorkInv
<1> QED
  BY <1>1 DEF Followed

\* A failed request leaves nothing to know: the key will be retried.
LEMMA OwnFailure ==
  ASSUME Base', NEW k, NEW t \in Threads, Handles(t, k)', pc'[t] = "failed"
  PROVE  Followed(k)'
<1>1. Handling(t, k)'
  BY DEF Handling
<1> QED
  BY <1>1, OwnStep

\* The worker takes the key from the queue.
LEMMA OwnGet ==
  ASSUME Base, Base', NEW k \in Names, NEW t \in Threads, Get(t), Head(queue) = Item(k)
  PROVE  Followed(k)'
<1>1. pc'[t] = "got" /\ item'[t] = Item(k)
  BY DEF Get, Base, Types, WorkTypes
<1>2. Handles(t, k)' /\ Handling(t, k)'
  BY <1>1 DEF Handles, Handling
<1> QED
  BY <1>2, OwnStep

\* The worker gets a lease.
LEMMA OwnLease ==
  ASSUME Base, Base', NEW k \in Names, NEW t \in Threads, Handles(t, k), Handling(t, k),
         LeaseStep(t) \/ LeaseFails(t)
  PROVE  Followed(k)'
<1>1. path[t] = k /\ k \in Paths
  BY HandledPath
<1>2. UNCHANGED <<item, val, state, store, dirty, delayed, caller>>
  BY DEF LeaseStep, LeaseFails, storeVars, queueVars, workVars
<1>3. Queued(k)' <=> Queued(k)
  BY <1>2 DEF Queued
<1>4. CASE LeaseFails(t)
  <2>1. pc'[t] = "failed"
    BY <1>4 DEF LeaseFails, NewSessionFails, Acquired, WaitCancelled, Base, Types, WorkTypes
  <2>2. Handles(t, k)'
    BY <1>2, <2>1 DEF Handles
  <2> QED
    BY <2>1, <2>2, OwnFailure
<1>5. CASE LeaseStep(t)
  <2>1. /\ pc[t] \in {"lookup", "acquiring"}
        /\ pc'[t] \in {"lookup", "waiting", "acquiring", "leased"}
        /\ pc'[t] = "leased" => keys'[k] = lease'[t]
    <3>1. CASE GetAttached(t)
      BY <1>1, <3>1 DEF GetAttached, Return, elmVars, Base, Types, WorkTypes
    <3>2. CASE GetKnown(t)
      <4>1. PICK l \in LeaseIDs : Attach(t, l)
        BY <3>2 DEF GetKnown
      <4> QED
        BY <1>1, <3>2, <4>1 DEF GetKnown, Attach, Return, Base, Types, WorkTypes, LeaseTypes
    <3>3. CASE GetNone(t)
      BY <3>3 DEF GetNone, Base, Types, WorkTypes
    <3>4. CASE NewSession(t)
      BY <3>4 DEF NewSession, Acquired
    <3> QED
      BY <1>5, <3>1, <3>2, <3>3, <3>4 DEF LeaseStep, GetSession
  <2>2. Handles(t, k)'
    BY <1>2, <2>1 DEF Handles
  <2>3. Handling(t, k)'
    BY <1>2, <1>3, <2>1 DEF Handling
  <2> QED
    BY <2>2, <2>3, OwnStep
<1> QED
  BY <1>4, <1>5

\* The worker reads the state.
LEMMA OwnHandle ==
  ASSUME Base, Base', NEW k \in Names, NEW t \in Threads, Handles(t, k), HandleKey(t)
  PROVE  Followed(k)'
<1>1. item[t].key = k
  BY HandledPath
<1>2. item' = item /\ state' = state /\ val'[t] = state[k]
  BY <1>1 DEF HandleKey, storeVars, Base, Types, WorkTypes
<1>3. pc'[t] = IF val'[t] = NoValue THEN "delete" ELSE "lookup"
  BY DEF HandleKey, Base, Types, WorkTypes
<1>4. Handles(t, k)'
  BY <1>2, <1>3 DEF Handles
<1>5. Handling(t, k)'
  BY <1>2, <1>3 DEF Handling
<1> QED
  BY <1>4, <1>5, OwnStep

\* The worker writes, deletes or detaches the key, or fails to.
LEMMA OwnRequest ==
  ASSUME Base, Base', NEW k \in Names, NEW t \in Threads, Handles(t, k), Handling(t, k),
         Put(t) \/ PutExpired(t) \/ RequestFails(t) \/ Delete(t) \/ Release(t) \/ Unpend(t)
  PROVE  Followed(k)'
<1>1. path[t] = k /\ k \in Paths /\ item[t].canary = FALSE
  BY HandledPath
<1>2. UNCHANGED <<item, val, state, dirty, delayed, caller, lease, expiring, leases, alive>>
  BY DEF Put, PutExpired, RequestFails, Delete, Release, ReleaseKeys, Unpend, storeVars, queueVars, workVars,
         elmVars, sessionVars
<1>3. Queued(k)' <=> Queued(k)
  BY <1>2 DEF Queued
<1>4. pc'[t] # "idle"
  BY DEF Put, PutExpired, RequestFails, Delete, Release, Unpend, Base, Types, WorkTypes
<1>5. Handles(t, k)'
  BY <1>2, <1>4 DEF Handles
<1>6. CASE pc'[t] = "failed"
  BY <1>5, <1>6, OwnFailure
<1>7. CASE Put(t) /\ pc'[t] # "failed"
  <2>1. /\ pc[t] = "leased" /\ pc'[t] = "ok" /\ keys' = keys
        /\ store'[k] = [val |-> val[t], lease |-> lease[t]]
    BY <1>1, <1>7 DEF Put, elmVars, Base, Types, WorkTypes, StoreTypes
  <2>2. Lapsing(k)' <=> Lapsing(k)
    BY <1>2, <2>1, Quiet
  <2>3. store'[k].val = val'[t] /\ store'[k].lease = lease[t]
    BY <1>2, <2>1, SMT
  <2>4. val'[t] # NoValue /\ (keys'[k] = lease[t] \/ Lapsing(k)')
    BY <1>2, <2>1, <2>2 DEF Handling
  <2>5. val'[t] # state'[k] => Queued(k)'
    BY <1>2, <1>3, <2>1 DEF Handling
  <2>6. Handling(t, k)'
    BY <2>1, <2>3, <2>4, <2>5 DEF Handling
  <2> QED
    BY <1>5, <2>6, OwnStep
<1>8. CASE Delete(t) /\ pc'[t] # "failed"
  <2>1. pc[t] = "delete" /\ pc'[t] = "release" /\ store'[k] = Absent
    BY <1>1, <1>8 DEF Delete, Base, Types, WorkTypes, StoreTypes
  <2>2. val'[t] = NoValue /\ store'[k].val = NoValue
    <3>1. Absent.val = NoValue
      BY DEF Absent
    <3> QED
      BY <1>2, <2>1, <3>1 DEF Handling
  <2>3. val'[t] # state'[k] => Queued(k)'
    BY <1>2, <1>3, <2>1 DEF Handling
  <2>4. Handling(t, k)'
    BY <2>1, <2>2, <2>3 DEF Handling
  <2> QED
    BY <1>5, <2>4, OwnStep
<1>9. CASE Release(t)
  <2>1. pc[t] = "release" /\ pc'[t] = "ok" /\ store' = store
    BY <1>9 DEF Release, Base, Types, WorkTypes
  <2>2. val'[t] = NoValue /\ store'[k].val = NoValue
    BY <1>2, <2>1 DEF Handling
  <2>3. val'[t] # state'[k] => Queued(k)'
    BY <1>2, <1>3, <2>1 DEF Handling
  <2>4. Handling(t, k)'
    BY <2>1, <2>2, <2>3 DEF Handling
  <2> QED
    BY <1>5, <2>4, OwnStep
<1>10. CASE Unpend(t)
  <2>1. pc[t] = "ok" /\ pc'[t] = "done" /\ store' = store /\ keys' = keys
    BY <1>10 DEF Unpend, elmVars, Base, Types, WorkTypes
  <2>2. Lapsing(k)' <=> Lapsing(k)
    BY <1>2, <2>1, Quiet
  <2>3. Handling(t, k)'
    BY <1>2, <1>3, <2>1, <2>2 DEF Handling
  <2> QED
    BY <1>5, <2>3, OwnStep
<1>11. CASE PutExpired(t) \/ RequestFails(t)
  <2>1. pc'[t] = "failed"
    BY <1>11 DEF PutExpired, RequestFails, Base, Types, WorkTypes
  <2> QED
    BY <1>6, <2>1
<1> QED
  BY <1>6, <1>7, <1>8, <1>9, <1>10, <1>11

\* The worker is done with the key, or gives it to the rate limiter.
LEMMA OwnFinish ==
  ASSUME Base, Base', NEW k \in Names, NEW t \in Threads, Handles(t, k), Handling(t, k), Finish(t)
  PROVE  Followed(k)'
<1>1. item[t] = Item(k) /\ pc[t] \in {"done", "failed"}
  BY DEF Handles, Finish
<1>2. UNCHANGED <<state, store, dirty, caller, expiring, leases, alive, keys>>
  BY DEF Finish, Done, storeVars, elmVars, sessionVars
<1>3. Item(k) \notin processing' /\ delayed' = Retry(t)
  BY <1>1 DEF Finish, Done
<1>4. \A u \in Threads : ~Handles(u, k)'
  BY <1>3 DEF Handles, Base, WorkInv
<1>5. Resting(k)'
  <2>1. CASE pc[t] = "failed"
    <3>1. Item(k) \in delayed'
      BY <1>1, <1>3, <2>1 DEF Retry
    <3>2. Queued(k)' /\ Lapsing(k)'
      BY <3>1 DEF Queued, Lapsing
    <3> QED
      BY <3>2 DEF Resting
  <2>2. CASE pc[t] = "done"
    <3>1. delayed' = delayed
      BY <1>3, <2>2 DEF Retry
    <3>2. (Queued(k)' <=> Queued(k)) /\ (Lapsing(k)' <=> Lapsing(k))
      BY <1>2, <3>1, Quiet
    <3>3. /\ val[t] # state[k] => Queued(k)
          /\ \/ val[t] = NoValue /\ store[k].val = NoValue
             \/ val[t] # NoValue /\ Lapsing(k)
             \/ val[t] # NoValue /\ store[k].val = val[t] /\ keys[k] = store[k].lease
      BY <2>2 DEF Handling
    <3> QED
      BY <1>2, <3>2, <3>3 DEF Resting
  <2> QED
    BY <1>1, <2>1, <2>2
<1> QED
  BY <1>4, <1>5 DEF Followed

-----------------------------------------------------------------------------
(* The theorems.                                                           *)

\* DeliveryInv is inductive, given the invariants of types and leases.
LEMMA DeliveryStep ==
  ASSUME Base, Base', LeaseInv, DeliveryInv, [Next]_vars
  PROVE  DeliveryInv'
<1> SUFFICES ASSUME NEW k \in Names PROVE Followed(k)'
  BY DEF DeliveryInv
<1>0. Followed(k)
  BY DEF DeliveryInv
<1>1. CASE UNCHANGED vars
  <2>1. UNCHANGED <<callVars, workVars, processing, state, store, dirty, delayed, caller, expiring,
                    leases, alive, keys>>
    BY <1>1 DEF vars, storeVars, queueVars, elmVars, sessionVars
  <2>2. Foreign(k)
    BY <2>1, Quiet, WorkersStay DEF Foreign
  <2> QED
    BY <1>0, <2>2, ForeignKeeps
<1>2. ASSUME NEW c \in Callers,
             \/ \E m \in Names : (\E v \in Values : UpsertKey(c, m, v)) \/ DeleteKey(c, m)
             \/ Synced(c)
      PROVE  Followed(k)'
  BY <1>0, <1>2, CallForeign, ForeignKeeps
<1>3. ASSUME NEW c \in Callers \cup LeaseIDs, CallerStep(c)
      PROVE  Followed(k)'
  BY <1>0, <1>3, CallerForeign, ForeignKeeps
<1>4. ASSUME NEW i \in Items, DelayedAdd(i)
      PROVE  Followed(k)'
  BY <1>0, <1>4, DelayedForeign, ForeignKeeps
<1>5. ASSUME NEW l \in LeaseIDs, ServerExpire(l) \/ ClientExpire(l) \/ ExpiryStep(l)
      PROVE  Followed(k)'
  BY <1>0, <1>5, ServerForeign, ClientForeign, ExpireForeign, ReportForeign, ForeignKeeps DEF ExpiryStep
<1>6. ASSUME NEW t \in Threads, ~Handles(t, k), WorkerStep(t) \/ LeaseFails(t) \/ RequestFails(t)
      PROVE  Followed(k)'
  <2>1. CASE Get(t) /\ Head(queue) = Item(k)
    BY <2>1, OwnGet
  <2>2. CASE (Get(t) /\ Head(queue) # Item(k)) \/ Finish(t)
    BY <1>0, <1>6, <2>2, TakeForeign, ForeignKeeps
  <2>3. CASE LeaseStep(t) \/ LeaseFails(t)
    BY <1>0, <1>6, <2>3, LeaseForeign, ForeignKeeps
  <2>4. CASE \/ HandleKey(t) \/ HandleSync(t) \/ Put(t) \/ PutExpired(t) \/ RequestFails(t)
             \/ Delete(t) \/ Release(t) \/ Callbacks(t) \/ Unpend(t)
    BY <1>0, <1>6, <2>4, RequestForeign, ForeignKeeps
  <2> QED
    BY <1>6, <2>1, <2>2, <2>3, <2>4 DEF WorkerStep
<1>7. ASSUME NEW t \in Threads, Handles(t, k), WorkerStep(t) \/ LeaseFails(t) \/ RequestFails(t)
      PROVE  Followed(k)'
  <2>1. Handling(t, k)
    BY <1>0, <1>7 DEF Followed
  <2>2. item[t].canary = FALSE /\ pc[t] # "idle" /\ pc[t] # "call"
    BY <1>7, <2>1, HandledPath DEF Handling
  <2>3. ~Get(t) /\ ~HandleSync(t) /\ ~Callbacks(t)
    BY <2>2 DEF Get, HandleSync, Callbacks
  <2>4. CASE HandleKey(t)
    BY <1>7, <2>4, OwnHandle
  <2>5. CASE LeaseStep(t) \/ LeaseFails(t)
    BY <1>7, <2>1, <2>5, OwnLease
  <2>6. CASE Put(t) \/ PutExpired(t) \/ RequestFails(t) \/ Delete(t) \/ Release(t) \/ Unpend(t)
    BY <1>7, <2>1, <2>6, OwnRequest
  <2>7. CASE Finish(t)
    BY <1>7, <2>1, <2>7, OwnFinish
  <2> QED
    BY <1>7, <2>3, <2>4, <2>5, <2>6, <2>7 DEF WorkerStep
<1> QED
  BY <1>1, <1>2, <1>3, <1>4, <1>5, <1>6, <1>7 DEF Next

\* What each key's worker knows, and what holds of a key that rests.
THEOREM DeliveryInvariant == Spec => []DeliveryInv
<1>1. Init => DeliveryInv
  <2> SUFFICES ASSUME Init, NEW k \in Names PROVE Followed(k)
    BY DEF DeliveryInv
  <2>1. store[k] = Absent /\ state[k] = NoValue /\ Absent.val = NoValue
    BY PathsAreNames DEF Init, Absent
  <2>2. \A t \in Threads : pc[t] = "idle"
    BY DEF Init, LeaseInit
  <2> QED
    BY <2>1, <2>2 DEF Followed, Resting, Handles
<1>2. Base /\ LeaseInv /\ Base' /\ DeliveryInv /\ [Next]_vars => DeliveryInv'
  BY DeliveryStep
<1> QED
  BY <1>1, <1>2, StoreInvariant, PTL DEF Spec

\* A key that is handled, or will be, is on its way.
LEMMA ComingKeys ==
  ASSUME NEW k
  PROVE  /\ Lapsing(k) \/ Item(k) \in processing => Coming(k)
         /\ Queued(k) => Lapsing(k)
  BY DEF Lapsing, Queued, Coming

\* No update is lost: a key whose value in the kvstore is not the one in the
\* state is on its way to a worker, whatever fails and whichever lease expires.
THEOREM NoUpdateIsLost == Spec => []NoLostUpdate
<1>1. DeliveryInv => NoLostUpdate
  BY ComingKeys DEF DeliveryInv, Followed, Resting, NoLostUpdate
<1> QED
  BY <1>1, DeliveryInvariant, PTL

\* A key that an expiring lease may take away is attached to that lease or on
\* its way to a worker, so the expiry is noticed and the key written again.
THEOREM ExpiryIsNoticed == Spec => []ExpiryNoticed
<1>1. DeliveryInv => ExpiryNoticed
  BY ComingKeys DEF DeliveryInv, Followed, Resting, ExpiryNoticed
<1> QED
  BY <1>1, DeliveryInvariant, PTL

=============================================================================
