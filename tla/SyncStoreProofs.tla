-------------------------- MODULE SyncStoreProofs ---------------------------
(***************************************************************************)
(* Proofs about SyncStore, for any number of keys, values, callers,        *)
(* workers and leases, any limit on the keys of a lease, and any number of *)
(* failures: the types and the accounting of the lease manager.            *)
(***************************************************************************)
EXTENDS SyncStore, FiniteSetTheorems, TLAPS

\* Most leaves are first-order; the few that need SMT say so.
USE ZenonT(20)

-----------------------------------------------------------------------------
(* The invariants.                                                         *)

PCs == {"idle", "got", "lookup", "waiting", "acquiring", "leased", "delete",
        "release", "call", "ok", "done", "failed"}
Contents == Values \cup {NoValue, Marker}
KeyItems == {Item(k) : k \in Names}
Canaries == [canary : {TRUE}, skip : BOOLEAN, id : Nat]
AnyItem  == KeyItems \cup Canaries
Calls    == {Idle, [op |-> "canary", key |-> Marker]}
            \cup [op : {"load", "pend", "add"}, key : Names]

\* The types of the lease manager's variables.
LeaseTypes ==
    /\ granted \in 0..MaxLeases
    /\ leases \subseteq 1..granted /\ alive \subseteq 1..granted /\ done \subseteq LeaseIDs
    /\ count \in [LeaseIDs -> Nat]
    /\ keys \in [Paths -> {NoLease} \cup LeaseIDs]
    /\ current \in {NoLease} \cup LeaseIDs
    /\ acquiring \in BOOLEAN
    /\ expiring \in [LeaseIDs -> SUBSET Paths]

\* The types of the variables of the goroutines that handle items.
WorkTypes ==
    /\ pc \in [Threads -> PCs]
    /\ path \in [Threads -> Paths \cup {NoPath}]
    /\ lease \in [Threads -> {NoLease} \cup LeaseIDs]
    /\ item \in [Threads -> AnyItem \cup {NoItem}]
    /\ val \in [Threads -> Contents]

\* The types of the variables of the store.
StoreTypes ==
    /\ state \in [Names -> Values \cup {NoValue}]
    /\ synced \in BOOLEAN /\ pendingSync \subseteq Names
    /\ queue \in Seq(AnyItem) /\ canaries \in Nat
    /\ dirty \subseteq AnyItem /\ processing \subseteq AnyItem /\ delayed \subseteq AnyItem
    /\ caller \in [Callers \cup LeaseIDs -> Calls]
    /\ store \in [Paths -> [val : Contents, lease : {NoLease} \cup LeaseIDs]]

\* The workqueue hands an item to one worker at a time.
QueueInv ==
    /\ \A i \in 1..Len(queue) : queue[i] \in dirty \ processing
    /\ \A i, j \in 1..Len(queue) : queue[i] = queue[j] => i = j

\* The key an item is about.
PathOf(i) == IF i.canary THEN Marker ELSE i.key

\* A worker that is not idle processes its item, alone, and works on its key.
WorkInv ==
    /\ \A t \in Threads : pc[t] # "idle" =>
          /\ item[t] \in processing
          /\ path[t] = PathOf(item[t])
    /\ \A t, u \in Threads : pc[t] # "idle" /\ pc[u] # "idle" /\ item[t] = item[u] => t = u
    /\ \A t \in Threads : pc[t] = "idle" => item[t] = NoItem /\ path[t] = NoPath

\* The accounting of the lease manager. A lease it does not know counts nothing.
CountInv ==
    /\ \A l \in LeaseIDs : count[l] = Cardinality(Attached(l)) /\ count[l] <= Limit
    /\ \A k \in Paths : keys[k] # NoLease => keys[k] \in leases

\* A lease whose keys are being reported is not known any more.
ExpiringInv == \A l \in LeaseIDs : expiring[l] # {} => l \in (1..granted) \ leases

\* Only a key of the state is deleted.
CanaryInv == \A t \in Threads : pc[t] \in {"delete", "release"} => ~item[t].canary

Types    == LeaseTypes /\ WorkTypes /\ StoreTypes
Base     == Types /\ QueueInv /\ WorkInv /\ CanaryInv
LeaseInv == CountInv /\ OneAcquisition /\ ExpiringInv

-----------------------------------------------------------------------------
(* Types, queue and workers.                                               *)

\* The variables of the lease manager are left alone.
LEMMA LeaseFrame ==
  ASSUME LeaseTypes, UNCHANGED <<elmVars, sessionVars>>
  PROVE  LeaseTypes'
  BY DEF LeaseTypes, elmVars, sessionVars

\* The variables of the workers are left alone.
LEMMA WorkFrame ==
  ASSUME WorkTypes, WorkInv, CanaryInv, UNCHANGED <<callVars, workVars, processing>>
  PROVE  WorkTypes' /\ WorkInv' /\ CanaryInv'
  BY DEF WorkTypes, WorkInv, CanaryInv, callVars, workVars

\* The variables of the store are left alone.
LEMMA StoreFrame ==
  ASSUME StoreTypes, UNCHANGED <<storeVars, queueVars, caller, store>>
  PROVE  StoreTypes'
  BY DEF StoreTypes, storeVars, queueVars

\* The queue is left alone.
LEMMA QueueFrame ==
  ASSUME QueueInv, UNCHANGED <<queue, dirty, processing>>
  PROVE  QueueInv'
  BY DEF QueueInv

\* Item(k) is an item of key k; canaries are items of another kind.
LEMMA ItemTypes ==
  /\ \A k \in Names : Item(k) \in AnyItem
  /\ \A k : Item(k).key = k /\ Item(k).canary = FALSE
  /\ \A s \in BOOLEAN, n \in Nat : Canary(s, n) \in AnyItem
  /\ \A s, n : Canary(s, n).canary = TRUE
  /\ \A i \in AnyItem : \/ i.canary = TRUE
                        \/ i.canary = FALSE /\ i.key \in Names /\ i = Item(i.key)
  /\ NoItem \notin AnyItem
<1>1. \A k \in Names : Item(k) \in AnyItem
  BY Zenon DEF AnyItem, KeyItems
<1>2. \A k : Item(k).key = k /\ Item(k).canary = FALSE
  BY Zenon DEF Item
<1>3. \A s \in BOOLEAN, n \in Nat : Canary(s, n) \in AnyItem
  BY Zenon DEF AnyItem, Canaries, Canary
<1>4. \A s, n : Canary(s, n).canary = TRUE
  BY Zenon DEF Canary
<1>5. \A i \in Canaries : i.canary = TRUE
  BY Zenon DEF Canaries
<1>6. \A i \in KeyItems : i.canary = FALSE /\ i.key \in Names /\ i = Item(i.key)
  <2>1. \A i \in KeyItems : \E k \in Names : i = Item(k)
    BY Zenon DEF KeyItems
  <2> QED
    BY <1>2, <2>1, Zenon
<1>7. NoItem.canary = FALSE /\ NoItem.key = Marker
  BY Zenon DEF NoItem
<1> QED
  BY <1>1, <1>2, <1>3, <1>4, <1>5, <1>6, <1>7, PathsAreNames, Zenon DEF AnyItem

\* Adding an item keeps the queue free of duplicates.
LEMMA AddQueue ==
  ASSUME NEW i \in AnyItem, QueueInv, Add(i), processing' = processing,
         queue \in Seq(AnyItem), dirty \subseteq AnyItem
  PROVE  QueueInv' /\ queue' \in Seq(AnyItem) /\ dirty' \subseteq AnyItem
<1>1. CASE i \in dirty \cup processing
  BY <1>1 DEF Add, QueueInv
<1>2. CASE i \notin dirty \cup processing
  <2>1. queue' = Append(queue, i) /\ dirty' = dirty \cup {i}
    BY <1>2 DEF Add
  <2>2. Len(queue') = Len(queue) + 1 /\ queue' \in Seq(AnyItem)
    BY <2>1, SMT
  <2>3. \A j \in 1..Len(queue) : queue'[j] = queue[j] /\ queue[j] \in dirty \ processing
    BY <2>1, SMT DEF QueueInv
  <2>4. queue'[Len(queue) + 1] = i
    BY <2>1, SMT
  <2>5. \A j \in 1..Len(queue') : j \in 1..Len(queue) \/ j = Len(queue) + 1
    BY <2>2, SMT
  <2>6. \A j \in 1..Len(queue') : queue'[j] \in dirty' \ processing'
    BY <1>2, <2>1, <2>3, <2>4, <2>5
  <2>7. \A j, l \in 1..Len(queue') : queue'[j] = queue'[l] => j = l
    BY <1>2, <2>3, <2>4, <2>5 DEF QueueInv
  <2> QED
    BY <2>1, <2>2, <2>6, <2>7 DEF QueueInv
<1> QED
  BY <1>1, <1>2

\* The calls of the store, and the reports of expired keys.
LEMMA CallerBase ==
  ASSUME Base,
         \/ \E c \in Callers, k \in Names : (\E v \in Values : UpsertKey(c, k, v)) \/ DeleteKey(c, k)
         \/ \E c \in Callers : Synced(c)
         \/ \E c \in Callers \cup LeaseIDs : UpsertLoad(c) \/ UpsertPend(c)
  PROVE  Base'
<1>1. LeaseTypes' /\ WorkTypes' /\ WorkInv' /\ CanaryInv' /\ QueueInv'
  BY LeaseFrame, WorkFrame, QueueFrame
  DEF Base, Types, UpsertKey, DeleteKey, Synced, UpsertLoad, UpsertPend, queueVars
<1>2. /\ \A k \in Names : [op |-> "load", key |-> k] \in Calls /\ [op |-> "pend", key |-> k] \in Calls
                          /\ [op |-> "add", key |-> k] \in Calls
      /\ [op |-> "idle", key |-> Marker] \in Calls /\ [op |-> "canary", key |-> Marker] \in Calls
  BY DEF Calls, Idle
<1>3. \A c \in Callers \cup LeaseIDs : caller[c].op \in {"load", "pend", "add"} => caller[c].key \in Names
  BY SMT DEF Base, Types, StoreTypes, Calls, Idle
<1>4. ASSUME NEW c \in Callers, NEW k \in Names, NEW v \in Values, UpsertKey(c, k, v)
      PROVE  StoreTypes'
  <2>1. caller'[c] \in Calls /\ caller' = [caller EXCEPT ![c] = caller'[c]]
    BY <1>2, <1>4 DEF Base, Types, StoreTypes, UpsertKey, Goto
  <2> QED
    BY <1>4, <2>1 DEF Base, Types, StoreTypes, UpsertKey, queueVars
<1>5. ASSUME NEW c \in Callers, NEW k \in Names, DeleteKey(c, k)
      PROVE  StoreTypes'
  BY <1>2, <1>5 DEF Base, Types, StoreTypes, DeleteKey, Goto, queueVars
<1>6. ASSUME NEW c \in Callers, Synced(c)
      PROVE  StoreTypes'
  BY <1>2, <1>6 DEF Base, Types, StoreTypes, Synced, Goto, queueVars
<1>7. ASSUME NEW c \in Callers \cup LeaseIDs, UpsertLoad(c)
      PROVE  StoreTypes'
  BY <1>2, <1>3, <1>7 DEF Base, Types, StoreTypes, UpsertLoad, Goto, queueVars, storeVars
<1>8. ASSUME NEW c \in Callers \cup LeaseIDs, UpsertPend(c)
      PROVE  StoreTypes'
  <2>1. caller[c].key \in Names /\ caller' \in [Callers \cup LeaseIDs -> Calls]
    BY <1>2, <1>3, <1>8 DEF Base, Types, StoreTypes, UpsertPend, Goto
  <2> QED
    BY <1>8, <2>1 DEF Base, Types, StoreTypes, UpsertPend, queueVars
<1> QED
  BY <1>1, <1>4, <1>5, <1>6, <1>7, <1>8 DEF Base, Types

\* The steps that queue an item.
LEMMA AddBase ==
  ASSUME Base,
         \/ \E c \in Callers \cup LeaseIDs : AddKey(c) \/ SyncedAdd(c)
         \/ \E i \in Items : DelayedAdd(i)
         \/ \E l \in LeaseIDs, k \in Paths : HandleExpiredLease(l, k)
  PROVE  Base'
<1>1. WorkTypes' /\ WorkInv' /\ CanaryInv'
  BY WorkFrame
  DEF Base, Types, AddKey, SyncedAdd, DelayedAdd, HandleExpiredLease, AddCanary, queueVars
<1>2. /\ Idle \in Calls /\ [op |-> "idle", key |-> Marker] \in Calls
      /\ \A k \in Names : [op |-> "load", key |-> k] \in Calls
  BY DEF Calls, Idle
<1>3. \A c \in Callers \cup LeaseIDs : caller[c].op = "add" => caller[c].key \in Names
  BY SMT DEF Base, Types, StoreTypes, Calls, Idle
<1>4. ASSUME NEW c \in Callers \cup LeaseIDs, AddKey(c)
      PROVE  LeaseTypes' /\ StoreTypes' /\ QueueInv'
  <2>1. Item(caller[c].key) \in AnyItem
    BY <1>3, <1>4, ItemTypes DEF AddKey
  <2>2. QueueInv' /\ queue' \in Seq(AnyItem) /\ dirty' \subseteq AnyItem
    BY <1>4, <2>1, AddQueue DEF AddKey, Base, Types, StoreTypes
  <2> QED
    BY <1>2, <1>4, <2>2, LeaseFrame DEF Base, Types, StoreTypes, AddKey, storeVars
<1>5. ASSUME NEW c \in Callers \cup LeaseIDs, SyncedAdd(c)
      PROVE  LeaseTypes' /\ StoreTypes' /\ QueueInv'
  <2>1. Canary(FALSE, canaries) \in AnyItem
    BY ItemTypes DEF Base, Types, StoreTypes
  <2>2. QueueInv' /\ queue' \in Seq(AnyItem) /\ dirty' \subseteq AnyItem
    BY <1>5, <2>1, AddQueue DEF SyncedAdd, AddCanary, Base, Types, StoreTypes
  <2> QED
    BY <1>2, <1>5, <2>2, LeaseFrame, SMT DEF Base, Types, StoreTypes, SyncedAdd, AddCanary, storeVars
<1>6. ASSUME NEW i \in Items, DelayedAdd(i)
      PROVE  LeaseTypes' /\ StoreTypes' /\ QueueInv'
  <2>1. i \in AnyItem
    BY <1>6 DEF DelayedAdd, Base, Types, StoreTypes
  <2>2. QueueInv' /\ queue' \in Seq(AnyItem) /\ dirty' \subseteq AnyItem
    BY <1>6, <2>1, AddQueue DEF DelayedAdd, Base, Types, StoreTypes
  <2> QED
    BY <1>6, <2>2, LeaseFrame DEF Base, Types, StoreTypes, DelayedAdd, storeVars
<1>7. ASSUME NEW l \in LeaseIDs, NEW k \in Paths, HandleExpiredLease(l, k)
      PROVE  LeaseTypes' /\ StoreTypes' /\ QueueInv'
  <2>1. LeaseTypes'
    BY <1>7 DEF HandleExpiredLease, Reported, Base, Types, LeaseTypes, elmVars
  <2>2. CASE k = Marker
    <3>1. Canary(TRUE, canaries) \in AnyItem
      BY ItemTypes DEF Base, Types, StoreTypes
    <3>2. QueueInv' /\ queue' \in Seq(AnyItem) /\ dirty' \subseteq AnyItem
      BY <1>7, <2>2, <3>1, AddQueue DEF HandleExpiredLease, AddCanary, Base, Types, StoreTypes
    <3> QED
      BY <1>7, <2>1, <2>2, <3>2, SMT
      DEF HandleExpiredLease, AddCanary, Base, Types, StoreTypes, storeVars
  <2>3. CASE k # Marker
    <3>1. k \in Names
      BY <2>3, PathsAreNames
    <3>2. QueueInv' /\ UNCHANGED queueVars
      BY <1>7, <2>3, QueueFrame DEF HandleExpiredLease, Base, queueVars
    <3> QED
      BY <1>2, <1>7, <2>1, <2>3, <3>1, <3>2
      DEF HandleExpiredLease, Goto, Base, Types, StoreTypes, storeVars, queueVars
  <2> QED
    BY <2>2, <2>3
<1> QED
  BY <1>1, <1>4, <1>5, <1>6, <1>7 DEF Base, Types

\* A busy worker t goes on to p.
LEMMA Moves ==
  ASSUME Base, NEW t \in Threads, pc[t] # "idle",
         NEW p \in PCs \ {"idle"}, pc' = [pc EXCEPT ![t] = p],
         p \in {"delete", "release"} => ~item[t].canary,
         UNCHANGED <<path, item, processing>>,
         lease' \in [Threads -> {NoLease} \cup LeaseIDs], val' \in [Threads -> Contents]
  PROVE  WorkTypes' /\ WorkInv' /\ CanaryInv'
<1>1. WorkTypes'
  BY DEF Base, Types, WorkTypes
<1>2. \A u \in Threads : (pc'[u] = "idle" <=> pc[u] = "idle") /\ (u # t => pc'[u] = pc[u])
  BY DEF Base, Types, WorkTypes
<1>3. pc'[t] = p
  BY DEF Base, Types, WorkTypes
<1>4. WorkInv'
  BY <1>2 DEF Base, WorkInv
<1>5. CanaryInv'
  BY <1>2, <1>3 DEF Base, CanaryInv
<1> QED
  BY <1>1, <1>4, <1>5

\* The same for a worker whose lease and value stay.
LEMMA MovesOn ==
  ASSUME Base, NEW t \in Threads, pc[t] # "idle",
         NEW p \in PCs \ {"idle"}, pc' = [pc EXCEPT ![t] = p],
         p \in {"delete", "release"} => ~item[t].canary,
         UNCHANGED <<path, lease, workVars, processing>>
  PROVE  WorkTypes' /\ WorkInv' /\ CanaryInv'
<1>1. lease' \in [Threads -> {NoLease} \cup LeaseIDs] /\ val' \in [Threads -> Contents]
      /\ UNCHANGED <<path, item, processing>>
  BY DEF Base, Types, WorkTypes, workVars
<1> QED
  BY <1>1, Moves

\* The item of a busy worker.
LEMMA BusyItem ==
  ASSUME Base, NEW t \in Threads, pc[t] # "idle"
  PROVE  /\ item[t] \in AnyItem
         /\ item[t].canary = TRUE => path[t] = Marker
         /\ item[t].canary # TRUE => /\ item[t].canary = FALSE
                                     /\ item[t].key \in Names /\ path[t] = item[t].key
                                     /\ item[t] = Item(item[t].key)
         /\ path[t] \in Paths
<1>1. item[t] \in AnyItem /\ path[t] = IF item[t].canary THEN Marker ELSE item[t].key
  BY DEF Base, Types, StoreTypes, WorkInv, PathOf
<1> QED
  BY <1>1, ItemTypes, PathsAreNames, Zenon

\* The leases that have been granted are lease IDs.
LEMMA GrantedLeases ==
  ASSUME LeaseTypes
  PROVE  granted \in Nat /\ leases \subseteq LeaseIDs /\ alive \subseteq LeaseIDs
  BY LeasesNatural, SMT DEF LeaseTypes, LeaseIDs

\* The number of keys of a set that are attached to a lease is natural.
LEMMA AttachedFinite ==
  ASSUME NEW l, NEW K \in SUBSET Paths
  PROVE  /\ IsFiniteSet({k \in K : keys[k] = l}) /\ Cardinality({k \in K : keys[k] = l}) \in Nat
  BY PathsFinite, FS_Subset, FS_CardinalityType

\* The steps of the lease manager on behalf of a worker.
LEMMA LeaseBase ==
  ASSUME Base, NEW t \in Threads, LeaseStep(t) \/ LeaseFails(t)
  PROVE  Base'
<1>1. UNCHANGED <<storeVars, queueVars, caller, workVars, store>>
  BY DEF LeaseStep, LeaseFails
<1>2. StoreTypes' /\ QueueInv' /\ UNCHANGED <<workVars, item, val, processing>>
  BY <1>1, StoreFrame, QueueFrame DEF Base, Types, queueVars, workVars
<1>3. CASE GetAttached(t) /\ UNCHANGED sessionVars
  <2>1. LeaseTypes'
    BY <1>3, LeaseFrame DEF GetAttached, Base, Types
  <2>2. keys[path[t]] \in LeaseIDs
    BY <1>3, BusyItem DEF GetAttached, Base, Types, LeaseTypes
  <2>3. lease' \in [Threads -> {NoLease} \cup LeaseIDs] /\ val' \in [Threads -> Contents]
    BY <1>2, <1>3, <2>2 DEF GetAttached, Return, Base, Types, WorkTypes
  <2> QED
    BY <1>2, <1>3, <2>1, <2>3, Moves DEF Base, Types, GetAttached, Return, PCs
<1>4. CASE GetKnown(t) /\ UNCHANGED sessionVars
  <2>1. PICK l \in LeaseIDs : Attach(t, l)
    BY <1>4 DEF GetKnown
  <2>2. count[l] + 1 \in Nat
    BY SMT DEF Base, Types, LeaseTypes
  <2>3. count' \in [LeaseIDs -> Nat]
    BY <2>1, <2>2 DEF Attach, Base, Types, LeaseTypes
  <2>4. keys' \in [Paths -> {NoLease} \cup LeaseIDs]
    BY <2>1 DEF Attach, Base, Types, LeaseTypes
  <2>5. LeaseTypes'
    BY <1>4, <2>1, <2>3, <2>4 DEF Attach, Base, Types, LeaseTypes, sessionVars
  <2>6. lease' \in [Threads -> {NoLease} \cup LeaseIDs] /\ val' \in [Threads -> Contents]
    BY <1>2, <2>1 DEF Attach, Return, Base, Types, WorkTypes
  <2> QED
    BY <1>2, <1>4, <2>1, <2>5, <2>6, Moves DEF Base, Types, GetKnown, Attach, Return, PCs
<1>5. CASE GetNone(t) /\ UNCHANGED sessionVars
  <2>1. LeaseTypes'
    BY <1>5 DEF GetNone, Base, Types, LeaseTypes, sessionVars
  <2> QED
    BY <1>2, <1>5, <2>1, MovesOn DEF Base, Types, GetNone, PCs
<1>6. ASSUME NEW next \in {"lookup", "failed"}, Acquired(t, next), pc[t] = "acquiring",
             UNCHANGED <<path, lease>>
      PROVE  WorkTypes' /\ WorkInv' /\ CanaryInv'
  <2>1. \A u \in Threads : pc'[u] = IF u = t THEN next
                                    ELSE IF pc[u] = "waiting" THEN "lookup" ELSE pc[u]
    BY <1>6 DEF Acquired
  <2>2. WorkTypes'
    BY <1>2, <1>6 DEF Acquired, Base, Types, WorkTypes, PCs
  <2>3. \A u \in Threads : pc'[u] = "idle" <=> pc[u] = "idle"
    BY <1>6, <2>1
  <2>4. \A u \in Threads : pc'[u] \in {"delete", "release"} => pc'[u] = pc[u]
    BY <1>6, <2>1
  <2> QED
    BY <1>2, <1>6, <2>2, <2>3, <2>4 DEF Base, WorkInv, CanaryInv
<1>7. CASE NewSession(t)
  <2>1. granted + 1 \in 1..MaxLeases
    BY <1>7, LeasesNatural, SMT DEF NewSession, Base, Types, LeaseTypes
  <2>2. 1..granted \subseteq 1..(granted + 1) /\ granted + 1 \in 1..(granted + 1)
    BY <2>1, GrantedLeases, SMT DEF Base, Types
  <2>3. granted' \in 0..MaxLeases /\ granted' \in LeaseIDs
    BY <1>7, <2>1, SMT DEF NewSession, LeaseIDs
  <2>4. leases' \subseteq 1..granted' /\ alive' \subseteq 1..granted'
    BY <1>7, <2>2 DEF NewSession, Base, Types, LeaseTypes
  <2>5. LeaseTypes'
    BY <1>7, <2>3, <2>4 DEF NewSession, Acquired, Base, Types, LeaseTypes
  <2> QED
    BY <1>2, <1>6, <1>7, <2>5 DEF Base, Types, NewSession
<1>8. CASE NewSessionFails(t) /\ UNCHANGED sessionVars
  <2>1. LeaseTypes'
    BY <1>8 DEF NewSessionFails, Acquired, Base, Types, LeaseTypes, sessionVars
  <2> QED
    BY <1>2, <1>6, <1>8, <2>1 DEF Base, Types, NewSessionFails
<1>9. CASE WaitCancelled(t) /\ UNCHANGED sessionVars
  <2>1. LeaseTypes'
    BY <1>9, LeaseFrame DEF WaitCancelled, Base, Types
  <2> QED
    BY <1>2, <1>9, <2>1, MovesOn DEF Base, Types, WaitCancelled, PCs
<1> QED
  BY <1>3, <1>4, <1>5, <1>7, <1>8, <1>9 DEF LeaseStep, LeaseFails, GetSession

\* The requests to etcd and what a worker does around them.
LEMMA RequestBase ==
  ASSUME Base, NEW t \in Threads,
         \/ HandleKey(t) \/ HandleSync(t) \/ Put(t) \/ PutExpired(t) \/ RequestFails(t)
         \/ Delete(t) \/ Release(t) \/ Callbacks(t) \/ Unpend(t)
  PROVE  Base'
<1>1. QueueInv' /\ UNCHANGED <<path, item, processing, lease>>
  BY QueueFrame
  DEF HandleKey, HandleSync, Put, PutExpired, RequestFails, Delete, Release, Callbacks, Unpend,
      Base, queueVars, workVars
<1>2. CASE HandleKey(t)
  <2>1. item[t].key \in Names /\ item[t].canary = FALSE
    BY <1>2, BusyItem DEF HandleKey
  <2>2. LeaseTypes' /\ StoreTypes'
    BY <1>2, LeaseFrame, StoreFrame DEF HandleKey, Base, Types
  <2>3. val' \in [Threads -> Contents] /\ lease' \in [Threads -> {NoLease} \cup LeaseIDs]
    BY <1>1, <1>2, <2>1 DEF HandleKey, Base, Types, WorkTypes, StoreTypes, Contents
  <2>4. PICK p \in {"delete", "lookup"} : pc' = [pc EXCEPT ![t] = p]
    BY <1>2 DEF HandleKey
  <2> QED
    BY <1>1, <1>2, <2>1, <2>2, <2>3, <2>4, Moves DEF Base, Types, HandleKey, PCs
<1>3. CASE HandleSync(t)
  <2>1. LeaseTypes' /\ StoreTypes'
    BY <1>3, LeaseFrame, StoreFrame DEF HandleSync, Base, Types
  <2>2. val' \in [Threads -> Contents] /\ lease' \in [Threads -> {NoLease} \cup LeaseIDs]
    BY <1>1, <1>3 DEF HandleSync, Base, Types, WorkTypes, Contents
  <2>3. PICK p \in {"lookup", "failed"} : pc' = [pc EXCEPT ![t] = p]
    BY <1>3 DEF HandleSync
  <2> QED
    BY <1>1, <1>3, <2>1, <2>2, <2>3, Moves DEF Base, Types, HandleSync, PCs
<1>4. CASE Put(t)
  <2>1. LeaseTypes'
    BY <1>4, LeaseFrame DEF Put, Base, Types
  <2>2. [val |-> val[t], lease |-> lease[t]] \in [val : Contents, lease : {NoLease} \cup LeaseIDs]
    BY DEF Base, Types, WorkTypes
  <2>3. StoreTypes'
    BY <1>4, <2>2 DEF Put, Base, Types, StoreTypes, storeVars, queueVars
  <2>4. PICK p \in {"call", "ok", "failed"} : pc' = [pc EXCEPT ![t] = p]
    BY <1>4 DEF Put
  <2> QED
    BY <1>1, <1>4, <2>1, <2>3, <2>4, MovesOn DEF Base, Types, Put, PCs
<1>5. CASE PutExpired(t)
  <2>1. done' \subseteq LeaseIDs
    BY <1>5, GrantedLeases DEF PutExpired, CancelIfExpired, Base, Types, LeaseTypes
  <2>2. LeaseTypes' /\ StoreTypes'
    BY <1>5, <2>1, StoreFrame DEF PutExpired, Base, Types, LeaseTypes, elmVars
  <2> QED
    BY <1>1, <1>5, <2>2, MovesOn DEF Base, Types, PutExpired, PCs
<1>6. CASE RequestFails(t)
  <2>1. LeaseTypes' /\ StoreTypes'
    BY <1>6, LeaseFrame, StoreFrame DEF RequestFails, Base, Types
  <2> QED
    BY <1>1, <1>6, <2>1, MovesOn DEF Base, Types, RequestFails, PCs
<1>7. CASE Delete(t)
  <2>1. Absent \in [val : Contents, lease : {NoLease} \cup LeaseIDs]
    BY DEF Absent, Contents
  <2>2. LeaseTypes' /\ StoreTypes'
    BY <1>7, <2>1, LeaseFrame DEF Delete, Base, Types, StoreTypes, storeVars, queueVars
  <2>3. ~item[t].canary
    BY <1>7 DEF Delete, Base, CanaryInv
  <2>4. PICK p \in {"release", "failed"} : pc' = [pc EXCEPT ![t] = p]
    BY <1>7 DEF Delete
  <2> QED
    BY <1>1, <1>7, <2>2, <2>3, <2>4, MovesOn DEF Base, Types, Delete, PCs
<1>8. CASE Release(t)
  <2> DEFINE n(l) == Cardinality({k \in {path[t]} : keys[k] = l})
  <2>1. \A l \in LeaseIDs : n(l) \in Nat
    BY <1>8, BusyItem, AttachedFinite DEF Release
  <2>2. count' = [l \in LeaseIDs |-> IF count[l] >= n(l) THEN count[l] - n(l) ELSE 0]
    BY <1>8 DEF Release, ReleaseKeys
  <2> HIDE DEF n
  <2>3. count' \in [LeaseIDs -> Nat]
    BY <2>1, <2>2, SMT DEF Base, Types, LeaseTypes
  <2>4. keys' \in [Paths -> {NoLease} \cup LeaseIDs]
    BY <1>8 DEF Release, ReleaseKeys, Base, Types, LeaseTypes
  <2>5. LeaseTypes' /\ StoreTypes'
    BY <1>8, <2>3, <2>4, StoreFrame DEF Release, ReleaseKeys, Base, Types, LeaseTypes, sessionVars
  <2> QED
    BY <1>1, <1>8, <2>5, MovesOn DEF Base, Types, Release, PCs
<1>9. CASE Callbacks(t)
  <2>1. LeaseTypes' /\ StoreTypes'
    BY <1>9, LeaseFrame, StoreFrame DEF Callbacks, Base, Types
  <2> QED
    BY <1>1, <1>9, <2>1, MovesOn DEF Base, Types, Callbacks, PCs
<1>10. CASE Unpend(t)
  <2>1. LeaseTypes' /\ StoreTypes'
    BY <1>10, LeaseFrame DEF Unpend, Base, Types, StoreTypes, queueVars
  <2> QED
    BY <1>1, <1>10, <2>1, MovesOn DEF Base, Types, Unpend, PCs
<1> QED
  BY <1>2, <1>3, <1>4, <1>5, <1>6, <1>7, <1>8, <1>9, <1>10

\* A worker takes an item.
LEMMA GetBase ==
  ASSUME Base, NEW t \in Threads, Get(t)
  PROVE  Base'
<1> DEFINE i == Head(queue)
<1>1. queue \in Seq(AnyItem) /\ queue # <<>>
  BY DEF Get, Base, Types, StoreTypes
<1>2. /\ 1 \in 1..Len(queue) /\ i = queue[1] /\ i \in AnyItem
      /\ Tail(queue) \in Seq(AnyItem)
      /\ \A j \in 1..Len(Tail(queue)) : /\ j + 1 \in 1..Len(queue) /\ j + 1 # 1
                                        /\ Tail(queue)[j] = queue[j + 1]
      /\ \A j, l \in 1..Len(Tail(queue)) : j + 1 = l + 1 => j = l
  BY <1>1, SMT
<1> HIDE DEF i
<1>3. i \in dirty \ processing
  BY <1>2 DEF Base, QueueInv
<1>4. /\ queue' = Tail(queue) /\ dirty' = dirty \ {i} /\ processing' = processing \cup {i}
      /\ item' = [item EXCEPT ![t] = i]
      /\ path' = [path EXCEPT ![t] = PathOf(i)]
      /\ pc' = [pc EXCEPT ![t] = "got"] /\ pc[t] = "idle"
      /\ UNCHANGED <<elmVars, sessionVars, lease, storeVars, delayed, canaries, caller, val, store>>
  BY DEF Get, PathOf, i
<1>5. LeaseTypes'
  BY <1>4, LeaseFrame DEF Base, Types
<1>6. StoreTypes'
  BY <1>2, <1>4 DEF Base, Types, StoreTypes, storeVars
<1>7. QueueInv'
  <2>1. \A j \in 1..Len(queue') : queue'[j] \in dirty' \ processing'
    BY <1>2, <1>4 DEF Base, QueueInv
  <2>2. ASSUME NEW j \in 1..Len(queue'), NEW l \in 1..Len(queue'), queue'[j] = queue'[l]
        PROVE  j = l
    <3>1. queue[j + 1] = queue[l + 1] /\ j + 1 \in 1..Len(queue) /\ l + 1 \in 1..Len(queue)
      BY <1>2, <1>4, <2>2
    <3>2. j + 1 = l + 1
      BY <3>1 DEF Base, QueueInv
    <3> QED
      BY <1>2, <1>4, <3>2
  <2> QED
    BY <2>1, <2>2 DEF QueueInv
<1>8. PathOf(i) \in Paths
  BY <1>2, ItemTypes, PathsAreNames DEF PathOf
<1>9. WorkTypes'
  BY <1>2, <1>4, <1>8 DEF Base, Types, WorkTypes, PCs
<1>10. /\ pc'[t] = "got" /\ item'[t] = i /\ path'[t] = PathOf(i)
       /\ \A u \in Threads : u # t => pc'[u] = pc[u] /\ item'[u] = item[u] /\ path'[u] = path[u]
  BY <1>4 DEF Base, Types, WorkTypes
<1>11. \A u \in Threads : pc[u] # "idle" => item[u] # i
  BY <1>3 DEF Base, WorkInv
<1>12. WorkInv'
  <2>1. \A u \in Threads : pc'[u] # "idle" =>
          /\ item'[u] \in processing'
          /\ path'[u] = PathOf(item'[u])
    <3> TAKE u \in Threads
    <3>1. CASE u = t
      BY <1>4, <1>10, <3>1, SMT
    <3>2. CASE u # t
      BY <1>4, <1>10, <3>2, SMT DEF Base, WorkInv
    <3> QED
      BY <3>1, <3>2
  <2>2. \A u, w \in Threads : pc'[u] # "idle" /\ pc'[w] # "idle" /\ item'[u] = item'[w] => u = w
    BY <1>10, <1>11 DEF Base, WorkInv
  <2>3. \A u \in Threads : pc'[u] = "idle" => item'[u] = NoItem /\ path'[u] = NoPath
    BY <1>10 DEF Base, WorkInv
  <2> QED
    BY <2>1, <2>2, <2>3 DEF WorkInv
<1>13. CanaryInv'
  BY <1>10 DEF Base, CanaryInv
<1> QED
  BY <1>5, <1>6, <1>7, <1>9, <1>12, <1>13 DEF Base, Types

\* A worker is done with its item, which is queued again if it was added meanwhile.
LEMMA FinishBase ==
  ASSUME Base, NEW t \in Threads, Finish(t)
  PROVE  Base'
<1> DEFINE i == item[t]
<1>1. i \in AnyItem /\ i \in processing
  BY BusyItem DEF Finish, Base, WorkInv
<1>2. /\ processing' = processing \ {i}
      /\ queue' = IF i \in dirty THEN Append(queue, i) ELSE queue
      /\ dirty' = dirty /\ canaries' = canaries /\ delayed' \subseteq delayed \cup {i}
      /\ pc' = [pc EXCEPT ![t] = "idle"] /\ pc[t] # "idle"
      /\ item' = [item EXCEPT ![t] = NoItem] /\ path' = [path EXCEPT ![t] = NoPath]
      /\ lease' = [lease EXCEPT ![t] = NoLease] /\ val' = [val EXCEPT ![t] = NoValue]
      /\ UNCHANGED <<elmVars, sessionVars, storeVars, caller, store>>
  BY DEF Finish, Done, Retry, i
<1> HIDE DEF i
<1>3. LeaseTypes'
  BY <1>2, LeaseFrame DEF Base, Types
<1>4. \A j \in 1..Len(queue) : queue[j] # i
  BY <1>1 DEF Base, QueueInv
<1>5. queue' \in Seq(AnyItem) /\ QueueInv'
  <2>1. CASE i \notin dirty
    BY <1>2, <2>1 DEF Base, Types, StoreTypes, QueueInv
  <2>2. CASE i \in dirty
    <3>1. queue \in Seq(AnyItem) /\ queue' = Append(queue, i)
      BY <1>2, <2>2 DEF Base, Types, StoreTypes
    <3>2. /\ queue' \in Seq(AnyItem)
          /\ \A j \in 1..Len(queue) : queue'[j] = queue[j]
          /\ queue'[Len(queue) + 1] = i
          /\ \A j \in 1..Len(queue') : j \in 1..Len(queue) \/ j = Len(queue) + 1
      BY <1>1, <3>1, SMT
    <3>3. \A j \in 1..Len(queue') : queue'[j] \in dirty' \ processing'
      BY <1>2, <2>2, <3>2 DEF Base, QueueInv
    <3>4. \A j, l \in 1..Len(queue') : queue'[j] = queue'[l] => j = l
      BY <1>4, <3>2 DEF Base, QueueInv
    <3> QED
      BY <3>2, <3>3, <3>4 DEF QueueInv
  <2> QED
    BY <2>1, <2>2
<1>6. StoreTypes'
  BY <1>1, <1>2, <1>5 DEF Base, Types, StoreTypes, storeVars
<1>7. WorkTypes'
  BY <1>2 DEF Base, Types, WorkTypes, PCs, Contents
<1>8. /\ pc'[t] = "idle" /\ item'[t] = NoItem /\ path'[t] = NoPath
      /\ \A u \in Threads : u # t => pc'[u] = pc[u] /\ item'[u] = item[u] /\ path'[u] = path[u]
  BY <1>2 DEF Base, Types, WorkTypes
<1>9. \A u \in Threads : u # t /\ pc[u] # "idle" => item[u] # i
  BY <1>2 DEF Base, WorkInv, i
<1>10. WorkInv'
  <2>1. \A u \in Threads : pc'[u] # "idle" =>
          /\ item'[u] \in processing'
          /\ path'[u] = PathOf(item'[u])
    <3> TAKE u \in Threads
    <3>1. CASE u = t
      BY <1>8, <3>1
    <3>2. CASE u # t
      BY <1>2, <1>8, <1>9, <3>2, SMT DEF Base, WorkInv
    <3> QED
      BY <3>1, <3>2
  <2>2. \A u, w \in Threads : pc'[u] # "idle" /\ pc'[w] # "idle" /\ item'[u] = item'[w] => u = w
    BY <1>8 DEF Base, WorkInv
  <2>3. \A u \in Threads : pc'[u] = "idle" => item'[u] = NoItem /\ path'[u] = NoPath
    BY <1>8 DEF Base, WorkInv
  <2> QED
    BY <2>1, <2>2, <2>3 DEF WorkInv
<1>11. CanaryInv'
  BY <1>8 DEF Base, CanaryInv
<1> QED
  BY <1>3, <1>5, <1>6, <1>7, <1>10, <1>11 DEF Base, Types

\* Leases expire.
LEMMA ExpiryBase ==
  ASSUME Base, NEW l \in LeaseIDs, ServerExpire(l) \/ ClientExpire(l) \/ Expire(l)
  PROVE  Base'
<1>1. WorkTypes' /\ WorkInv' /\ CanaryInv' /\ QueueInv'
  BY WorkFrame, QueueFrame
  DEF Base, Types, ServerExpire, ClientExpire, SessionDone, Expire, WaitForExpiration, queueVars
<1>2. CASE ServerExpire(l)
  <2>1. Absent \in [val : Contents, lease : {NoLease} \cup LeaseIDs]
    BY DEF Absent, Contents
  <2>2. StoreTypes'
    BY <1>2, <2>1 DEF ServerExpire, Base, Types, StoreTypes, storeVars, queueVars
  <2>3. LeaseTypes'
    BY <1>2 DEF ServerExpire, Base, Types, LeaseTypes, elmVars
  <2> QED
    BY <1>1, <2>2, <2>3 DEF Base, Types
<1>3. CASE ClientExpire(l)
  <2>1. StoreTypes' /\ LeaseTypes'
    BY <1>3, StoreFrame DEF ClientExpire, SessionDone, Base, Types, LeaseTypes, elmVars
  <2> QED
    BY <1>1, <2>1 DEF Base, Types
<1>4. CASE Expire(l)
  <2>1. StoreTypes'
    BY <1>4, StoreFrame DEF Expire, Base, Types
  <2>2. keys' \in [Paths -> {NoLease} \cup LeaseIDs]
    BY <1>4 DEF Expire, WaitForExpiration, ForgetKeys, Base, Types, LeaseTypes
  <2>3. count' \in [LeaseIDs -> Nat]
    BY <1>4, SMT DEF Expire, WaitForExpiration, Base, Types, LeaseTypes
  <2>4. expiring' \in [LeaseIDs -> SUBSET Paths]
    BY <1>4 DEF Expire, WaitForExpiration, ExpiredKeys, Attached, Base, Types, LeaseTypes
  <2>5. LeaseTypes'
    BY <1>4, <2>2, <2>3, <2>4 DEF Expire, WaitForExpiration, Base, Types, LeaseTypes
  <2> QED
    BY <1>1, <2>1, <2>5 DEF Base, Types
<1> QED
  BY <1>2, <1>3, <1>4

\* The initial state.
LEMMA InitBase == Init => Base
<1> SUFFICES ASSUME Init PROVE Base
  OBVIOUS
<1>1. LeaseTypes
  <2>1. 0 \in 0..MaxLeases /\ 0 \in Nat
    BY LeasesNatural, SMT
  <2> QED
    BY <2>1 DEF Init, LeaseInit, LeaseTypes
<1>2. WorkTypes
  BY DEF Init, LeaseInit, WorkTypes, PCs, Contents
<1>3. StoreTypes
  <2>1. Absent \in [val : Contents, lease : {NoLease} \cup LeaseIDs]
    BY DEF Absent, Contents
  <2>2. queue \in Seq(AnyItem) /\ canaries \in Nat
    BY SMT DEF Init
  <2> QED
    BY <2>1, <2>2 DEF Init, StoreTypes, Calls
<1>4. QueueInv
  <2>1. 1..Len(queue) = {}
    BY SMT DEF Init
  <2> QED
    BY <2>1 DEF QueueInv
<1>5. WorkInv /\ CanaryInv
  BY DEF Init, LeaseInit, WorkInv, CanaryInv
<1> QED
  BY <1>1, <1>2, <1>3, <1>4, <1>5 DEF Base, Types

\* Base is inductive.
LEMMA BaseStep ==
  ASSUME Base, [Next]_vars
  PROVE  Base'
<1>1. CASE UNCHANGED vars
  BY <1>1, LeaseFrame, WorkFrame, StoreFrame, QueueFrame DEF vars, Base, Types, queueVars
<1>2. CASE Next
  BY <1>2, CallerBase, AddBase, LeaseBase, RequestBase, GetBase, FinishBase, ExpiryBase
  DEF Next, WorkerStep, CallerStep, ExpiryStep
<1> QED
  BY <1>1, <1>2

-----------------------------------------------------------------------------
(* The lease manager.                                                      *)

\* No worker starts or ends an acquisition.
LEMMA NoAcquisition ==
  ASSUME Base, OneAcquisition, acquiring' = acquiring,
         \/ pc' = pc
         \/ \E t \in Threads, p \in PCs \ {"acquiring", "waiting"} :
                pc[t] # "acquiring" /\ pc' = [pc EXCEPT ![t] = p]
  PROVE  OneAcquisition'
<1>1. \A t \in Threads : /\ pc'[t] = "acquiring" <=> pc[t] = "acquiring"
                         /\ pc'[t] = "waiting" => pc[t] = "waiting"
  BY DEF Base, Types, WorkTypes
<1> QED
  BY <1>1 DEF OneAcquisition

\* The goroutine that acquires a lease ends its acquisition.
LEMMA AcquisitionEnds ==
  ASSUME Base, OneAcquisition, NEW t \in Threads, NEW next \in {"lookup", "failed"},
         pc[t] = "acquiring", Acquired(t, next)
  PROVE  OneAcquisition'
<1>1. \A u \in Threads : pc'[u] = IF u = t THEN next
                                  ELSE IF pc[u] = "waiting" THEN "lookup" ELSE pc[u]
  BY DEF Acquired
<1>2. \A u \in Threads : pc'[u] # "acquiring" /\ pc'[u] # "waiting"
  BY <1>1 DEF OneAcquisition
<1> QED
  BY <1>2 DEF OneAcquisition, Acquired

\* OneAcquisition is inductive, given Base.
LEMMA AcquisitionStep ==
  ASSUME Base, OneAcquisition, [Next]_vars
  PROVE  OneAcquisition'
<1>1. CASE UNCHANGED vars
  BY <1>1, NoAcquisition DEF vars, elmVars, callVars
<1>2. ASSUME NEW c \in Callers, NEW k \in Names,
             (\E v \in Values : UpsertKey(c, k, v)) \/ DeleteKey(c, k) \/ Synced(c)
      PROVE  OneAcquisition'
  BY <1>2, NoAcquisition DEF UpsertKey, DeleteKey, Synced, elmVars, callVars
<1>3. ASSUME NEW c \in Callers, Synced(c)
      PROVE  OneAcquisition'
  BY <1>3, NoAcquisition DEF Synced, elmVars, callVars
<1>4. ASSUME NEW c \in Callers \cup LeaseIDs, CallerStep(c)
      PROVE  OneAcquisition'
  BY <1>4, NoAcquisition DEF CallerStep, UpsertLoad, UpsertPend, AddKey, SyncedAdd, elmVars, callVars
<1>5. ASSUME NEW i \in Items, DelayedAdd(i)
      PROVE  OneAcquisition'
  BY <1>5, NoAcquisition DEF DelayedAdd, elmVars, callVars
<1>6. ASSUME NEW l \in LeaseIDs, ServerExpire(l) \/ ClientExpire(l) \/ ExpiryStep(l)
      PROVE  OneAcquisition'
  <2>1. acquiring' = acquiring /\ pc' = pc
    BY <1>6 DEF ServerExpire, ClientExpire, SessionDone, ExpiryStep, Expire, WaitForExpiration,
                HandleExpiredLease, Reported, elmVars, callVars
  <2> QED
    BY <2>1, NoAcquisition
<1>7. ASSUME NEW t \in Threads, GetNone(t)
      PROVE  OneAcquisition'
  <2>1. /\ acquiring' = TRUE
        /\ pc'[t] = IF acquiring THEN "waiting" ELSE "acquiring"
        /\ \A u \in Threads : u # t => pc'[u] = pc[u]
        /\ pc[t] = "lookup"
    BY <1>7 DEF GetNone, Base, Types, WorkTypes
  <2>2. CASE acquiring
    BY <2>1, <2>2 DEF OneAcquisition
  <2>3. CASE ~acquiring
    BY <2>1, <2>3 DEF OneAcquisition
  <2> QED
    BY <2>2, <2>3
<1>8. ASSUME NEW t \in Threads, NewSession(t) \/ NewSessionFails(t)
      PROVE  OneAcquisition'
  BY <1>8, AcquisitionEnds DEF NewSession, NewSessionFails
<1>9. ASSUME NEW t \in Threads, GetAttached(t) \/ GetKnown(t) \/ WaitCancelled(t)
      PROVE  OneAcquisition'
  <2>1. PICK p \in {"leased", "failed"} : pc[t] # "acquiring" /\ pc' = [pc EXCEPT ![t] = p]
    BY <1>9 DEF GetAttached, GetKnown, Attach, Return, WaitCancelled
  <2>2. acquiring' = acquiring
    BY <1>9 DEF GetAttached, GetKnown, Attach, WaitCancelled, elmVars
  <2> QED
    BY <2>1, <2>2, NoAcquisition DEF PCs
<1>10. ASSUME NEW t \in Threads, Get(t) \/ HandleKey(t) \/ HandleSync(t) \/ Put(t)
       PROVE  OneAcquisition'
  <2>1. PICK p \in {"got", "delete", "lookup", "failed", "call", "ok"} :
             pc[t] # "acquiring" /\ pc' = [pc EXCEPT ![t] = p]
    BY <1>10 DEF Get, HandleKey, HandleSync, Put
  <2>2. acquiring' = acquiring
    BY <1>10 DEF Get, HandleKey, HandleSync, Put, elmVars
  <2> QED
    BY <2>1, <2>2, NoAcquisition DEF PCs
<1>11. ASSUME NEW t \in Threads, PutExpired(t) \/ RequestFails(t) \/ Delete(t) \/ Release(t)
       PROVE  OneAcquisition'
  <2>1. PICK p \in {"failed", "release", "ok"} :
             pc[t] # "acquiring" /\ pc' = [pc EXCEPT ![t] = p]
    BY <1>11 DEF PutExpired, RequestFails, Delete, Release
  <2>2. acquiring' = acquiring
    BY <1>11 DEF PutExpired, RequestFails, Delete, Release, ReleaseKeys, elmVars
  <2> QED
    BY <2>1, <2>2, NoAcquisition DEF PCs
<1>12. ASSUME NEW t \in Threads, Callbacks(t) \/ Unpend(t) \/ Finish(t)
       PROVE  OneAcquisition'
  <2>1. PICK p \in {"ok", "done", "idle"} :
             pc[t] # "acquiring" /\ pc' = [pc EXCEPT ![t] = p]
    BY <1>12 DEF Callbacks, Unpend, Finish
  <2>2. acquiring' = acquiring
    BY <1>12 DEF Callbacks, Unpend, Finish, elmVars
  <2> QED
    BY <2>1, <2>2, NoAcquisition DEF PCs
<1> QED
  BY <1>1, <1>2, <1>3, <1>4, <1>5, <1>6, <1>7, <1>8, <1>9, <1>10, <1>11, <1>12
  DEF Next, WorkerStep, LeaseStep, LeaseFails, GetSession

\* A lease ID is not NoLease.
LEMMA LeaseIsLease == NoLease \notin LeaseIDs
  BY LeasesNatural, SMT DEF NoLease, LeaseIDs

\* The keys that are attached to a lease are finitely many.
LEMMA AttachedSets ==
  ASSUME NEW l
  PROVE  IsFiniteSet(Attached(l)) /\ Cardinality(Attached(l)) \in Nat
  BY PathsFinite, FS_Subset, FS_CardinalityType DEF Attached

\* GetSession attaches a key.
LEMMA AttachCount ==
  ASSUME Base, CountInv, NEW t \in Threads, GetKnown(t)
  PROVE  CountInv'
<1>1. PICK l \in LeaseIDs : HasRoom(l) /\ Attach(t, l)
  BY DEF GetKnown
<1> DEFINE k == path[t]
<1>2. k \in Paths /\ keys[k] = NoLease
  BY BusyItem DEF GetKnown
<1> HIDE DEF k
<1>3. /\ count' = [count EXCEPT ![l] = @ + 1] /\ keys' = [keys EXCEPT ![k] = l]
      /\ leases' = leases
  BY <1>1 DEF Attach, k
<1>4. l \in leases /\ count[l] < Limit
  BY <1>1 DEF HasRoom
<1>5. \A m \in Paths : keys'[m] = IF m = k THEN l ELSE keys[m]
  BY <1>2, <1>3 DEF Base, Types, LeaseTypes
<1>6. ASSUME NEW m \in LeaseIDs
      PROVE  count'[m] = Cardinality(Attached(m)') /\ count'[m] <= Limit
  <2>1. CASE m = l
    <3>1. Attached(m)' = Attached(m) \cup {k}
      BY <1>2, <1>5, <2>1 DEF Attached
    <3>2. k \notin Attached(m)
      BY <1>2, LeaseIsLease DEF Attached
    <3>3. Cardinality(Attached(m)') = Cardinality(Attached(m)) + 1
      BY <3>1, <3>2, AttachedSets, FS_AddElement
    <3>4. count'[m] = count[m] + 1
      BY <1>3, <2>1 DEF Base, Types, LeaseTypes
    <3>5. count[m] \in Nat /\ count[m] = Cardinality(Attached(m))
      BY DEF Base, Types, LeaseTypes, CountInv
    <3> QED
      BY <1>4, <2>1, <3>3, <3>4, <3>5, LimitPositive, SMT
  <2>2. CASE m # l
    <3>1. Attached(m)' = Attached(m)
      BY <1>2, <1>5, <2>2, LeaseIsLease DEF Attached
    <3>2. count'[m] = count[m]
      BY <1>3, <2>2 DEF Base, Types, LeaseTypes
    <3> QED
      BY <3>1, <3>2 DEF CountInv
  <2> QED
    BY <2>1, <2>2
<1>7. \A m \in Paths : keys'[m] # NoLease => keys'[m] \in leases'
  BY <1>3, <1>4, <1>5, SMT DEF CountInv
<1> QED
  BY <1>6, <1>7 DEF CountInv

\* Release detaches a key.
LEMMA ReleaseCount ==
  ASSUME Base, CountInv, NEW t \in Threads, Release(t)
  PROVE  CountInv'
<1> DEFINE k == path[t]
           N(l) == {m \in {k} : keys[m] = l}
<1>1. k \in Paths
  BY BusyItem DEF Release
<1>2. /\ keys' = [m \in Paths |-> IF m \in {k} THEN NoLease ELSE keys[m]]
      /\ count' = [l \in LeaseIDs |-> IF count[l] >= Cardinality(N(l))
                                      THEN count[l] - Cardinality(N(l)) ELSE 0]
      /\ leases' = leases
  BY DEF Release, ReleaseKeys
<1> HIDE DEF k
<1>3. ASSUME NEW l \in LeaseIDs
      PROVE  count'[l] = Cardinality(Attached(l)') /\ count'[l] <= Limit
  <2>1. count[l] \in Nat /\ count[l] = Cardinality(Attached(l)) /\ count[l] <= Limit
    BY DEF Base, Types, LeaseTypes, CountInv
  <2>2. CASE keys[k] = l
    <3>1. N(l) = {k} /\ Cardinality(N(l)) = 1
      BY <2>2, FS_Singleton
    <3>2. Attached(l)' = Attached(l) \ {k} /\ k \in Attached(l)
      BY <1>1, <1>2, <2>2, LeaseIsLease DEF Attached
    <3>3. Cardinality(Attached(l)') = Cardinality(Attached(l)) - 1
      BY <3>2, AttachedSets, FS_RemoveElement
    <3>4. Cardinality(Attached(l)) # 0
      BY <3>2, AttachedSets, FS_EmptySet
    <3> HIDE DEF N
    <3> QED
      BY <1>2, <2>1, <3>1, <3>3, <3>4, LimitPositive, SMT
  <2>3. CASE keys[k] # l
    <3>1. N(l) = {} /\ Cardinality(N(l)) = 0
      BY <2>3, FS_EmptySet
    <3>2. Attached(l)' = Attached(l)
      BY <1>1, <1>2, <2>3, LeaseIsLease DEF Attached
    <3> HIDE DEF N
    <3> QED
      BY <1>2, <2>1, <3>1, <3>2, SMT
  <2> QED
    BY <2>2, <2>3
<1>4. \A m \in Paths : keys'[m] # NoLease => keys'[m] \in leases'
  BY <1>2 DEF CountInv
<1> QED
  BY <1>3, <1>4 DEF CountInv

\* waitForExpiration detaches all keys of a lease.
LEMMA ExpireCount ==
  ASSUME Base, CountInv, NEW l \in LeaseIDs, Expire(l)
  PROVE  CountInv'
<1>1. /\ keys' = [k \in Paths |-> IF keys[k] = l THEN NoLease ELSE keys[k]]
      /\ count' = [count EXCEPT ![l] = 0]
      /\ leases' = leases \ {l}
  BY DEF Expire, WaitForExpiration, ForgetKeys
<1>2. ASSUME NEW m \in LeaseIDs
      PROVE  count'[m] = Cardinality(Attached(m)') /\ count'[m] <= Limit
  <2>1. CASE m = l
    <3>1. Attached(m)' = {}
      BY <1>1, <2>1, LeaseIsLease DEF Attached
    <3>2. count'[m] = 0
      BY <1>1, <2>1 DEF Base, Types, LeaseTypes
    <3> QED
      BY <3>1, <3>2, FS_EmptySet, LimitPositive, SMT
  <2>2. CASE m # l
    <3>1. \A k \in Paths : keys'[k] = m <=> keys[k] = m
      BY <1>1, <2>2, LeaseIsLease, SMT
    <3>2. Attached(m)' = Attached(m)
      BY <3>1 DEF Attached
    <3>3. count'[m] = count[m]
      BY <1>1, <2>2 DEF Base, Types, LeaseTypes
    <3> QED
      BY <3>2, <3>3 DEF CountInv
  <2> QED
    BY <2>1, <2>2
<1>3. \A k \in Paths : keys'[k] # NoLease => keys'[k] \in leases'
  BY <1>1 DEF CountInv
<1> QED
  BY <1>2, <1>3 DEF CountInv

\* The leases, their counts and the keys attached to them stay; a lease may be new.
LEMMA CountFrame ==
  ASSUME CountInv, UNCHANGED <<count, keys>>, leases \subseteq leases'
  PROVE  CountInv'
  BY DEF CountInv, Attached

\* CountInv is inductive, given Base.
LEMMA CountStep ==
  ASSUME Base, CountInv, [Next]_vars
  PROVE  CountInv'
<1>1. CASE UNCHANGED vars
  BY <1>1, CountFrame DEF vars, elmVars
<1>2. ASSUME NEW c \in Callers, NEW k \in Names,
             (\E v \in Values : UpsertKey(c, k, v)) \/ DeleteKey(c, k)
      PROVE  CountInv'
  BY <1>2, CountFrame DEF UpsertKey, DeleteKey, elmVars
<1>3. ASSUME NEW c \in Callers, Synced(c)
      PROVE  CountInv'
  BY <1>3, CountFrame DEF Synced, elmVars
<1>4. ASSUME NEW c \in Callers \cup LeaseIDs, CallerStep(c)
      PROVE  CountInv'
  BY <1>4, CountFrame DEF CallerStep, UpsertLoad, UpsertPend, AddKey, SyncedAdd, elmVars
<1>5. ASSUME NEW i \in Items, DelayedAdd(i)
      PROVE  CountInv'
  BY <1>5, CountFrame DEF DelayedAdd, elmVars
<1>6. ASSUME NEW l \in LeaseIDs, ServerExpire(l) \/ ClientExpire(l)
      PROVE  CountInv'
  BY <1>6, CountFrame DEF ServerExpire, ClientExpire, SessionDone, elmVars
<1>7. ASSUME NEW l \in LeaseIDs, ExpiryStep(l)
      PROVE  CountInv'
  BY <1>7, CountFrame, ExpireCount DEF ExpiryStep, HandleExpiredLease, Reported, elmVars
<1>8. ASSUME NEW t \in Threads, LeaseStep(t) \/ LeaseFails(t)
      PROVE  CountInv'
  <2>1. CASE GetKnown(t)
    BY <2>1, AttachCount
  <2>2. CASE NewSession(t)
    BY <2>2, CountFrame DEF NewSession
  <2>3. CASE GetAttached(t) \/ GetNone(t) \/ NewSessionFails(t) \/ WaitCancelled(t)
    BY <2>3, CountFrame DEF GetAttached, GetNone, NewSessionFails, WaitCancelled, elmVars
  <2> QED
    BY <1>8, <2>1, <2>2, <2>3 DEF LeaseStep, LeaseFails, GetSession
<1>9. ASSUME NEW t \in Threads, Release(t)
      PROVE  CountInv'
  BY <1>9, ReleaseCount
<1>10. ASSUME NEW t \in Threads, Get(t) \/ HandleKey(t) \/ HandleSync(t) \/ Put(t) \/ PutExpired(t)
       PROVE  CountInv'
  BY <1>10, CountFrame DEF Get, HandleKey, HandleSync, Put, PutExpired, elmVars
<1>11. ASSUME NEW t \in Threads,
              RequestFails(t) \/ Delete(t) \/ Callbacks(t) \/ Unpend(t) \/ Finish(t)
       PROVE  CountInv'
  BY <1>11, CountFrame DEF RequestFails, Delete, Callbacks, Unpend, Finish, elmVars
<1> QED
  BY <1>1, <1>2, <1>3, <1>4, <1>5, <1>6, <1>7, <1>8, <1>9, <1>10, <1>11 DEF Next, WorkerStep

\* ExpiringInv is inductive, given Base: a lease is known once in its life.
LEMMA ExpiringStep ==
  ASSUME Base, ExpiringInv, [Next]_vars
  PROVE  ExpiringInv'
<1>1. CASE UNCHANGED <<expiring, granted, leases>>
  BY <1>1 DEF ExpiringInv
<1>2. ASSUME NEW t \in Threads, NewSession(t)
      PROVE  ExpiringInv'
  <2>1. expiring' = expiring /\ granted' = granted + 1 /\ leases' = leases \cup {granted'}
    BY <1>2 DEF NewSession
  <2>2. granted \in Nat
    BY GrantedLeases DEF Base, Types
  <2> QED
    BY <2>1, <2>2, SMT DEF ExpiringInv
<1>3. ASSUME NEW l \in LeaseIDs, Expire(l)
      PROVE  ExpiringInv'
  <2>1. /\ granted' = granted /\ leases' = leases \ {l} /\ l \in leases
        /\ expiring' = [expiring EXCEPT ![l] = ExpiredKeys(l)]
    BY <1>3 DEF Expire, WaitForExpiration
  <2>2. l \in 1..granted
    BY <2>1 DEF Base, Types, LeaseTypes
  <2>3. \A m \in LeaseIDs : m # l => expiring'[m] = expiring[m]
    BY <2>1 DEF Base, Types, LeaseTypes
  <2> QED
    BY <2>1, <2>2, <2>3 DEF ExpiringInv
<1>4. ASSUME NEW l \in LeaseIDs, NEW k \in Paths, HandleExpiredLease(l, k)
      PROVE  ExpiringInv'
  <2>1. /\ granted' = granted /\ leases' = leases
        /\ k \in expiring[l] /\ expiring' = [expiring EXCEPT ![l] = @ \ {k}]
    BY <1>4 DEF HandleExpiredLease, Reported, elmVars
  <2>2. \A m \in LeaseIDs : m # l => expiring'[m] = expiring[m]
    BY <2>1 DEF Base, Types, LeaseTypes
  <2> QED
    BY <2>1, <2>2 DEF ExpiringInv
<1>5. CASE UNCHANGED vars
  BY <1>1, <1>5 DEF vars, elmVars, sessionVars
<1>6. ASSUME NEW c \in Callers, NEW k \in Names,
             (\E v \in Values : UpsertKey(c, k, v)) \/ DeleteKey(c, k)
      PROVE  ExpiringInv'
  BY <1>1, <1>6 DEF UpsertKey, DeleteKey, elmVars, sessionVars
<1>7. ASSUME NEW c \in Callers, Synced(c)
      PROVE  ExpiringInv'
  BY <1>1, <1>7 DEF Synced, elmVars, sessionVars
<1>8. ASSUME NEW c \in Callers \cup LeaseIDs, CallerStep(c)
      PROVE  ExpiringInv'
  BY <1>1, <1>8 DEF CallerStep, UpsertLoad, UpsertPend, AddKey, SyncedAdd, elmVars, sessionVars
<1>9. ASSUME NEW i \in Items, DelayedAdd(i)
      PROVE  ExpiringInv'
  BY <1>1, <1>9 DEF DelayedAdd, elmVars, sessionVars
<1>10. ASSUME NEW l \in LeaseIDs, ServerExpire(l) \/ ClientExpire(l)
       PROVE  ExpiringInv'
  BY <1>1, <1>10 DEF ServerExpire, ClientExpire, SessionDone, elmVars
<1>11. ASSUME NEW t \in Threads, LeaseFails(t) \/ (GetSession(t) /\ UNCHANGED sessionVars)
       PROVE  ExpiringInv'
  <2>1. UNCHANGED <<expiring, granted>>
    BY <1>11 DEF LeaseFails, sessionVars
  <2>2. UNCHANGED leases
    BY <1>11 DEF LeaseFails, NewSessionFails, WaitCancelled, GetSession, GetAttached, GetKnown,
                 Attach, GetNone, elmVars
  <2> QED
    BY <1>1, <2>1, <2>2
<1>12. ASSUME NEW t \in Threads, Get(t) \/ HandleKey(t) \/ HandleSync(t) \/ Put(t) \/ PutExpired(t)
       PROVE  ExpiringInv'
  BY <1>1, <1>12 DEF Get, HandleKey, HandleSync, Put, PutExpired, elmVars, sessionVars
<1>13. ASSUME NEW t \in Threads, \/ RequestFails(t) \/ Delete(t) \/ Release(t)
                                 \/ Callbacks(t) \/ Unpend(t) \/ Finish(t)
       PROVE  ExpiringInv'
  BY <1>1, <1>13 DEF RequestFails, Delete, Release, ReleaseKeys, Callbacks, Unpend, Finish,
                     elmVars, sessionVars
<1> QED
  BY <1>2, <1>3, <1>4, <1>5, <1>6, <1>7, <1>8, <1>9, <1>10, <1>11, <1>12, <1>13
  DEF Next, WorkerStep, LeaseStep, ExpiryStep

-----------------------------------------------------------------------------
(* The theorems.                                                           *)

\* The lease manager's invariant holds at the start.
LEMMA InitLeases == Init => LeaseInv
<1> SUFFICES ASSUME Init PROVE LeaseInv
  OBVIOUS
<1>1. ExpiringInv /\ OneAcquisition
  BY DEF Init, LeaseInit, ExpiringInv, OneAcquisition
<1>2. \A l \in LeaseIDs : Attached(l) = {} /\ count[l] = 0
  BY LeaseIsLease DEF Init, LeaseInit, Attached
<1>3. 0 <= Limit
  BY LimitPositive, SMT
<1>4. \A k \in Paths : keys[k] = NoLease
  BY DEF Init, LeaseInit
<1> QED
  BY <1>1, <1>2, <1>3, <1>4, FS_EmptySet DEF LeaseInv, CountInv

\* Types, queue, workers and leases: the invariant the other theorems rest on.
THEOREM StoreInvariant == Spec => [](Base /\ LeaseInv)
<1>1. Init => Base /\ LeaseInv
  BY InitBase, InitLeases
<1>2. Base /\ LeaseInv /\ [Next]_vars => (Base /\ LeaseInv)'
  BY BaseStep, CountStep, AcquisitionStep, ExpiringStep DEF LeaseInv
<1> QED
  BY <1>1, <1>2, PTL DEF Spec

\* The variables keep their types, whatever fails and expires; the count of a
\* lease is never negative.
THEOREM TypesHold == Spec => []TypeOK
<1>1. Base => TypeOK
  <2> SUFFICES ASSUME Base PROVE TypeOK
    OBVIOUS
  <2>1. \A k \in Paths : store[k].lease \in {NoLease} \cup LeaseIDs
    BY DEF Base, Types, StoreTypes
  <2>2. granted \in Nat /\ leases \subseteq LeaseIDs /\ alive \subseteq LeaseIDs
    BY GrantedLeases DEF Base, Types
  <2> QED
    BY <2>1, <2>2 DEF TypeOK, Base, Types, LeaseTypes, WorkTypes, StoreTypes
<1> QED
  BY <1>1, StoreInvariant, PTL

\* A lease counts exactly the keys attached to it and never more than the
\* limit, and GetSession never meets a key whose lease is not known.
THEOREM LeaseCountsHold == Spec => []LeaseCounts
<1>1. Base /\ LeaseInv => LeaseCounts
  BY GrantedLeases DEF LeaseInv, CountInv, LeaseCounts, Base, Types
<1> QED
  BY <1>1, StoreInvariant, PTL

\* At most one goroutine acquires a lease, and none waits for an acquisition
\* that nobody makes.
THEOREM OneAcquisitionHolds == Spec => []OneAcquisition
<1>1. LeaseInv => OneAcquisition
  BY DEF LeaseInv
<1> QED
  BY <1>1, StoreInvariant, PTL

=============================================================================
