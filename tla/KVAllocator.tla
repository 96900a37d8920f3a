---------------------------- MODULE KVAllocator -----------------------------
(***************************************************************************)
(* The distributed identity allocator in kvstore mode: the agents          *)
(* (pkg/allocator), the layout of identities in etcd                       *)
(* (pkg/kvstore/allocator), the kvstore locks and leases they rely on, and *)
(* the operator's garbage collector (operator/identitygc).                 *)
(*                                                                         *)
(* An identity is a master key  id/<ID> -> key  plus, for every node that  *)
(* uses it, a slave key  value/<key>/<node> -> ID  attached to the lease   *)
(* of that node.  Agents allocate under a kvstore lock of the key; each    *)
(* watches the master keys and keeps a cache of them; the operator deletes *)
(* the master keys that had no slave key in two successive rounds.         *)
(*                                                                         *)
(* Every kvstore request is a step of its own.  Code between two requests  *)
(* runs in the step of the request before it, unless it takes a mutex that *)
(* another goroutine can hold across a request.                            *)
(***************************************************************************)
EXTENDS Naturals, Sequences, FiniteSets

CONSTANTS
    Node, Key, ID,
    Thread, NodeOf,       \* goroutines that call Allocate and Release, and where they run
    NoKey, NoID, NoOne,   \* an absent map entry, a free lock
    Orphan,               \* the holder of a lock whose owner has restarted
    GCEnabled,            \* whether the operator collects identities
    SyncNode,             \* the nodes whose allocator syncs its local keys (no WithoutGC)
    MaxRefs,              \* bound: references to a key held by the callers of one node
    MaxAttempts,          \* maxAllocAttempts
    MaxRev,               \* bound: creations of one master key
    MaxFaults             \* bound: request errors, lease expiries and restarts

ASSUME ConstantsAssumption ==
    /\ NodeOf \in [Thread -> Node]
    /\ NoKey \notin Key
    /\ NoID \notin ID
    /\ NoOne \notin Thread \cup {Orphan} \cup Node
    /\ Orphan \notin Thread
    /\ Thread \cap Node = {}
    /\ GCEnabled \in BOOLEAN
    /\ SyncNode \subseteq Node
    /\ {MaxRefs, MaxAttempts, MaxRev, MaxFaults} \subseteq Nat

VARIABLES
    \* etcd
    master,    \* the master keys: [ID -> Key or NoKey]
    rev,       \* ModRevision of a master key: how many times it was created
    slave,     \* the slave keys: [Node -> [Key -> ID or NoID]]
    orphan,    \* the slave keys of a node still attached to the lease of its previous run
    kvLock,    \* the holder of the lock of a key
    events,    \* per node, the watch events not yet handled
    \* one allocator per node
    cache,     \* mainCache
    pool,      \* idPool
    local,     \* localKeys
    mutex,     \* the holder of slaveKeysMutex: a thread, the node's syncer, or NoOne
    thr,       \* the threads calling Allocate and Release
    sync,      \* the local key sync goroutine
    prot,      \* the sync-identity controllers of the master key protection
    refs,      \* references to a key held by the callers of Allocate
    \* the operator
    gc,
    \* how many faults have happened
    faults

kvVars == <<master, rev, slave, orphan, kvLock, events>>
vars == <<master, rev, slave, orphan, kvLock, events, cache, pool, local, mutex,
          thr, sync, prot, refs, gc, faults>>

Pool == INSTANCE IDPool
LK == INSTANCE LocalKeys
Cache == INSTANCE AllocatorCache

MaybeKey == Key \cup {NoKey}
MaybeID == ID \cup {NoID}

Event == [typ : {"upsert", "delete"}, id : ID, key : Key]

\* The program counters of a thread, and those at which it holds the local and
\* kvstore lock of its key, or the slaveKeysMutex of its node.
ThreadPC == {"idle", "lock", "get", "reserve", "remaster", "reslave", "check",
             "create", "acquire", "unlock", "insert", "retry", "release", "delslave"}
LockedPC == {"get", "reserve", "remaster", "reslave", "check", "create", "acquire",
             "unlock"}
MutexPC == {"remaster", "reslave", "check", "create", "acquire", "delslave"}

IdleThread == [pc |-> "idle", key |-> NoKey, val |-> NoID, new |-> FALSE, try |-> 0]
IdleSync == [pc |-> "idle", id |-> NoID, key |-> NoKey, todo |-> {}]
NoController == [pc |-> "off", key |-> NoKey]
GCEntry == [id : ID, key : Key, rev : Nat]
NoMarks == [i \in ID |-> 0]

TypeOK ==
    /\ master \in [ID -> MaybeKey]
    /\ rev \in [ID -> Nat]
    /\ slave \in [Node -> [Key -> MaybeID]]
    /\ orphan \in [Node -> SUBSET Key]
    /\ kvLock \in [Key -> Thread \cup {NoOne, Orphan}]
    /\ events \in [Node -> Seq(Event)]
    /\ cache \in [Node -> Cache!CacheType]
    /\ pool \in [Node -> Pool!PoolType]
    /\ local \in [Node -> LK!LocalKeysType]
    /\ mutex \in [Node -> Thread \cup Node \cup {NoOne}]
    /\ thr \in [Thread -> [pc : ThreadPC, key : MaybeKey, val : MaybeID,
                           new : BOOLEAN, try : Nat]]
    /\ sync \in [Node -> [pc : {"idle", "next", "master", "slave", "check", "lock", "del"},
                          id : MaybeID, key : MaybeKey, todo : SUBSET (ID \X Key)]]
    /\ prot \in [Node -> [ID -> [pc : {"off", "run", "slave"}, key : MaybeKey]]]
    /\ refs \in [Node -> [Key -> Nat]]
    /\ gc \in [pc : {"idle", "next", "del"}, todo : SUBSET GCEntry, cur : SUBSET GCEntry,
               prev : [ID -> Nat], stale : [ID -> Nat]]
    /\ faults \in 0 .. MaxFaults

Init ==
    /\ master = [i \in ID |-> NoKey]
    /\ rev = [i \in ID |-> 0]
    /\ slave = [n \in Node |-> [k \in Key |-> NoID]]
    /\ orphan = [n \in Node |-> {}]
    /\ kvLock = [k \in Key |-> NoOne]
    /\ events = [n \in Node |-> << >>]
    /\ cache = [n \in Node |-> [ids |-> [i \in ID |-> NoKey], keys |-> [k \in Key |-> NoID]]]
    /\ pool = [n \in Node |-> Pool!newIDCache]
    /\ local = [n \in Node |-> LK!newLocalKeys]
    /\ mutex = [n \in Node |-> NoOne]
    /\ thr = [t \in Thread |-> IdleThread]
    /\ sync = [n \in Node |-> IdleSync]
    /\ prot = [n \in Node |-> [i \in ID |-> NoController]]
    /\ refs = [n \in Node |-> [k \in Key |-> 0]]
    /\ gc = [pc |-> "idle", todo |-> {}, cur |-> {}, prev |-> NoMarks, stale |-> NoMarks]
    /\ faults = 0

-----------------------------------------------------------------------------
(***************************************************************************)
(* Requests to etcd.  A request may be answered ("ok"), fail without       *)
(* effect ("fail"), or take effect while its answer is lost and the client *)
(* reports an error ("lost").                                              *)
(***************************************************************************)
Outcome == {"ok", "fail", "lost"}
ReadOutcome == {"ok", "fail"}

Answer(o) ==
    /\ o # "ok" => faults < MaxFaults
    /\ faults' = IF o = "ok" THEN faults ELSE faults + 1

\* Every node watches the master keys.
Notify(e) == events' = [n \in Node |-> Append(events[n], e)]

\* CreateOnly of a master key, when its conditions hold.
PutMaster(id, k) ==
    /\ master' = [master EXCEPT ![id] = k]
    /\ rev' = [rev EXCEPT ![id] = @ + 1]
    /\ Notify([typ |-> "upsert", id |-> id, key |-> k])

\* CreateOnly of a master key that must not exist, for a request with outcome o.
CreateOnlyMaster(o, id, k) ==
    IF o # "fail" /\ master[id] = NoKey
    THEN PutMaster(id, k)
    ELSE UNCHANGED <<master, rev, events>>

\* Mutant of PutSlave: the arguments are swapped.
PutSlaveSwapped(n, k, id) ==
    /\ slave' = [slave EXCEPT ![n][k] = k]
    /\ orphan' = [orphan EXCEPT ![n] = @ \ {k}]

\* Mutant of PutSlave: an existing key stays with the lease of the previous run.
PutSlaveOldLease(n, k, id) ==
    /\ slave' = [slave EXCEPT ![n][k] = id]
    /\ UNCHANGED orphan

\* Put of the slave key, attached to the current lease of the node.
PutSlave(n, k, id) ==
    /\ slave' = [slave EXCEPT ![n][k] = id]
    /\ orphan' = [orphan EXCEPT ![n] = @ \ {k}]

\* CreateOnly of a slave key.
CreateOnlySlave(o, n, k, id) ==
    IF o # "fail" /\ slave[n][k] = NoID
    THEN PutSlave(n, k, id)
    ELSE UNCHANGED <<slave, orphan>>

\* kvstoreBackend.Get and GetIfLocked: the identifier of any slave key of k.
Found(k) ==
    LET ids == {slave[n][k] : n \in Node} \ {NoID}
    IN  IF ids = {} THEN {NoID} ELSE ids

-----------------------------------------------------------------------------
(***************************************************************************)
(* Allocate and lockedAllocate.                                            *)
(***************************************************************************)
Goto(t, pc) == thr' = [thr EXCEPT ![t].pc = pc]

\* Mutant of Return: slaveKeysMutex stays locked.
ReturnLocked(t, val) ==
    /\ thr' = [thr EXCEPT ![t].pc = "unlock", ![t].val = val]
    /\ UNCHANGED mutex

\* lockedAllocate returns: slaveKeysMutex is unlocked, then the kvstore lock.
Return(t, val) ==
    /\ thr' = [thr EXCEPT ![t].pc = "unlock", ![t].val = val]
    /\ mutex' = [mutex EXCEPT ![NodeOf[t]] = NoOne]

\* The mutex of the cache, which a master key protection controller holds
\* across its requests.
CacheUnlocked(n) == \A i \in ID : prot[n][i].pc # "slave"

Holds(t) == kvLock[thr[t].key] = t

\* An attempt of Allocate starts with localKeys.use, and goes on with
\* lockedAllocate if the key is not in use on the node.
Attempt(t, k, try) ==
    LET n == NodeOf[t]
        hit == LK!useHit(local[n], k)
    IN  /\ local' = IF hit THEN [local EXCEPT ![n] = LK!useKey(@, k)] ELSE local
        /\ thr' = [thr EXCEPT ![t] =
                     [IdleThread EXCEPT !.pc = IF hit THEN "insert" ELSE "lock",
                                        !.val = IF hit THEN LK!lookupKey(local[n], k)
                                                       ELSE NoID,
                                        !.key = k, !.try = try]]

\* Allocate is called.
Allocate(t, k) ==
    LET n == NodeOf[t]
        pending == {u \in Thread : NodeOf[u] = n /\ thr[u].key = k}
    IN  /\ thr[t].pc = "idle"
        /\ refs[n][k] + Cardinality(pending) < MaxRefs
        /\ Attempt(t, k, 1)
        /\ UNCHANGED <<kvVars, cache, pool, mutex, sync, prot, refs, gc, faults>>

\* backend.Lock: the path lock of the process, then the lock in etcd.
Lock(t) ==
    LET k == thr[t].key
    IN  /\ thr[t].pc = "lock"
        /\ \A u \in Thread : /\ NodeOf[u] = NodeOf[t]
                             /\ thr[u].key = k
                             => thr[u].pc \notin LockedPC
        /\ kvLock[k] = NoOne
        /\ kvLock' = [kvLock EXCEPT ![k] = t]
        /\ Goto(t, "get")
        /\ UNCHANGED <<master, rev, slave, orphan, events, cache, pool, local, mutex,
                       sync, prot, refs, gc, faults>>

\* backend.Lock fails: the lock is not free in time, or the request fails.
LockTimeout(t) ==
    /\ thr[t].pc = "lock"
    /\ Goto(t, "retry")
    /\ UNCHANGED <<kvVars, cache, pool, local, mutex, sync, prot, refs, gc, faults>>

\* GetIfLocked: from the cache, else from the slave keys if the lock still holds.
GetIfLocked(t) ==
    LET n == NodeOf[t]
        k == thr[t].key
        hit == cache[n].keys[k]
    IN  /\ thr[t].pc = "get"
        /\ CacheUnlocked(n)
        /\ \E o \in ReadOutcome, v \in Found(k) :
             /\ Answer(o)
             /\ hit # NoID => o = "ok"
             /\ thr' = [thr EXCEPT ![t] =
                  CASE hit # NoID -> [@ EXCEPT !.pc = "reserve", !.val = hit]
                    [] hit = NoID /\ o = "ok" /\ Holds(t) ->
                         [@ EXCEPT !.pc = "reserve", !.val = v]
                    [] OTHER -> [@ EXCEPT !.pc = "unlock"]]
        /\ UNCHANGED <<kvVars, cache, pool, local, mutex, sync, prot, refs, gc>>

\* slaveKeysMutex is locked and the local key reserved.  Without an identifier
\* in the cache or the kvstore, one of localKeys is recreated in the kvstore,
\* else one is leased from the pool.
Reserve(t) ==
    LET n == NodeOf[t]
        k == thr[t].key
        found == thr[t].val
        mine == LK!lookupKey(local[n], k)
    IN  /\ thr[t].pc = "reserve"
        /\ mutex[n] = NoOne
        /\ \/ /\ found # NoID
              /\ LK!allocateConflict(local[n], k, found)
              /\ Return(t, NoID)
              /\ UNCHANGED <<local, pool>>
           \/ /\ found # NoID
              /\ ~ LK!allocateConflict(local[n], k, found)
              /\ local' = [local EXCEPT ![n] = LK!allocate(@, k, found)]
              /\ mutex' = [mutex EXCEPT ![n] = t]
              /\ Goto(t, "acquire")
              /\ UNCHANGED pool
           \/ /\ found = NoID /\ mine # NoID
              /\ mutex' = [mutex EXCEPT ![n] = t]
              /\ thr' = [thr EXCEPT ![t].pc = "remaster", ![t].val = mine]
              /\ UNCHANGED <<local, pool>>
           \/ /\ found = NoID /\ mine = NoID
              /\ pool[n].ids = {}
              /\ Return(t, NoID)
              /\ UNCHANGED <<local, pool>>
           \/ /\ found = NoID /\ mine = NoID
              /\ \E id \in pool[n].ids :
                   /\ pool' = [pool EXCEPT ![n] = Pool!leaseAvailableID(@, id)]
                   /\ local' = [local EXCEPT ![n] = LK!allocate(@, k, id)]
                   /\ thr' = [thr EXCEPT ![t].pc = "check", ![t].val = id,
                                         ![t].new = TRUE]
              /\ mutex' = [mutex EXCEPT ![n] = t]
        /\ UNCHANGED <<kvVars, cache, sync, prot, refs, gc, faults>>

\* UpdateKeyIfLocked, first half: CreateOnlyIfLocked of the master key.  That
\* the key exists already is no error, even when the lock is lost.
RecreateMaster(t) ==
    LET id == thr[t].val
        k == thr[t].key
    IN  /\ thr[t].pc = "remaster"
        /\ \E o \in Outcome :
             /\ Answer(o)
             /\ IF Holds(t) THEN CreateOnlyMaster(o, id, k)
                            ELSE UNCHANGED <<master, rev, events>>
             /\ IF o = "ok" /\ (Holds(t) \/ master[id] # NoKey)
                THEN Goto(t, "reslave") /\ UNCHANGED mutex
                ELSE Return(t, NoID)
        /\ UNCHANGED <<slave, orphan, kvLock, cache, pool, local, sync, prot, refs, gc>>

\* UpdateKeyIfLocked, second half: CreateOnly of the slave key.
RecreateSlave(t) ==
    /\ thr[t].pc = "reslave"
    /\ \E o \in Outcome :
         /\ Answer(o)
         /\ CreateOnlySlave(o, NodeOf[t], thr[t].key, thr[t].val)
         /\ IF o = "ok" THEN Goto(t, "acquire") /\ UNCHANGED mutex
                        ELSE Return(t, NoID)
    /\ UNCHANGED <<master, rev, events, kvLock, cache, pool, local, sync, prot, refs, gc>>

\* Mutants of Undo: the identifier stays leased, the local key stays allocated.
UndoKeepsLease(t) ==
    /\ local' = [local EXCEPT ![NodeOf[t]] = LK!releaseKey(@, thr[t].key)]
    /\ Return(t, NoID)
    /\ UNCHANGED pool

UndoKeepsKey(t) ==
    /\ pool' = IF thr[t].new
               THEN [pool EXCEPT ![NodeOf[t]] = Pool!release(@, thr[t].val)]
               ELSE pool
    /\ Return(t, NoID)
    /\ UNCHANGED local

\* releaseKeyAndID of a new allocation, or the release of a reused key.
Undo(t) ==
    LET n == NodeOf[t]
    IN  /\ local' = [local EXCEPT ![n] = LK!releaseKey(@, thr[t].key)]
        /\ pool' = IF thr[t].new
                   THEN [pool EXCEPT ![n] = Pool!release(@, thr[t].val)]
                   ELSE pool
        /\ Return(t, NoID)

\* GetNoCache: has the key been allocated in the cluster in the meantime?
GetNoCache(t) ==
    /\ thr[t].pc = "check"
    /\ \E o \in ReadOutcome :
         /\ Answer(o)
         /\ IF o = "ok" /\ Found(thr[t].key) = {NoID}
            THEN Goto(t, "create") /\ UNCHANGED <<local, pool, mutex>>
            ELSE Undo(t)
    /\ UNCHANGED <<kvVars, cache, sync, prot, refs, gc>>

\* Mutants of AllocateID: the master key is put whether or not it exists; its
\* existence is taken for success.
AllocateIDOverwrites(t) ==
    LET id == thr[t].val
    IN  /\ thr[t].pc = "create"
        /\ IF Holds(t)
           THEN /\ PutMaster(id, thr[t].key)
                /\ pool' = [pool EXCEPT ![NodeOf[t]] = Pool!use(@, id)]
                /\ Goto(t, "acquire")
                /\ UNCHANGED <<local, mutex>>
           ELSE Undo(t) /\ UNCHANGED <<master, rev, events>>
        /\ UNCHANGED <<slave, orphan, kvLock, cache, sync, prot, refs, gc, faults>>

AllocateIDIgnoresExisting(t) ==
    LET id == thr[t].val
    IN  /\ thr[t].pc = "create"
        /\ IF Holds(t)
           THEN /\ CreateOnlyMaster("ok", id, thr[t].key)
                /\ pool' = [pool EXCEPT ![NodeOf[t]] = Pool!use(@, id)]
                /\ Goto(t, "acquire")
                /\ UNCHANGED <<local, mutex>>
           ELSE Undo(t) /\ UNCHANGED <<master, rev, events>>
        /\ UNCHANGED <<slave, orphan, kvLock, cache, sync, prot, refs, gc, faults>>

\* AllocateIDIfLocked, then idPool.Use.
AllocateID(t) ==
    LET id == thr[t].val
        ok == Holds(t) /\ master[id] = NoKey
    IN  /\ thr[t].pc = "create"
        /\ \E o \in Outcome :
             /\ Answer(o)
             /\ IF ok THEN CreateOnlyMaster(o, id, thr[t].key)
                      ELSE UNCHANGED <<master, rev, events>>
             /\ IF o = "ok" /\ ok
                THEN /\ pool' = [pool EXCEPT ![NodeOf[t]] = Pool!use(@, id)]
                     /\ Goto(t, "acquire")
                     /\ UNCHANGED <<local, mutex>>
                ELSE Undo(t)
        /\ UNCHANGED <<slave, orphan, kvLock, cache, sync, prot, refs, gc>>

\* AcquireReference: UpdateIfDifferentIfLocked of the slave key, conditional on
\* the lock only.  It reads the key and puts it if it differs; one step is exact,
\* as without a difference the read takes the place of the put, and otherwise
\* the put checks the lock again.
AcquireReference(t) ==
    LET n == NodeOf[t]
        k == thr[t].key
        id == thr[t].val
    IN  /\ thr[t].pc = "acquire"
        /\ \E o \in Outcome :
             /\ Answer(o)
             /\ IF o # "fail" /\ Holds(t) THEN PutSlave(n, k, id)
                                          ELSE UNCHANGED <<slave, orphan>>
             /\ IF o = "ok" /\ Holds(t)
                THEN /\ local' = [local EXCEPT ![n] = LK!verify(@, k)]
                     /\ Return(t, id)
                     /\ UNCHANGED pool
                ELSE Undo(t)
        /\ UNCHANGED <<master, rev, events, kvLock, cache, sync, prot, refs, gc>>

\* The kvstore lock is released, if it has not expired.
Unlock(t) ==
    /\ thr[t].pc = "unlock"
    /\ kvLock' = IF Holds(t) THEN [kvLock EXCEPT ![thr[t].key] = NoOne] ELSE kvLock
    /\ Goto(t, IF thr[t].val = NoID THEN "retry" ELSE "insert")
    /\ UNCHANGED <<master, rev, slave, orphan, events, cache, pool, local, mutex, sync,
                   prot, refs, gc, faults>>

\* mainCache.insert, and Allocate returns the identifier.
Insert(t) ==
    LET n == NodeOf[t]
        k == thr[t].key
    IN  /\ thr[t].pc = "insert"
        /\ CacheUnlocked(n)
        /\ cache' = [cache EXCEPT ![n] = Cache!insertKey(@, k, thr[t].val)]
        /\ refs' = [refs EXCEPT ![n][k] = @ + 1]
        /\ thr' = [thr EXCEPT ![t] = IdleThread]
        /\ UNCHANGED <<kvVars, pool, local, mutex, sync, prot, gc, faults>>

\* The attempt failed: another one after the backoff, or Allocate gives up
\* because the attempts are used up or the context is cancelled.
Retry(t) ==
    /\ thr[t].pc = "retry"
    /\ \/ thr[t].try < MaxAttempts /\ Attempt(t, thr[t].key, thr[t].try + 1)
       \/ thr' = [thr EXCEPT ![t] = IdleThread] /\ UNCHANGED local
    /\ UNCHANGED <<kvVars, cache, pool, mutex, sync, prot, refs, gc, faults>>

-----------------------------------------------------------------------------
(***************************************************************************)
(* Release.                                                                *)
(***************************************************************************)
\* Release is called: the caller gives up a reference it holds, and waits for
\* slaveKeysMutex.
Release(t, k) ==
    LET n == NodeOf[t]
    IN  /\ thr[t].pc = "idle"
        /\ refs[n][k] > 0
        /\ refs' = [refs EXCEPT ![n][k] = @ - 1]
        /\ thr' = [thr EXCEPT ![t] = [IdleThread EXCEPT !.pc = "release", !.key = k]]
        /\ UNCHANGED <<kvVars, cache, pool, local, mutex, sync, prot, gc, faults>>

\* localKeys.release under slaveKeysMutex, which is kept over the deletion of the
\* slave key when this was the last use.
ReleaseKey(t) ==
    LET n == NodeOf[t]
        k == thr[t].key
    IN  /\ thr[t].pc = "release"
        /\ mutex[n] = NoOne
        /\ local' = [local EXCEPT ![n] = LK!releaseKey(@, k)]
        /\ IF LK!lastUse(local[n], k)
           THEN /\ thr' = [thr EXCEPT ![t].pc = "delslave"]
                /\ mutex' = [mutex EXCEPT ![n] = t]
           ELSE /\ thr' = [thr EXCEPT ![t] = IdleThread]
                /\ UNCHANGED mutex
        /\ UNCHANGED <<kvVars, cache, pool, sync, prot, refs, gc, faults>>

\* backend.Release of a slave key.
DeleteSlave(o, n, k) ==
    IF o = "fail" THEN UNCHANGED <<slave, orphan>>
    ELSE /\ slave' = [slave EXCEPT ![n][k] = NoID]
         /\ orphan' = [orphan EXCEPT ![n] = @ \ {k}]

\* backend.Release; its error is ignored.
ReleaseSlave(t) ==
    /\ thr[t].pc = "delslave"
    /\ \E o \in Outcome : Answer(o) /\ DeleteSlave(o, NodeOf[t], thr[t].key)
    /\ mutex' = [mutex EXCEPT ![NodeOf[t]] = NoOne]
    /\ thr' = [thr EXCEPT ![t] = IdleThread]
    /\ UNCHANGED <<master, rev, events, kvLock, cache, pool, local, sync, prot, refs, gc>>

-----------------------------------------------------------------------------
(***************************************************************************)
(* The watch of the master keys and the master key protection.             *)
(***************************************************************************)
\* OnUpsert or OnDelete of the next event.  The deletion of a master key whose
\* identifier is in local use starts a controller and changes nothing else.
Watch(n) ==
    /\ events[n] # << >>
    /\ CacheUnlocked(n)
    /\ events' = [events EXCEPT ![n] = Tail(@)]
    /\ LET e == Head(events[n])
           mine == LK!lookupID(local[n], e.id)
       IN  \/ /\ e.typ = "upsert"
              /\ cache' = [cache EXCEPT ![n] = Cache!onUpsert(@, e.id, e.key)]
              /\ pool' = [pool EXCEPT ![n] = Pool!remove(@, e.id)]
              /\ UNCHANGED prot
           \/ /\ e.typ = "delete" /\ mine # NoKey
              /\ prot' = [prot EXCEPT ![n][e.id] = [pc |-> "run", key |-> mine]]
              /\ UNCHANGED <<cache, pool>>
           \/ /\ e.typ = "delete" /\ mine = NoKey
              /\ cache' = [cache EXCEPT ![n] = Cache!onDelete(@, e.id)]
              /\ pool' = [pool EXCEPT ![n] = Pool!insert(@, e.id)]
              /\ UNCHANGED prot
    /\ UNCHANGED <<master, rev, slave, orphan, kvLock, local, mutex, thr, sync, refs, gc,
                   faults>>

\* The controller runs: unless the identifier is no longer in local use, it
\* recreates the master key (UpdateKey, first half) with the mutex held.
ProtectMaster(n, id) ==
    /\ prot[n][id].pc = "run"
    /\ CacheUnlocked(n)
    /\ IF LK!lookupID(local[n], id) = NoKey
       THEN /\ prot' = [prot EXCEPT ![n][id] = NoController]
            /\ UNCHANGED <<master, rev, events, faults>>
       ELSE \E o \in Outcome :
              /\ Answer(o)
              /\ CreateOnlyMaster(o, id, prot[n][id].key)
              /\ prot' = IF o = "ok" THEN [prot EXCEPT ![n][id].pc = "slave"] ELSE prot
    /\ UNCHANGED <<slave, orphan, kvLock, cache, pool, local, mutex, thr, sync, refs, gc>>

\* UpdateKey, second half: the slave key, if missing.  On an error the
\* controller runs again.
ProtectSlave(n, id) ==
    /\ prot[n][id].pc = "slave"
    /\ \E o \in Outcome :
         /\ Answer(o)
         /\ CreateOnlySlave(o, n, prot[n][id].key, id)
         /\ prot' = IF o = "ok" THEN [prot EXCEPT ![n][id] = NoController]
                                ELSE [prot EXCEPT ![n][id].pc = "run"]
    /\ UNCHANGED <<master, rev, events, kvLock, cache, pool, local, mutex, thr, sync, refs,
                   gc>>

-----------------------------------------------------------------------------
(***************************************************************************)
(* syncLocalKeys.                                                          *)
(***************************************************************************)
SyncUnchanged == UNCHANGED <<kvLock, cache, pool, local, thr, prot, refs, gc>>

\* A round starts with a copy of the verified local keys.
SyncStart(n) ==
    /\ n \in SyncNode
    /\ sync[n].pc = "idle"
    /\ LK!getVerifiedIDs(local[n]) # {}
    /\ sync' = [sync EXCEPT ![n].pc = "next", ![n].todo = LK!getVerifiedIDs(local[n])]
    /\ SyncUnchanged
    /\ UNCHANGED <<master, rev, slave, orphan, events, mutex, faults>>

\* syncLocalKey of one of them, skipped when the key has changed meanwhile.
SyncNext(n) ==
    /\ sync[n].pc = "next"
    /\ IF sync[n].todo = {}
       THEN sync' = [sync EXCEPT ![n] = IdleSync]
       ELSE \E p \in sync[n].todo :
              sync' = [sync EXCEPT ![n] =
                         [pc |-> IF LK!lookupKey(local[n], p[2]) = p[1] THEN "master"
                                                                       ELSE "next",
                          id |-> p[1], key |-> p[2], todo |-> @.todo \ {p}]]
    /\ SyncUnchanged
    /\ UNCHANGED <<master, rev, slave, orphan, events, mutex, faults>>

\* Mutant of SyncMaster: only the slave key is synced.
SyncMasterSkipped(n) ==
    /\ sync[n].pc = "master"
    /\ sync' = [sync EXCEPT ![n].pc = "slave"]
    /\ SyncUnchanged
    /\ UNCHANGED <<master, rev, slave, orphan, events, mutex, faults>>

\* UpdateKey, first half: CreateOnly of the master key.
SyncMaster(n) ==
    /\ sync[n].pc = "master"
    /\ \E o \in Outcome :
         /\ Answer(o)
         /\ CreateOnlyMaster(o, sync[n].id, sync[n].key)
         /\ sync' = [sync EXCEPT ![n].pc = IF o = "ok" THEN "slave" ELSE "check"]
    /\ SyncUnchanged
    /\ UNCHANGED <<slave, orphan, mutex>>

\* UpdateKey, second half: UpdateIfDifferent of the slave key.
SyncSlave(n) ==
    /\ sync[n].pc = "slave"
    /\ \E o \in Outcome :
         /\ Answer(o)
         /\ IF o = "fail" THEN UNCHANGED <<slave, orphan>>
                          ELSE PutSlave(n, sync[n].key, sync[n].id)
    /\ sync' = [sync EXCEPT ![n].pc = "check"]
    /\ SyncUnchanged
    /\ UNCHANGED <<master, rev, events, mutex>>

\* Mutant of SyncCheck: the key is not looked up again.
SyncCheckNever(n) ==
    /\ sync[n].pc = "check"
    /\ sync' = [sync EXCEPT ![n].pc = "next"]
    /\ SyncUnchanged
    /\ UNCHANGED <<master, rev, slave, orphan, events, mutex, faults>>

\* Is the key still in use locally?
SyncCheck(n) ==
    /\ sync[n].pc = "check"
    /\ sync' = [sync EXCEPT ![n].pc =
                  IF LK!lookupKey(local[n], sync[n].key) = NoID THEN "lock" ELSE "next"]
    /\ SyncUnchanged
    /\ UNCHANGED <<master, rev, slave, orphan, events, mutex, faults>>

\* Mutant of SyncLock: the second check is missing.
SyncLockUnchecked(n) ==
    /\ sync[n].pc = "lock"
    /\ mutex[n] = NoOne
    /\ mutex' = [mutex EXCEPT ![n] = n]
    /\ sync' = [sync EXCEPT ![n].pc = "del"]
    /\ SyncUnchanged
    /\ UNCHANGED <<master, rev, slave, orphan, events, faults>>

\* It is not: check once more with slaveKeysMutex held.
SyncLock(n) ==
    /\ sync[n].pc = "lock"
    /\ mutex[n] = NoOne
    /\ IF LK!lookupKey(local[n], sync[n].key) = NoID
       THEN /\ mutex' = [mutex EXCEPT ![n] = n]
            /\ sync' = [sync EXCEPT ![n].pc = "del"]
       ELSE /\ sync' = [sync EXCEPT ![n].pc = "next"]
            /\ UNCHANGED mutex
    /\ SyncUnchanged
    /\ UNCHANGED <<master, rev, slave, orphan, events, faults>>

\* backend.Release of the slave key that may have been recreated.
SyncRelease(n) ==
    /\ sync[n].pc = "del"
    /\ \E o \in Outcome : Answer(o) /\ DeleteSlave(o, n, sync[n].key)
    /\ mutex' = [mutex EXCEPT ![n] = NoOne]
    /\ sync' = [sync EXCEPT ![n].pc = "next"]
    /\ SyncUnchanged
    /\ UNCHANGED <<master, rev, events>>

-----------------------------------------------------------------------------
(***************************************************************************)
(* RunGC, one round after the other, in the operator.  The lock RunGC      *)
(* takes is the one of the path of the master key, which no agent takes:   *)
(* it excludes nobody here and is left out.                                *)
(***************************************************************************)
GCUnchanged == UNCHANGED <<slave, orphan, kvLock, cache, pool, local, mutex, thr, sync,
                           prot, refs>>

\* ListPrefix of the master keys.
GCStart ==
    /\ GCEnabled
    /\ gc.pc = "idle"
    /\ gc' = [gc EXCEPT !.pc = "next", !.stale = NoMarks,
                !.todo = {[id |-> i, key |-> master[i], rev |-> rev[i]] :
                            i \in {j \in ID : master[j] # NoKey}}]
    /\ GCUnchanged /\ UNCHANGED <<master, rev, events, faults>>

\* The slave keys of one of them are listed: without users, the master key is
\* deleted if it was marked in the previous round and not recreated since, and
\* marked if it was not.  A failed request skips it.
GCList ==
    /\ gc.pc = "next"
    /\ \E e \in gc.todo, o \in ReadOutcome :
         LET unused == o = "ok" /\ \A n \in Node : slave[n][e.key] # e.id
             marked == gc.prev[e.id]
             rest == [gc EXCEPT !.todo = @ \ {e}]
         IN  /\ Answer(o)
             /\ gc' = CASE unused /\ marked = e.rev ->
                             [rest EXCEPT !.pc = "del", !.cur = {e}]
                        [] unused /\ marked = 0 -> [rest EXCEPT !.stale[e.id] = e.rev]
                        [] OTHER -> rest
    /\ GCUnchanged /\ UNCHANGED <<master, rev, events>>

\* DeleteIfLocked of the master key.
GCDelete ==
    /\ gc.pc = "del"
    /\ \E e \in gc.cur, o \in Outcome :
         /\ Answer(o)
         /\ IF o # "fail" /\ master[e.id] # NoKey
            THEN /\ rev[e.id] < MaxRev
                 /\ master' = [master EXCEPT ![e.id] = NoKey]
                 /\ Notify([typ |-> "delete", id |-> e.id, key |-> master[e.id]])
            ELSE UNCHANGED <<master, events>>
    /\ gc' = [gc EXCEPT !.pc = "next", !.cur = {}]
    /\ GCUnchanged /\ UNCHANGED rev

\* The round ends: its marks are the previous ones of the next round.
GCEnd ==
    /\ gc.pc = "next"
    /\ gc.todo = {}
    /\ gc' = [gc EXCEPT !.pc = "idle", !.prev = gc.stale, !.stale = NoMarks]
    /\ GCUnchanged /\ UNCHANGED <<master, rev, events, faults>>

-----------------------------------------------------------------------------
(***************************************************************************)
(* Leases and restarts.                                                    *)
(***************************************************************************)
Fault == faults < MaxFaults /\ faults' = faults + 1

AllocatorUnchanged == UNCHANGED <<cache, pool, local, mutex, thr, sync, prot, refs, gc>>

\* etcd expires the lease of a running agent: its slave keys are gone.
ExpireLease(n) ==
    /\ Fault
    /\ \E k \in Key : slave[n][k] # NoID /\ k \notin orphan[n]
    /\ slave' = [slave EXCEPT ![n] = [k \in Key |-> IF k \in orphan[n] THEN @[k] ELSE NoID]]
    /\ AllocatorUnchanged
    /\ UNCHANGED <<master, rev, orphan, kvLock, events>>

\* The lease of the previous run of an agent expires.
ExpireOrphans(n) ==
    /\ orphan[n] # {}
    /\ slave' = [slave EXCEPT ![n] = [k \in Key |-> IF k \in orphan[n] THEN NoID ELSE @[k]]]
    /\ orphan' = [orphan EXCEPT ![n] = {}]
    /\ AllocatorUnchanged
    /\ UNCHANGED <<master, rev, kvLock, events, faults>>

\* The lock lease of a running agent expires, or the operator's lock GC
\* removes the lock: the holder does not know.
ExpireLock(k) ==
    /\ Fault
    /\ kvLock[k] \in Thread
    /\ kvLock' = [kvLock EXCEPT ![k] = NoOne]
    /\ AllocatorUnchanged
    /\ UNCHANGED <<master, rev, slave, orphan, events>>

\* The lock left behind by an agent that restarted expires.
ExpireOrphanLock(k) ==
    /\ kvLock[k] = Orphan
    /\ kvLock' = [kvLock EXCEPT ![k] = NoOne]
    /\ AllocatorUnchanged
    /\ UNCHANGED <<master, rev, slave, orphan, events, faults>>

\* An agent restarts.  Its references are gone, its slave keys and locks are
\* still there, and its allocator starts from a list of the master keys.
Restart(n) ==
    /\ Fault
    /\ orphan' = [orphan EXCEPT ![n] = {k \in Key : slave[n][k] # NoID}]
    /\ kvLock' = [k \in Key |->
                    IF kvLock[k] \in Thread /\ NodeOf[kvLock[k]] = n THEN Orphan
                                                                     ELSE kvLock[k]]
    /\ events' = [events EXCEPT ![n] = << >>]
    /\ \E c \in Cache!listed(master) : cache' = [cache EXCEPT ![n] = c]
    /\ pool' = [pool EXCEPT ![n] = [ids |-> {i \in ID : master[i] = NoKey}, leased |-> {}]]
    /\ local' = [local EXCEPT ![n] = LK!newLocalKeys]
    /\ mutex' = [mutex EXCEPT ![n] = NoOne]
    /\ thr' = [t \in Thread |-> IF NodeOf[t] = n THEN IdleThread ELSE thr[t]]
    /\ sync' = [sync EXCEPT ![n] = IdleSync]
    /\ prot' = [prot EXCEPT ![n] = [i \in ID |-> NoController]]
    /\ refs' = [refs EXCEPT ![n] = [k \in Key |-> 0]]
    /\ UNCHANGED <<master, rev, slave, gc>>

-----------------------------------------------------------------------------
ThreadStep(t) ==
    \/ Lock(t) \/ LockTimeout(t) \/ GetIfLocked(t) \/ Reserve(t)
    \/ RecreateMaster(t) \/ RecreateSlave(t) \/ GetNoCache(t) \/ AllocateID(t)
    \/ AcquireReference(t) \/ Unlock(t) \/ Insert(t) \/ Retry(t)
    \/ ReleaseKey(t) \/ ReleaseSlave(t)

ProtectStep(n) == \E id \in ID : ProtectMaster(n, id) \/ ProtectSlave(n, id)

SyncStep(n) ==
    \/ SyncStart(n) \/ SyncNext(n) \/ SyncMaster(n) \/ SyncSlave(n) \/ SyncCheck(n)
    \/ SyncLock(n) \/ SyncRelease(n)

GCStep == GCStart \/ GCList \/ GCDelete \/ GCEnd

Failure ==
    \/ \E n \in Node : ExpireLease(n) \/ ExpireOrphans(n) \/ Restart(n)
    \/ \E k \in Key : ExpireLock(k) \/ ExpireOrphanLock(k)

Next ==
    \/ \E t \in Thread, k \in Key : Allocate(t, k) \/ Release(t, k)
    \/ \E t \in Thread : ThreadStep(t)
    \/ \E n \in Node : Watch(n) \/ ProtectStep(n) \/ SyncStep(n)
    \/ GCStep
    \/ Failure

Spec == Init /\ [][Next]_vars

-----------------------------------------------------------------------------
(***************************************************************************)
(* Safety.                                                                 *)
(***************************************************************************)
\* The identifier node n uses for key k, once Allocate has synced it with the
\* kvstore.
InUse(n, k, id) == local[n].keys[k].verified /\ local[n].keys[k].val = id

\* No identifier stands for two different keys in use on any two nodes.
NoAliasing ==
    \A n, m \in Node, k, l \in Key, id \in ID :
        InUse(n, k, id) /\ InUse(m, l, id) => k = l

\* Without garbage collection, the allocator implements IdentityMap.
Abstract == INSTANCE IdentityMap WITH
                bound <- master,
                using <- {p \in Node \X Key \X ID : InUse(p[1], p[2], p[3])}

ImplementsIdentityMap == Abstract!Spec

\* The calls under way on node n that count as a reference to k: an allocation
\* from its reservation on, a release until it is carried out.
Referencing(n, k) ==
    {t \in Thread : /\ NodeOf[t] = n /\ thr[t].key = k
                    /\ \/ thr[t].pc \in {"check", "create", "acquire", "reslave",
                                         "remaster", "insert", "release"}
                       \/ thr[t].pc = "unlock" /\ thr[t].val # NoID}

\* No reference to a local key is leaked: its count never exceeds the references
\* that callers hold and those of the calls under way, whichever request of an
\* allocation fails and is undone (releaseKeyAndID, localKeys.release). A leaked
\* reference would keep the slave key, and the identity, for ever.
RefcountBounded ==
    \A n \in Node, k \in Key :
        local[n].keys[k].refcnt <= refs[n][k] + Cardinality(Referencing(n, k))

\* A key in use on a node is recorded in the kvstore by a slave key of the node, as
\* long as no request failed and no lease expired (AcquireReference before verify,
\* the deletion of the slave key with slaveKeysMutex held).
SlaveBacksUse ==
    faults = 0 => \A n \in Node, k \in Key : local[n].keys[k].verified => slave[n][k] # NoID

\* The slave key of a key that stays in use is only ever lost by the expiry of the
\* node's lease: neither a release that runs late, nor the syncer that decided to
\* delete it, nor the lease of the previous run of the agent takes it away
\* (Release and syncLocalKey under slaveKeysMutex, the put that moves the key to
\* the current lease).
SlaveKept ==
    [][\A n \in Node, k \in Key :
          /\ slave[n][k] # NoID /\ slave'[n][k] = NoID
          /\ local[n].keys[k].verified /\ local'[n].keys[k].verified
          => ExpireLease(n)]_vars

\* An identifier is leased from the pool only by the allocation that holds
\* slaveKeysMutex, so that no other one can give it back or use it up.
LeaseOwned ==
    \A n \in Node : \A id \in pool[n].leased :
        \E t \in Thread : /\ mutex[n] = t /\ NodeOf[t] = n
                          /\ thr[t].pc \in {"check", "create"} /\ thr[t].val = id

\* Once a node has handled all watch events, its pool offers no identifier
\* that exists in the kvstore: concurrent leases and events lose no update.
PoolConverges ==
    \A n \in Node : events[n] = << >> =>
        \A id \in pool[n].ids : master[id] = NoKey

\* The key a caller holds a reference to is in localKeys: only the release of
\* the last reference removes it and deletes the slave key.
HeldIsLocal ==
    \A n \in Node, k \in Key : refs[n][k] > 0 => LK!lookupKey(local[n], k) # NoID

\* Once a node has handled all watch events and nothing is under way on it, its
\* cache shows every master key of the kvstore, and every identifier the cache does
\* not show is in the pool: creations and deletions that cross, and allocations
\* that are undone, hide no identity and leak no number (OnUpsert, OnDelete,
\* releaseKeyAndID). The cache may show a master key that is gone: the deletion of
\* an identifier in local use is left to the protection controller.
CacheConverges ==
    \A n \in Node :
        /\ events[n] = << >>
        /\ \A id \in ID : prot[n][id].pc = "off"
        /\ \A t \in Thread : NodeOf[t] = n => thr[t].pc = "idle"
        => /\ \A id \in ID : master[id] # NoKey => cache[n].ids[id] = master[id]
           /\ {id \in ID : cache[n].ids[id] = NoKey} \subseteq pool[n].ids

\* Two nodes never use different identifiers for the same key.
SameKeySameID ==
    \A n, m \in Node, k \in Key, i, j \in ID :
        InUse(n, k, i) /\ InUse(m, k, j) => i = j

\* No master key has been deleted yet.
NothingCollected == \A id \in ID : rev[id] = IF master[id] = NoKey THEN 0 ELSE 1

\* A key that no node uses, allocates or releases has no slave key left, if no
\* request failed.
ReleasedGone ==
    \A k \in Key :
        (/\ faults = 0
         /\ \A n \in Node : /\ local[n].keys[k].refcnt = 0
                            /\ sync[n].pc = "idle"
                            /\ \A id \in ID : prot[n][id].pc = "off"
         /\ \A t \in Thread : thr[t].key # k)
        => Found(k) = {NoID}

\* That holds until a master key is collected, whatever releases, allocations and
\* the syncer do at the same time (the second look of syncLocalKey).
ReleasedNotFound == NothingCollected => ReleasedGone

\* A slave key is created by an allocation only while its master key exists.
SlaveNeedsMaster ==
    [][\A t \in Thread : AcquireReference(t) /\ thr'[t].val # NoID
                         => master[thr[t].val] = thr[t].key]_vars

\* CreateOnlyIfLocked reports a lost lock when the key exists: the recreation of
\* the master key does not go on to the slave key without the lock.
LostLockReported ==
    [][\A t \in Thread : RecreateMaster(t) /\ ~ Holds(t) => thr'[t].pc # "reslave"]_vars

-----------------------------------------------------------------------------
(***************************************************************************)
(* Liveness.  Goroutines are scheduled and requests time out, so every     *)
(* step of a thread, of the watch, of a controller and of the syncer is    *)
(* taken eventually; a Go mutex hands itself to the waiter it has starved, *)
(* so the steps of a thread and of the syncer, which wait for              *)
(* slaveKeysMutex and for the mutex of the cache, are strongly fair.       *)
(* Nothing is assumed of callers, the operator and failures.               *)
(***************************************************************************)
FairSpec ==
    /\ Spec
    /\ \A t \in Thread : SF_vars(ThreadStep(t))
    /\ \A n \in Node : WF_vars(Watch(n)) /\ WF_vars(ProtectStep(n)) /\ SF_vars(SyncStep(n))

\* Every call of Allocate and Release returns, whoever else waits for the lock of
\* the key, slaveKeysMutex and the mutex of the cache.
CallsReturn == \A t \in Thread : thr[t].pc # "idle" ~> thr[t].pc = "idle"

\* A master key missing for a key in use is recreated, unless the use ends.
MasterRestored ==
    \A n \in Node, k \in Key, id \in ID :
        InUse(n, k, id) /\ master[id] = NoKey
            ~> (~ InUse(n, k, id)) \/ master[id] # NoKey

=============================================================================
