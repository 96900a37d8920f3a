----------------------- MODULE KVAllocatorRefinement ------------------------
(***************************************************************************)
(* Without garbage collection KVAllocator implements IdentityMap, for any  *)
(* number of nodes, threads, keys and identifiers, and through any         *)
(* sequence of request errors, lease expiries and restarts.                *)
(***************************************************************************)
EXTENDS KVAllocatorSteps

\* Most leaves are first-order; the few that need SMT say so.
USE ZenonT(20)

\* Expiries and restarts preserve Bound: they only forget.
LEMMA FailureBound ==
  ASSUME TypeInv, TypeInv', Bound, Failure
  PROVE  Bound'
<1> USE DEF AllocatorUnchanged
<1>1. ASSUME NEW n \in Node, ExpireLease(n) \/ ExpireOrphans(n)
      PROVE  Bound'
  <2>1. UNCHANGED <<master, events, cache, local, mutex, thr, sync, prot, gc>>
    BY <1>1 DEF ExpireLease, ExpireOrphans
  <2>2. Grows
    BY <2>1 DEF Grows
  <2>3. \A m \in Node, l \in Key : slave'[m][l] \in {slave[m][l], NoID}
    BY <1>1, SMT DEF ExpireLease, ExpireOrphans, TypeInv, SlaveT
  <2>4. SlaveB'
    BY <2>2, <2>3, FewerSlavesBound
  <2> QED
    BY <2>1, <2>2, <2>4, BoundFrame DEF Bound
<1>2. ASSUME NEW k \in Key, ExpireLock(k) \/ ExpireOrphanLock(k)
      PROVE  Bound'
  <2>1. UNCHANGED <<master, slave, events, cache, local, mutex, thr, sync, prot, gc>>
    BY <1>2 DEF ExpireLock, ExpireOrphanLock
  <2>2. Grows
    BY <2>1 DEF Grows
  <2> QED
    BY <2>1, <2>2, BoundFrame DEF Bound
<1>3. ASSUME NEW n \in Node, Restart(n)
      PROVE  Bound'
  <2>1. /\ UNCHANGED <<master, slave, gc>>
        /\ events' = [events EXCEPT ![n] = << >>]
        /\ local' = [local EXCEPT ![n] = LK!newLocalKeys]
        /\ mutex' = [mutex EXCEPT ![n] = NoOne]
        /\ thr' = [t \in Thread |-> IF NodeOf[t] = n THEN IdleThread ELSE thr[t]]
        /\ sync' = [sync EXCEPT ![n] = IdleSync]
        /\ prot' = [prot EXCEPT ![n] = [i \in ID |-> NoController]]
        /\ \E c \in Cache!listed(master) : cache' = [cache EXCEPT ![n] = c]
    BY <1>3 DEF Restart
  <2>2. Grows
    BY <2>1 DEF Grows
  <2>3. SlaveB'
    BY <2>1, <2>2, BoundFrame
  <2>4. CacheB'
    <3>1. PICK c \in Cache!listed(master) : cache' = [cache EXCEPT ![n] = c]
      BY <2>1
    <3>2. \A k \in Key : c.keys[k] # NoID => master[c.keys[k]] = k
      BY SMT DEF Cache!listed
    <3>3. cache'[n] = c /\ \A m \in Node \ {n} : cache'[m] = cache[m]
      BY <3>1 DEF TypeInv, CacheT
    <3> QED
      BY <2>1, <3>2, <3>3, SMT DEF Bound, CacheB
  <2>5. EventB'
    <3>1. events'[n] = << >> /\ \A m \in Node \ {n} : events'[m] = events[m]
      BY <2>1 DEF TypeInv, MasterT
    <3> QED
      BY <2>1, <3>1, SMT DEF Bound, EventB
  <2>6. QuietB'
    <3>1. \A i \in ID : prot'[n][i] = NoController
      BY <2>1 DEF TypeInv, ProtT
    <3>2. \A m \in Node \ {n} : prot'[m] = prot[m]
      BY <2>1 DEF TypeInv, ProtT
    <3> QED
      BY <2>1, <3>1, <3>2, SMT DEF Bound, QuietB, NoController
  <2>7. /\ \A k \in Key : local'[n].keys[k] = LK!NoEntry
        /\ \A i \in ID : local'[n].ids[i] = NoKey
        /\ \A m \in Node \ {n} : local'[m] = local[m] /\ mutex'[m] = mutex[m]
    BY <2>1 DEF TypeInv, LocalT, MutexT, LK!newLocalKeys
  <2>8. LocalV' /\ IdsB'
    BY <2>1, <2>7, ConstantsAssumption, SMT DEF Bound, LocalV, IdsB, LK!NoEntry
  <2>9. \A t \in Thread : IF NodeOf[t] = n THEN thr'[t].pc = "idle" ELSE thr'[t] = thr[t]
    BY <2>1 DEF IdleThread
  <2>10. LocalR'
    <3> SUFFICES ASSUME NEW m \in Node, NEW k \in Key, Reserved(m, k)'
                 PROVE  local'[m].keys[k].refcnt = 1 /\ \E u \in Thread : Reserver(m, k, u)'
      BY DEF LocalR
    <3>1. m # n
      BY <2>7, SMT DEF Reserved, LK!NoEntry
    <3>2. Reserved(m, k)
      BY <2>7, <3>1 DEF Reserved
    <3> QED
      BY <2>7, <2>9, <3>1, <3>2, SMT DEF Bound, LocalR, Reserver
  <2>11. ThrB'
    <3> SUFFICES ASSUME NEW t \in Thread
                 PROVE  ThrM(t)' /\ ThrC(t)' /\ ThrL(t)'
      BY DEF ThrB
    <3>1. CASE NodeOf[t] = n
      BY <2>9, <3>1 DEF ThrM, ThrC, ThrL, MutexPC
    <3>2. CASE NodeOf[t] # n
      <4>1. NodeOf[t] \in Node /\ thr'[t] = thr[t] /\ ThrM(t) /\ ThrC(t) /\ ThrL(t)
        BY <2>9, <3>2, ConstantsAssumption DEF Bound, ThrB
      <4> QED
        BY <2>1, <2>7, <3>2, <4>1 DEF ThrM, ThrC, ThrL
    <3> QED
      BY <3>1, <3>2
  <2>12. SyncB' /\ SyncM'
    <3>1. sync'[n] = IdleSync /\ \A m \in Node \ {n} : sync'[m] = sync[m]
      BY <2>1 DEF TypeInv, SyncT
    <3> QED
      BY <2>1, <2>7, <3>1, SMT DEF Bound, SyncB, SyncM, IdleSync
  <2> QED
    BY <2>3, <2>4, <2>5, <2>6, <2>8, <2>10, <2>11, <2>12 DEF Bound
<1> QED
  BY <1>1, <1>2, <1>3 DEF Failure

\* Bound holds after NewAllocator, with an empty kvstore.
LEMMA BoundInit == Init => Bound
<1> SUFFICES ASSUME Init PROVE Bound
  OBVIOUS
<1> USE ConstantsAssumption DEF Init
<1>1. SlaveB /\ CacheB /\ EventB /\ QuietB
  BY SMT DEF SlaveB, CacheB, EventB, QuietB, NoController
<1>2. LocalV /\ LocalR /\ IdsB
  BY DEF LocalV, LocalR, IdsB, Reserved, LK!newLocalKeys, LK!NoEntry
<1>3. ThrB
  BY DEF ThrB, ThrM, ThrC, ThrL, IdleThread, MutexPC
<1>4. SyncB /\ SyncM
  BY DEF SyncB, SyncM, IdleSync
<1> QED
  BY <1>1, <1>2, <1>3, <1>4 DEF Bound

\* Without the collector no controller has anything to do.
LEMMA QuietStep ==
  ASSUME Bound, ~ GCEnabled
  PROVE  ~ GCStep /\ \A n \in Node : ~ ProtectStep(n)
  BY DEF Bound, QuietB, GCStep, GCStart, GCList, GCDelete, GCEnd, ProtectStep, ProtectMaster,
         ProtectSlave

\* Bound is inductive.
LEMMA BoundStep ==
  ASSUME ~ GCEnabled, TypeInv, Bound, [Next]_vars
  PROVE  Bound'
<1>1. TypeInv'
  BY TypeStep
<1>2. CASE UNCHANGED vars
  <2>1. Grows
    BY <1>2 DEF vars, Grows
  <2> QED
    BY <1>2, <2>1, BoundFrame DEF vars, Bound
<1>3. CASE \E t \in Thread, k \in Key : Allocate(t, k) \/ Release(t, k)
  BY <1>1, <1>3, FreeBound
<1>4. ASSUME NEW t \in Thread, ThreadStep(t)
      PROVE  Bound'
  <2>1. CASE Reserve(t)
    BY <1>1, <2>1, ReserveBound
  <2>2. CASE \/ RecreateMaster(t) \/ RecreateSlave(t) \/ GetNoCache(t) \/ AllocateID(t)
             \/ AcquireReference(t) \/ ReleaseSlave(t)
    BY <1>1, <2>2, OwnerBound
  <2>3. CASE \/ Lock(t) \/ LockTimeout(t) \/ GetIfLocked(t) \/ Unlock(t) \/ Insert(t)
             \/ Retry(t)
    <3>1. thr[t].key \in Key
      BY <2>3 DEF Lock, LockTimeout, GetIfLocked, Unlock, Insert, Retry, TypeInv, ThrT,
                  ThreadRec
    <3> QED
      BY <1>1, <2>3, <3>1, FreeBound
  <2>4. CASE ReleaseKey(t)
    BY <1>1, <2>4, ReleaseKeyBound
  <2> QED
    BY <1>4, <2>1, <2>2, <2>3, <2>4 DEF ThreadStep
<1>5. ASSUME NEW n \in Node, Watch(n) \/ ProtectStep(n) \/ SyncStep(n)
      PROVE  Bound'
  BY <1>1, <1>5, WatchBound, SyncBound, QuietStep
<1>6. CASE Failure
  BY <1>1, <1>6, FailureBound
<1> QED
  BY <1>2, <1>3, <1>4, <1>5, <1>6, QuietStep DEF Next

-----------------------------------------------------------------------------
(***************************************************************************)
(* The refinement.                                                         *)
(***************************************************************************)
\* No use starts.
Shrinks == \A n \in Node, k \in Key, id \in ID : InUse(n, k, id)' => InUse(n, k, id)

\* A step that leaves the local keys alone starts no use,
LEMMA ShrinksFrame == UNCHANGED local => Shrinks
  BY DEF Shrinks, InUse

\* neither does localKeys.release,
LEMMA ReleaseShrinks ==
  ASSUME TypeInv, NEW n \in Node, NEW k \in Key,
         local' = [local EXCEPT ![n] = LK!releaseKey(local[n], k)]
  PROVE  Shrinks
<1> SUFFICES ASSUME NEW m \in Node, NEW l \in Key, NEW id \in ID, InUse(m, l, id)'
             PROVE  InUse(m, l, id)
  BY DEF Shrinks
<1>1. local'[m].keys[l].verified /\ local'[m].keys[l].val = id
  BY DEF InUse
<1>2. CASE m # n
  BY <1>1, <1>2 DEF InUse, TypeInv, LocalT
<1>3. CASE m = n
  <2> DEFINE r == LK!releaseKey(local[n], k)
             old == local[n]
  <2>1. LocalOK(old) /\ local'[n] = r
    BY DEF TypeInv, LocalT
  <2>2. /\ \A j \in Key \ {k} : r.keys[j] = old.keys[j]
        /\ \/ r.keys[k].val = NoID /\ ~ r.keys[k].verified
           \/ /\ r.keys[k].val = old.keys[k].val
              /\ r.keys[k].verified = old.keys[k].verified
    BY <2>1, ReleaseEffect
  <2> HIDE DEF r
  <2> QED
    BY <1>1, <1>3, <2>1, <2>2 DEF InUse
<1> QED
  BY <1>2, <1>3

\* nor localKeys.allocate, whose new entries are not verified.
LEMMA AllocateShrinks ==
  ASSUME TypeInv, NEW n \in Node, NEW k \in Key, NEW i \in ID,
         local' = [local EXCEPT ![n] = LK!allocate(local[n], k, i)]
  PROVE  Shrinks
<1> SUFFICES ASSUME NEW m \in Node, NEW l \in Key, NEW id \in ID, InUse(m, l, id)'
             PROVE  InUse(m, l, id)
  BY DEF Shrinks
<1>1. local'[m].keys[l].verified /\ local'[m].keys[l].val = id
  BY DEF InUse
<1>2. CASE m # n
  BY <1>1, <1>2 DEF InUse, TypeInv, LocalT
<1>3. CASE m = n
  <2> DEFINE r == LK!allocate(local[n], k, i)
             old == local[n]
  <2>1. LocalOK(old) /\ local'[n] = r
    BY DEF TypeInv, LocalT
  <2>2. /\ \A j \in Key \ {k} : r.keys[j] = old.keys[j]
        /\ old.keys[k].val = NoID =>
             /\ r.keys[k] = [val |-> i, refcnt |-> 1, verified |-> FALSE]
             /\ r.ids = [old.ids EXCEPT ![i] = k]
        /\ old.keys[k].val # NoID =>
             /\ r.keys[k].val = old.keys[k].val
             /\ r.keys[k].verified = old.keys[k].verified
             /\ r.ids = old.ids
    BY <2>1, AllocateEffect, SMT
  <2> HIDE DEF r
  <2> QED
    BY <1>1, <1>3, <2>1, <2>2, SMT DEF InUse
<1> QED
  BY <1>2, <1>3

\* localKeys.verify starts the use of the one key.
LEMMA VerifyUses ==
  ASSUME TypeInv, NEW n \in Node, NEW k \in Key, NEW i \in ID, local[n].keys[k].val = i,
         local' = [local EXCEPT ![n] = LK!verify(local[n], k)]
  PROVE  \A m \in Node, l \in Key, id \in ID :
            InUse(m, l, id)' <=> InUse(m, l, id) \/ (m = n /\ l = k /\ id = i)
<1> SUFFICES ASSUME NEW m \in Node, NEW l \in Key, NEW id \in ID
             PROVE  InUse(m, l, id)' <=> InUse(m, l, id) \/ (m = n /\ l = k /\ id = i)
  OBVIOUS
<1>1. CASE m # n
  BY <1>1 DEF InUse, TypeInv, LocalT
<1>2. CASE m = n
  <2>1. /\ LocalOK(local[n]) /\ local'[n] = LK!verify(local[n], k)
        /\ local[n].keys[k].val # NoID
    BY ConstantsAssumption DEF TypeInv, LocalT
  <2>2. /\ l # k => local'[n].keys[l] = local[n].keys[l]
        /\ l = k => /\ local'[n].keys[l].val = local[n].keys[l].val
                    /\ local'[n].keys[l].verified
    BY <2>1, VerifyEffect, SMT
  <2> QED
    BY <1>2, <2>2 DEF InUse
<1> QED
  BY <1>1, <1>2

\* Only AcquireReference starts a use, and only AllocateID binds an identifier.
LEMMA QuietUses ==
  ASSUME ~ GCEnabled, TypeInv, Bound, Next,
         \A t \in Thread : ~ AllocateID(t) /\ ~ AcquireReference(t)
  PROVE  master' = master /\ Shrinks
<1>a. ASSUME NEW t \in Thread, NEW k \in Key, NEW try, Attempt(t, k, try), master' = master
      PROVE  Shrinks
  <2>1. TypeInv'
    BY TypeStep
  <2>2. SameLocal
    BY <1>a, <2>1, AttemptBound
  <2> QED
    BY <2>2 DEF SameLocal, Shrinks, InUse
<1>1. ASSUME NEW t \in Thread, NEW k \in Key, Allocate(t, k)
      PROVE  master' = master /\ Shrinks
  <2>1. Attempt(t, k, 1) /\ master' = master
    BY <1>1 DEF Allocate, kvVars
  <2> QED
    BY <1>a, <2>1
<1>2. ASSUME NEW t \in Thread, NEW k \in Key, Release(t, k)
      PROVE  master' = master /\ Shrinks
  BY <1>2, ShrinksFrame DEF Release, kvVars
<1>3. ASSUME NEW t \in Thread, ThreadStep(t)
      PROVE  master' = master /\ Shrinks
  <2>n. NodeOf[t] \in Node /\ thr[t] \in ThreadRec
    BY ConstantsAssumption DEF TypeInv, ThrT
  <2>k. thr[t].pc # "idle" => thr[t].key \in Key
    BY <2>n DEF ThreadRec
  <2>1. CASE Lock(t) \/ LockTimeout(t) \/ GetIfLocked(t) \/ Unlock(t) \/ Insert(t)
             \/ ReleaseSlave(t) \/ RecreateSlave(t)
    BY <2>1, ShrinksFrame
       DEF Lock, LockTimeout, GetIfLocked, Unlock, Insert, ReleaseSlave, RecreateSlave, kvVars
  <2>2. CASE Retry(t)
    <3>1. thr[t].key \in Key /\ master' = master
      BY <2>2, <2>k DEF Retry, kvVars
    <3> QED
      BY <1>a, <2>2, <3>1, ShrinksFrame DEF Retry
  <2>3. CASE Reserve(t)
    <3>1. thr[t].key \in Key /\ master' = master
      BY <2>3, <2>k DEF Reserve, kvVars
    <3>2. \/ local' = local
          \/ \E id \in ID : local' = [local EXCEPT ![NodeOf[t]] =
                                        LK!allocate(local[NodeOf[t]], thr[t].key, id)]
      <4>1. thr[t].val # NoID => thr[t].val \in ID
        BY <2>n DEF ThreadRec, MaybeID
      <4>2. pool[NodeOf[t]].ids \subseteq ID
        BY <2>n DEF TypeInv, PoolT, Pool!PoolType
      <4> QED
        BY <2>3, <4>1, <4>2 DEF Reserve
    <3> QED
      BY <2>n, <3>1, <3>2, AllocateShrinks, ShrinksFrame
  <2>4. CASE RecreateMaster(t)
    <3>1. thr[t].key \in Key /\ master[thr[t].val] = thr[t].key /\ local' = local
      BY <2>4, <2>n, <2>k, ConstantsAssumption
         DEF RecreateMaster, Bound, ThrB, ThrC, ThreadRec
    <3>2. \E o : CreateOnlyMaster(o, thr[t].val, thr[t].key) \/ UNCHANGED <<master, rev, events>>
      BY <2>4 DEF RecreateMaster
    <3> QED
      BY <3>1, <3>2, CreateOnlyBoundMaster, ShrinksFrame
  <2>5. CASE GetNoCache(t)
    <3>1. thr[t].key \in Key /\ master' = master
      BY <2>5, <2>k DEF GetNoCache, kvVars
    <3>2. \/ local' = local
          \/ local' = [local EXCEPT ![NodeOf[t]] =
                         LK!releaseKey(local[NodeOf[t]], thr[t].key)]
      BY <2>5 DEF GetNoCache, Undo
    <3> QED
      BY <2>n, <3>1, <3>2, ReleaseShrinks, ShrinksFrame
  <2>6. CASE ReleaseKey(t)
    <3>1. /\ thr[t].key \in Key /\ master' = master
          /\ local' = [local EXCEPT ![NodeOf[t]] =
                         LK!releaseKey(local[NodeOf[t]], thr[t].key)]
      BY <2>6, <2>k DEF ReleaseKey, kvVars
    <3> QED
      BY <2>n, <3>1, ReleaseShrinks
  <2> QED
    BY <1>3, <2>1, <2>2, <2>3, <2>4, <2>5, <2>6 DEF ThreadStep
<1>4. ASSUME NEW n \in Node, Watch(n)
      PROVE  master' = master /\ Shrinks
  BY <1>4, ShrinksFrame DEF Watch
<1>5. ASSUME NEW n \in Node, SyncStep(n)
      PROVE  master' = master /\ Shrinks
  <2>1. local' = local
    BY <1>5 DEF SyncStep, SyncStart, SyncNext, SyncMaster, SyncSlave, SyncCheck, SyncLock,
                SyncRelease, SyncUnchanged
  <2>2. CASE SyncMaster(n)
    <3>1. sync[n].key \in Key /\ master[sync[n].id] = sync[n].key
      BY <2>2 DEF SyncMaster, TypeInv, SyncT, SyncRec, Bound, SyncB
    <3>2. \E o : CreateOnlyMaster(o, sync[n].id, sync[n].key)
      BY <2>2 DEF SyncMaster
    <3> QED
      BY <2>1, <3>1, <3>2, CreateOnlyBoundMaster, ShrinksFrame
  <2>3. CASE ~ SyncMaster(n)
    BY <1>5, <2>1, <2>3, ShrinksFrame
       DEF SyncStep, SyncStart, SyncNext, SyncSlave, SyncCheck, SyncLock, SyncRelease
  <2> QED
    BY <2>2, <2>3
<1>6. CASE Failure
  <2>1. master' = master
    BY <1>6 DEF Failure, ExpireLease, ExpireOrphans, Restart, ExpireLock, ExpireOrphanLock
  <2>2. ASSUME NEW n \in Node, Restart(n)
        PROVE  Shrinks
    <3> SUFFICES ASSUME NEW m \in Node, NEW l \in Key, NEW id \in ID, InUse(m, l, id)'
                 PROVE  InUse(m, l, id)
      BY DEF Shrinks
    <3>1. local' = [local EXCEPT ![n] = LK!newLocalKeys]
      BY <2>2 DEF Restart
    <3>2. CASE m = n
      <4>1. ~ local'[m].keys[l].verified
        BY <3>1, <3>2 DEF TypeInv, LocalT, LK!newLocalKeys, LK!NoEntry
      <4> QED
        BY <4>1 DEF InUse
    <3>3. CASE m # n
      BY <3>1, <3>3 DEF InUse, TypeInv, LocalT
    <3> QED
      BY <3>2, <3>3
  <2> QED
    BY <1>6, <2>1, <2>2, ShrinksFrame
       DEF Failure, ExpireLease, ExpireOrphans, ExpireLock, ExpireOrphanLock,
           AllocatorUnchanged
<1> QED
  BY <1>1, <1>2, <1>3, <1>4, <1>5, <1>6, QuietStep DEF Next

\* The release of a reserved key that is not verified ends no use.
LEMMA ReleaseUnverified ==
  ASSUME TypeInv, NEW n \in Node, NEW k \in Key, ~ local[n].keys[k].verified,
         local' = [local EXCEPT ![n] = LK!releaseKey(local[n], k)]
  PROVE  \A m \in Node, l \in Key, id \in ID : InUse(m, l, id) => InUse(m, l, id)'
<1> SUFFICES ASSUME NEW m \in Node, NEW l \in Key, NEW id \in ID, InUse(m, l, id)
             PROVE  InUse(m, l, id)'
  OBVIOUS
<1>1. CASE m # n
  BY <1>1 DEF InUse, TypeInv, LocalT
<1>2. CASE m = n
  <2> DEFINE r == LK!releaseKey(local[n], k)
             old == local[n]
  <2>1. LocalOK(old) /\ local'[n] = r
    BY DEF TypeInv, LocalT
  <2>2. \A j \in Key \ {k} : r.keys[j] = old.keys[j]
    BY <2>1, ReleaseEffect
  <2> HIDE DEF r
  <2>3. l # k
    BY <1>2 DEF InUse
  <2> QED
    BY <1>2, <2>1, <2>2, <2>3 DEF InUse
<1> QED
  BY <1>1, <1>2

\* AllocateID binds the identifier, and starts or ends no use.
LEMMA AllocateIDUses ==
  ASSUME TypeInv, Bound, NEW t \in Thread, AllocateID(t)
  PROVE  /\ \A n \in Node, k \in Key, id \in ID : InUse(n, k, id)' <=> InUse(n, k, id)
         /\ \/ UNCHANGED master
            \/ \E id \in ID, k \in Key :
                  master[id] = NoKey /\ master' = [master EXCEPT ![id] = k]
<1>1. NodeOf[t] \in Node /\ thr[t].key \in Key /\ thr[t].val \in ID
  BY ConstantsAssumption DEF AllocateID, TypeInv, ThrT, ThreadRec
<1>2. ~ local[NodeOf[t]].keys[thr[t].key].verified
  BY DEF AllocateID, Bound, ThrB, ThrL
<1>3. \/ local' = local
      \/ local' = [local EXCEPT ![NodeOf[t]] = LK!releaseKey(local[NodeOf[t]], thr[t].key)]
  BY DEF AllocateID, Undo
<1>4. \A n \in Node, k \in Key, id \in ID : InUse(n, k, id)' <=> InUse(n, k, id)
  <2>1. CASE local' = local
    BY <2>1 DEF InUse
  <2>2. CASE local' # local
    BY <1>1, <1>2, <1>3, <2>2, ReleaseShrinks, ReleaseUnverified DEF Shrinks
  <2> QED
    BY <2>1, <2>2
<1>5. \/ UNCHANGED master
      \/ master[thr[t].val] = NoKey /\ master' = [master EXCEPT ![thr[t].val] = thr[t].key]
  BY DEF AllocateID, CreateOnlyMaster, PutMaster
<1> QED
  BY <1>1, <1>4, <1>5

\* AcquireReference starts at most the use of a bound identifier.
LEMMA AcquireUses ==
  ASSUME TypeInv, Bound, NEW t \in Thread, AcquireReference(t)
  PROVE  /\ UNCHANGED master
         /\ \/ Shrinks
            \/ \E n \in Node, k \in Key, id \in ID :
                 /\ master[id] = k
                 /\ \A m \in Node, l \in Key, i \in ID :
                      InUse(m, l, i)' <=> InUse(m, l, i) \/ (m = n /\ l = k /\ i = id)
<1>1. NodeOf[t] \in Node /\ thr[t].key \in Key /\ thr[t].val \in ID
  BY ConstantsAssumption DEF AcquireReference, TypeInv, ThrT, ThreadRec
<1>2. local[NodeOf[t]].keys[thr[t].key].val = thr[t].val
  BY DEF AcquireReference, Bound, ThrB, ThrL
<1>3. master[thr[t].val] = thr[t].key
  BY <1>1, ConstantsAssumption DEF AcquireReference, Bound, ThrB, ThrC
<1>4. CASE local' = [local EXCEPT ![NodeOf[t]] =
                       LK!releaseKey(local[NodeOf[t]], thr[t].key)]
  BY <1>1, <1>4, ReleaseShrinks DEF AcquireReference
<1>5. CASE local' = [local EXCEPT ![NodeOf[t]] = LK!verify(local[NodeOf[t]], thr[t].key)]
  <2>1. \A m \in Node, l \in Key, i \in ID :
          InUse(m, l, i)' <=>
            InUse(m, l, i) \/ (m = NodeOf[t] /\ l = thr[t].key /\ i = thr[t].val)
    BY <1>1, <1>2, <1>5, VerifyUses
  <2> QED
    BY <1>1, <1>3, <2>1, SMT DEF AcquireReference
<1>6. \/ local' = [local EXCEPT ![NodeOf[t]] = LK!releaseKey(local[NodeOf[t]], thr[t].key)]
      \/ local' = [local EXCEPT ![NodeOf[t]] = LK!verify(local[NodeOf[t]], thr[t].key)]
  BY DEF AcquireReference, Undo
<1> QED
  BY <1>4, <1>5, <1>6

\* Every step of the allocator is one of IdentityMap, or a stutter.
LEMMA RefinementStep ==
  ASSUME ~ GCEnabled, TypeInv, Bound, [Next]_vars
  PROVE  [Abstract!Next]_<<master, {p \in Node \X Key \X ID : InUse(p[1], p[2], p[3])}>>
<1> DEFINE Use == {p \in Node \X Key \X ID : InUse(p[1], p[2], p[3])}
<1>1. ASSUME Shrinks
      PROVE  Use' \subseteq Use
  BY <1>1 DEF Shrinks
<1>2. ASSUME master' = master, Shrinks
      PROVE  Abstract!Next
  BY <1>1, <1>2 DEF Abstract!Next, Abstract!Forget
<1>3. CASE UNCHANGED vars
  BY <1>2, <1>3, ShrinksFrame DEF vars
<1>4. ASSUME NEW t \in Thread, AllocateID(t)
      PROVE  [Abstract!Next]_<<master, Use>>
  <2>1. \A n \in Node, k \in Key, id \in ID : InUse(n, k, id)' <=> InUse(n, k, id)
    BY <1>4, AllocateIDUses
  <2>2. Use' = Use
    BY <2>1
  <2> HIDE DEF Use
  <2>3. \/ UNCHANGED master
        \/ \E id \in ID, k \in Key :
              master[id] = NoKey /\ master' = [master EXCEPT ![id] = k]
    BY <1>4, AllocateIDUses
  <2> QED
    BY <2>2, <2>3 DEF Abstract!Next, Abstract!Bind, Use
<1>5. ASSUME NEW t \in Thread, AcquireReference(t), ~ Shrinks
      PROVE  Abstract!Next
  <2>1. PICK n \in Node, k \in Key, id \in ID :
                 /\ master[id] = k
                 /\ \A m \in Node, l \in Key, i \in ID :
                      InUse(m, l, i)' <=> InUse(m, l, i) \/ (m = n /\ l = k /\ i = id)
    BY <1>5, AcquireUses
  <2>2. Use' = Use \cup {<<n, k, id>>}
    BY <2>1, SMT
  <2>3. master' = master
    BY <1>5, AcquireUses
  <2>4. Abstract!Acquire(n, k, id)
    BY <2>1, <2>2, <2>3 DEF Abstract!Acquire
  <2> QED
    BY <2>4 DEF Abstract!Next
<1>6. ASSUME NEW t \in Thread, AcquireReference(t), Shrinks
      PROVE  Abstract!Next
  BY <1>2, <1>6, AcquireUses
<1>7. CASE Next /\ \A t \in Thread : ~ AllocateID(t) /\ ~ AcquireReference(t)
  BY <1>2, <1>7, QuietUses
<1> QED
  BY <1>3, <1>4, <1>5, <1>6, <1>7

\* The allocator without garbage collection implements the map of identities:
\* a node uses an identifier only for the key its master key binds it to, and
\* no binding ever changes.
THEOREM Refinement ==
  ASSUME ~ GCEnabled
  PROVE  Spec => ImplementsIdentityMap
<1>1. Init => Abstract!Init
  BY SMT DEF Init, Abstract!Init, InUse, LK!newLocalKeys, LK!NoEntry
<1> QED
  BY <1>1, TypeInit, BoundInit, TypeStep, BoundStep, RefinementStep, PTL
     DEF Spec, ImplementsIdentityMap, Abstract!Spec

\* No identifier stands for two different keys in use on any two nodes, as long
\* as no master key is ever deleted.
THEOREM NoAliasingWithoutGC ==
  ASSUME ~ GCEnabled
  PROVE  Spec => []NoAliasing
<1>1. TypeInv /\ Bound => NoAliasing
  <2> SUFFICES ASSUME TypeInv, Bound, NEW n \in Node, NEW m \in Node, NEW k \in Key,
                      NEW l \in Key, NEW id \in ID, InUse(n, k, id), InUse(m, l, id)
               PROVE  k = l
    BY DEF NoAliasing
  <2> QED
    BY SMT DEF Bound, LocalV, InUse
<1> QED
  BY <1>1, TypeInit, BoundInit, TypeStep, BoundStep, PTL DEF Spec

=============================================================================
