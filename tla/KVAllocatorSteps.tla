-------------------------- MODULE KVAllocatorSteps --------------------------
(***************************************************************************)
(* The steps of threads, watches and syncers preserve Bound when nothing   *)
(* is collected.                                                           *)
(***************************************************************************)
EXTENDS KVAllocatorBound

\* Most leaves are first-order; the few that need SMT say so.
USE ZenonT(20)

\* A step of a thread without slaveKeysMutex preserves Bound,
LEMMA FreeStep ==
  ASSUME TypeInv, TypeInv', Bound, NEW t \in Thread,
         UNCHANGED <<master, slave, events, mutex, sync, prot, gc>>, SameLocal,
         \A u \in Thread \ {t} : thr'[u] = thr[u],
         thr[t].pc \notin MutexPC, thr'[t].pc \notin MutexPC, ThrC(t)', CacheB'
  PROVE  Bound'
<1>1. Grows
  BY DEF Grows
<1>2. LocalV' /\ LocalR' /\ IdsB' /\ ThrB'
  BY <1>1, FreeThread
<1> QED
  BY <1>1, <1>2, BoundFrame DEF Bound

\* an attempt of Allocate is such a step,
LEMMA AttemptBound ==
  ASSUME TypeInv, TypeInv', Bound, NEW t \in Thread, NEW k \in Key, NEW try,
         Attempt(t, k, try), master' = master
  PROVE  /\ SameLocal
         /\ \A u \in Thread \ {t} : thr'[u] = thr[u]
         /\ thr'[t].pc \in {"insert", "lock"}
         /\ ThrC(t)'
<1> DEFINE n == NodeOf[t]
           hit == LK!useHit(local[n], k)
<1>n. n \in Node
  BY ConstantsAssumption
<1>l. LocalOK(local[n])
  BY <1>n DEF TypeInv, LocalT
<1> DEFINE r == [IdleThread EXCEPT !.pc = IF hit THEN "insert" ELSE "lock",
                                   !.val = IF hit THEN LK!lookupKey(local[n], k) ELSE NoID,
                                   !.key = k, !.try = try]
<1>1. thr' = [thr EXCEPT ![t] = r]
  BY DEF Attempt
<1>r. /\ r.pc = (IF hit THEN "insert" ELSE "lock") /\ r.key = k
      /\ r.val = (IF hit THEN LK!lookupKey(local[n], k) ELSE NoID)
  BY DEF IdleThread
<1> HIDE DEF r
<1>2. thr'[t] = r
  BY <1>1 DEF TypeInv, ThrT
<1>3. \A u \in Thread \ {t} : thr'[u] = thr[u]
  BY <1>1 DEF TypeInv, ThrT
<1>4. CASE hit
  <2>1. local[n].keys[k].verified
    BY <1>4 DEF LK!useHit
  <2>2. local' = [local EXCEPT ![n] = LK!useKey(local[n], k)]
    BY <1>4 DEF Attempt, IdleThread
  <2>3. local'[n] = LK!useKey(local[n], k)
    BY <1>n, <2>2 DEF TypeInv, LocalT
  <2>4. /\ \A l \in Key \ {k} : local'[n].keys[l] = local[n].keys[l]
        /\ local'[n].keys[k].val = local[n].keys[k].val
        /\ local'[n].keys[k].verified = local[n].keys[k].verified
        /\ local'[n].ids = local[n].ids
    BY <1>l, <2>3, UseEffect, SMT
  <2>5. \A m \in Node \ {n} : local'[m] = local[m]
    BY <2>2 DEF TypeInv, LocalT
  <2>6. SameLocal
    <3> SUFFICES ASSUME NEW m \in Node
                 PROVE  /\ local'[m].ids = local[m].ids
                        /\ \A l \in Key :
                              /\ local'[m].keys[l].val = local[m].keys[l].val
                              /\ local'[m].keys[l].verified = local[m].keys[l].verified
                              /\ \/ local'[m].keys[l] = local[m].keys[l]
                                 \/ local[m].keys[l].verified
      BY DEF SameLocal
    <3>1. CASE m # n
      BY <2>5, <3>1
    <3>2. CASE m = n
      BY <2>1, <2>4, <3>2
    <3> QED
      BY <3>1, <3>2
  <2>7. ThrC(t)'
    <3>1. master[local[n].keys[k].val] = k /\ local[n].keys[k].val \in ID
      BY <1>n, <2>1, VerifiedID DEF Bound, LocalV
    <3>2. thr'[t].pc = "insert" /\ thr'[t].key = k /\ thr'[t].val = local[n].keys[k].val
      BY <1>2, <1>4, <1>r DEF LK!lookupKey
    <3> QED
      BY <3>1, <3>2 DEF ThrC
  <2> QED
    BY <1>2, <1>3, <1>4, <1>r, <2>6, <2>7
<1>5. CASE ~ hit
  <2>1. local' = local
    BY <1>5 DEF Attempt, IdleThread
  <2>2. thr'[t].pc = "lock" /\ thr'[t].val = NoID
    BY <1>2, <1>5, <1>r
  <2> QED
    BY <1>3, <2>1, <2>2 DEF SameLocal, ThrC
<1> QED
  BY <1>4, <1>5

\* and so are the other ones between two uses of the mutex.
LEMMA FreeBound ==
  ASSUME TypeInv, TypeInv', Bound, NEW t \in Thread, NEW k \in Key,
         \/ Allocate(t, k) \/ Release(t, k) \/ Lock(t) \/ LockTimeout(t)
         \/ GetIfLocked(t) \/ Unlock(t) \/ Insert(t) \/ Retry(t)
  PROVE  Bound'
<1> DEFINE n == NodeOf[t]
<1> USE DEF MutexPC
<1>n. n \in Node
  BY ConstantsAssumption
<1>t. thr \in [Thread -> ThreadRec] /\ thr[t] \in ThreadRec
  BY DEF TypeInv, ThrT
<1>c. UNCHANGED <<master, cache>> => CacheB'
  BY DEF Bound, CacheB
<1>l. UNCHANGED local => SameLocal
  BY DEF SameLocal
<1>b. ThrC(t)
  BY DEF Bound, ThrB
<1>1. CASE Allocate(t, k)
  <2>1. Attempt(t, k, 1) /\ thr[t].pc = "idle"
        /\ UNCHANGED <<master, slave, events, cache, mutex, sync, prot, gc>>
    BY <1>1 DEF Allocate, kvVars
  <2>2. /\ SameLocal /\ \A u \in Thread \ {t} : thr'[u] = thr[u]
        /\ thr'[t].pc \in {"insert", "lock"} /\ ThrC(t)'
    BY <2>1, AttemptBound
  <2> QED
    BY <1>c, <2>1, <2>2, FreeStep
<1>2. CASE Lock(t)
  <2>1. /\ thr[t].pc = "lock"
        /\ UNCHANGED <<master, slave, events, cache, local, mutex, sync, prot, gc>>
        /\ Goto(t, "get")
    BY <1>2 DEF Lock
  <2>2. /\ thr'[t].pc = "get" /\ thr'[t].val = thr[t].val
        /\ \A u \in Thread \ {t} : thr'[u] = thr[u]
    BY <1>t, <2>1 DEF Goto, ThreadRec
  <2>3. ThrC(t)'
    BY <1>b, <2>1, <2>2 DEF ThrC
  <2> QED
    BY <1>c, <1>l, <2>1, <2>2, <2>3, FreeStep
<1>3. CASE LockTimeout(t)
  <2>1. /\ thr[t].pc = "lock"
        /\ UNCHANGED <<master, slave, events, cache, local, mutex, sync, prot, gc>>
        /\ Goto(t, "retry")
    BY <1>3 DEF LockTimeout, kvVars
  <2>2. thr'[t].pc = "retry" /\ \A u \in Thread \ {t} : thr'[u] = thr[u]
    BY <1>t, <2>1 DEF Goto, ThreadRec
  <2>3. ThrC(t)'
    BY <2>2 DEF ThrC
  <2> QED
    BY <1>c, <1>l, <2>1, <2>2, <2>3, FreeStep
<1>4. CASE GetIfLocked(t)
  <2> DEFINE key == thr[t].key
             hit == cache[n].keys[key]
  <2>1. /\ thr[t].pc = "get"
        /\ UNCHANGED <<master, slave, events, cache, local, mutex, sync, prot, gc>>
    BY <1>4 DEF GetIfLocked, kvVars
  <2>2. key \in Key
    BY <1>t, <2>1 DEF ThreadRec
  <2>3. PICK o \in ReadOutcome, v \in Found(key) :
          thr' = [thr EXCEPT ![t] =
               CASE hit # NoID -> [@ EXCEPT !.pc = "reserve", !.val = hit]
                 [] hit = NoID /\ o = "ok" /\ Holds(t) ->
                      [@ EXCEPT !.pc = "reserve", !.val = v]
                 [] OTHER -> [@ EXCEPT !.pc = "unlock"]]
    BY <1>4 DEF GetIfLocked
  <2>4. hit # NoID => master[hit] = key
    BY <1>n, <2>2 DEF Bound, CacheB
  <2>5. v # NoID => master[v] = key
    BY <2>2, SMT DEF Bound, SlaveB, Found
  <2>6. \A u \in Thread \ {t} : thr'[u] = thr[u]
    BY <1>t, <2>3
  <2>7. \/ thr'[t] = [thr[t] EXCEPT !.pc = "reserve", !.val = hit] /\ hit # NoID
        \/ thr'[t] = [thr[t] EXCEPT !.pc = "reserve", !.val = v]
        \/ thr'[t] = [thr[t] EXCEPT !.pc = "unlock"]
    BY <1>t, <2>3
  <2> HIDE DEF hit
  <2>8. thr'[t].pc \in {"reserve", "unlock"} /\ thr'[t].key = key
    BY <1>t, <2>7 DEF ThreadRec
  <2>9. ThrC(t)'
    BY <1>b, <1>t, <2>1, <2>4, <2>5, <2>7 DEF ThrC, ThreadRec
  <2> QED
    BY <1>c, <1>l, <2>1, <2>6, <2>8, <2>9, FreeStep
<1>5. CASE Unlock(t)
  <2>1. /\ thr[t].pc = "unlock"
        /\ UNCHANGED <<master, slave, events, cache, local, mutex, sync, prot, gc>>
        /\ Goto(t, IF thr[t].val = NoID THEN "retry" ELSE "insert")
    BY <1>5 DEF Unlock
  <2>2. /\ thr'[t] = [thr[t] EXCEPT !.pc = IF thr[t].val = NoID THEN "retry" ELSE "insert"]
        /\ \A u \in Thread \ {t} : thr'[u] = thr[u]
    BY <1>t, <2>1 DEF Goto, ThreadRec
  <2>3. /\ thr'[t].pc \in {"retry", "insert"}
        /\ thr'[t].key = thr[t].key /\ thr'[t].val = thr[t].val
    BY <1>t, <2>2 DEF ThreadRec
  <2>4. ThrC(t)'
    BY <1>b, <2>1, <2>3 DEF ThrC
  <2> QED
    BY <1>c, <1>l, <2>1, <2>2, <2>3, <2>4, FreeStep
<1>6. CASE Insert(t)
  <2> DEFINE key == thr[t].key
  <2>1. /\ thr[t].pc = "insert"
        /\ UNCHANGED <<master, slave, events, local, mutex, sync, prot, gc>>
        /\ cache' = [cache EXCEPT ![n] = Cache!insertKey(@, key, thr[t].val)]
        /\ thr' = [thr EXCEPT ![t] = IdleThread]
    BY <1>6 DEF Insert, kvVars
  <2>2. thr'[t].pc = "idle" /\ \A u \in Thread \ {t} : thr'[u] = thr[u]
    BY <1>t, <2>1 DEF IdleThread
  <2>3. ThrC(t)'
    BY <2>2 DEF ThrC
  <2>4. key \in Key /\ thr[t].val \in ID /\ master[thr[t].val] = key
    BY <1>b, <1>t, <2>1, ConstantsAssumption DEF ThreadRec, ThrC
  <2>5. CacheB'
    <3> SUFFICES ASSUME NEW m \in Node, NEW l \in Key, cache'[m].keys[l] # NoID
                 PROVE  master'[cache'[m].keys[l]] = l
      BY DEF CacheB
    <3>1. cache \in [Node -> Cache!CacheType]
      BY DEF TypeInv, CacheT
    <3>2. CASE m # n
      BY <2>1, <3>1, <3>2 DEF Bound, CacheB
    <3>3. CASE m = n
      <4>1. cache'[n].keys = [cache[n].keys EXCEPT ![key] = thr[t].val]
        BY <1>n, <2>1, <3>1 DEF Cache!insertKey
      <4>2. cache[n].keys \in [Key -> ID \cup {NoID}]
        BY <1>n, <3>1 DEF Cache!CacheType
      <4> QED
        BY <2>1, <2>4, <3>3, <4>1, <4>2, SMT DEF Bound, CacheB
    <3> QED
      BY <3>2, <3>3
  <2> QED
    BY <1>l, <2>1, <2>2, <2>3, <2>5, FreeStep
<1>7. CASE Retry(t)
  <2>1. /\ thr[t].pc = "retry"
        /\ UNCHANGED <<master, slave, events, cache, mutex, sync, prot, gc>>
    BY <1>7 DEF Retry, kvVars
  <2>2. CASE Attempt(t, thr[t].key, thr[t].try + 1)
    <3>1. thr[t].key \in Key
      BY <1>t, <2>1 DEF ThreadRec
    <3>2. /\ SameLocal /\ \A u \in Thread \ {t} : thr'[u] = thr[u]
          /\ thr'[t].pc \in {"insert", "lock"} /\ ThrC(t)'
      BY <2>1, <2>2, <3>1, AttemptBound
    <3> QED
      BY <1>c, <2>1, <3>2, FreeStep
  <2>3. CASE thr' = [thr EXCEPT ![t] = IdleThread] /\ UNCHANGED local
    <3>1. thr'[t].pc = "idle" /\ \A u \in Thread \ {t} : thr'[u] = thr[u]
      BY <1>t, <2>3 DEF IdleThread
    <3>2. ThrC(t)'
      BY <3>1 DEF ThrC
    <3> QED
      BY <1>c, <1>l, <2>1, <2>3, <3>1, <3>2, FreeStep
  <2> QED
    BY <1>7, <2>2, <2>3 DEF Retry
<1>8. CASE Release(t, k)
  <2> DEFINE r == [IdleThread EXCEPT !.pc = "release", !.key = k]
  <2>1. /\ thr[t].pc = "idle"
        /\ UNCHANGED <<master, slave, events, cache, local, mutex, sync, prot, gc>>
        /\ thr' = [thr EXCEPT ![t] = r]
    BY <1>8 DEF Release, kvVars
  <2>2. r.pc = "release"
    BY DEF IdleThread
  <2> HIDE DEF r
  <2>3. thr'[t].pc = "release" /\ \A u \in Thread \ {t} : thr'[u] = thr[u]
    BY <1>t, <2>1, <2>2
  <2>4. ThrC(t)'
    BY <2>3 DEF ThrC
  <2> QED
    BY <1>c, <1>l, <2>1, <2>3, <2>4, FreeStep
<1> QED
  BY <1>1, <1>2, <1>3, <1>4, <1>5, <1>6, <1>7, <1>8

\* A step that gives slaveKeysMutex back, or keeps what its thread has reserved.
LEMMA OwnerStep ==
  ASSUME TypeInv, TypeInv', Bound, Grows, NEW t \in Thread, NEW n \in Node, n = NodeOf[t],
         Alone(t), UNCHANGED <<cache, sync, prot, gc>>, SlaveB', EventB',
         LocalN(n), ThrM(t)', ThrC(t)', ThrL(t)',
         \A k \in Key : Reserved(n, k)' =>
                          local'[n].keys[k].refcnt = 1 /\ Reserver(n, k, t)'
  PROVE  Bound'
<1>1. LocalV' /\ LocalR' /\ IdsB' /\ ThrB' /\ SyncM'
  BY OwnerThread DEF LocalN
<1> QED
  BY <1>1, BoundFrame DEF Bound

\* The pieces of such steps: a thread that returns,
LEMMA ReturnBound ==
  ASSUME TypeInv, NEW t \in Thread, NEW val, Return(t, val),
         val = NoID \/ master'[val] = thr[t].key
  PROVE  /\ \A u \in Thread \ {t} : thr'[u] = thr[u]
         /\ \A m \in Node \ {NodeOf[t]} : mutex'[m] = mutex[m]
         /\ ThrM(t)' /\ ThrC(t)' /\ ThrL(t)'
<1>1. /\ thr'[t].pc = "unlock" /\ thr'[t].val = val /\ thr'[t].key = thr[t].key
      /\ \A u \in Thread \ {t} : thr'[u] = thr[u]
  BY DEF Return, TypeInv, ThrT, ThreadRec
<1>2. \A m \in Node \ {NodeOf[t]} : mutex'[m] = mutex[m]
  BY DEF Return, TypeInv, MutexT
<1> QED
  BY <1>1, <1>2 DEF ThrM, ThrC, ThrL, MutexPC

\* one that undoes its reservation,
LEMMA UndoBound ==
  ASSUME TypeInv, TypeInv', Bound, Grows, NEW t \in Thread, Undo(t), thr[t].pc \in MutexPC
  PROVE  /\ Alone(t) /\ LocalN(NodeOf[t])
         /\ ThrM(t)' /\ ThrC(t)' /\ ThrL(t)'
         /\ \A l \in Key : ~ Reserved(NodeOf[t], l)'
<1> DEFINE n == NodeOf[t]
           k == thr[t].key
<1>n. n \in Node
  BY ConstantsAssumption
<1>k. k \in Key
  BY DEF TypeInv, ThrT, ThreadRec, MutexPC
<1>m. mutex[n] = t
  BY DEF Bound, ThrB, ThrM
<1>1. Return(t, NoID) /\ local' = [local EXCEPT ![n] = LK!releaseKey(local[n], k)]
  BY DEF Undo
<1>2. /\ \A u \in Thread \ {t} : thr'[u] = thr[u]
      /\ \A m \in Node \ {n} : mutex'[m] = mutex[m]
      /\ ThrM(t)' /\ ThrC(t)' /\ ThrL(t)'
  BY <1>1, ReturnBound
<1>3. \A m \in Node \ {n} : local'[m] = local[m]
  BY <1>1 DEF TypeInv, LocalT
<1>4. \A l \in Key : Reserved(n, l) => l = k /\ local[n].keys[l].refcnt = 1
  BY <1>n, <1>m, OneReserved
<1>5. LocalN(n) /\ \A l \in Key : ~ Reserved(n, l)'
  BY <1>n, <1>k, <1>1, <1>4, ReleaseLocal
<1> QED
  BY <1>m, <1>2, <1>3, <1>5 DEF Alone

\* and one that goes on with the mutex held.
LEMMA GotoBound ==
  ASSUME TypeInv, TypeInv', Bound, Grows, NEW t \in Thread, NEW pc \in ThreadPC,
         Goto(t, pc), UNCHANGED <<mutex, local>>,
         <<thr[t].pc, pc>> \in {<<"check", "create">>, <<"create", "acquire">>,
                                <<"remaster", "reslave">>, <<"reslave", "acquire">>},
         pc # "create" => master'[thr[t].val] = thr[t].key
  PROVE  /\ Alone(t) /\ LocalN(NodeOf[t])
         /\ ThrM(t)' /\ ThrC(t)' /\ ThrL(t)'
         /\ \A k \in Key : Reserved(NodeOf[t], k)' =>
              local'[NodeOf[t]].keys[k].refcnt = 1 /\ Reserver(NodeOf[t], k, t)'
<1> DEFINE n == NodeOf[t]
<1>n. n \in Node
  BY ConstantsAssumption
<1>1. /\ thr'[t].pc = pc /\ thr'[t].val = thr[t].val /\ thr'[t].key = thr[t].key
      /\ \A u \in Thread \ {t} : thr'[u] = thr[u]
  BY DEF Goto, TypeInv, ThrT, ThreadRec
<1>2. mutex[n] = t
  BY DEF Bound, ThrB, ThrM, MutexPC
<1>3. Alone(t) /\ ThrM(t)'
  BY <1>1, <1>2 DEF Alone, ThrM
<1>4. ThrC(t)' /\ ThrL(t)'
  BY <1>1 DEF Bound, ThrB, ThrC, ThrL
<1>5. LocalN(n)
  BY <1>n, BoundFrame DEF LocalN, LocalV, IdsB
<1>6. ASSUME NEW k \in Key, Reserved(n, k)'
      PROVE  local'[n].keys[k].refcnt = 1 /\ Reserver(n, k, t)'
  <2>1. Reserved(n, k)
    BY <1>6 DEF Reserved
  <2>2. local[n].keys[k].refcnt = 1 /\ Reserver(n, k, t)
    BY <1>n, <1>2, <2>1, SMT DEF Bound, LocalR, Reserver
  <2>3. pc \in {"create", "acquire"}
    BY <2>2 DEF Reserver
  <2> QED
    BY <1>1, <2>2, <2>3 DEF Reserver
<1> QED
  BY <1>3, <1>4, <1>5, <1>6

\* The requests to etcd.
LEMMA CreateOnlyMasterEvents ==
  ASSUME TypeInv, Bound, NEW o, NEW id \in ID, NEW k \in Key, CreateOnlyMaster(o, id, k)
  PROVE  EventB'
<1>1. CASE o # "fail" /\ master[id] = NoKey
  <2> DEFINE e == [typ |-> "upsert", id |-> id, key |-> k]
  <2>1. e.typ = "upsert" /\ master'[e.id] = e.key
    BY <1>1 DEF TypeInv, MasterT, CreateOnlyMaster, PutMaster
  <2>2. events' = [n \in Node |-> Append(events[n], e)]
    BY <1>1 DEF CreateOnlyMaster, PutMaster, Notify
  <2> HIDE DEF e
  <2>3. ASSUME NEW n \in Node, NEW i \in 1 .. Len(events'[n])
        PROVE  events'[n][i].typ = "upsert" /\ master'[events'[n][i].id] = events'[n][i].key
    <3>1. events[n] \in Seq(Event) /\ events'[n] = Append(events[n], e)
      BY <2>2 DEF TypeInv, MasterT
    <3>2. CASE i = Len(events[n]) + 1
      BY <2>1, <3>1, <3>2, SMT
    <3>3. CASE i # Len(events[n]) + 1
      <4>1. i \in 1 .. Len(events[n]) /\ events'[n][i] = events[n][i]
        BY <3>1, <3>3, SMT
      <4>2. events[n][i] \in Event
        BY <3>1, <4>1, SMT
      <4>3. events[n][i].typ = "upsert" /\ master[events[n][i].id] = events[n][i].key
        BY <4>1 DEF Bound, EventB
      <4> QED
        BY <4>1, <4>2, <4>3, CreateOnlyMasterGrows, ConstantsAssumption DEF Event, Grows
    <3> QED
      BY <3>2, <3>3
  <2> QED
    BY <2>3 DEF EventB
<1>2. CASE ~ (o # "fail" /\ master[id] = NoKey)
  BY <1>2 DEF CreateOnlyMaster, Bound, EventB
<1> QED
  BY <1>1, <1>2

\* CreateOnly of a master key that is bound changes nothing.
LEMMA CreateOnlyBoundMaster ==
  ASSUME NEW o, NEW id, NEW k \in Key, CreateOnlyMaster(o, id, k), master[id] = k
  PROVE  UNCHANGED <<master, rev, events>>
  BY ConstantsAssumption DEF CreateOnlyMaster

\* A slave key put for a bound pair,
LEMMA PutSlaveBound ==
  ASSUME TypeInv, Bound, Grows, NEW n \in Node, NEW k \in Key, NEW id \in ID,
         PutSlave(n, k, id), master'[id] = k
  PROVE  SlaveB'
<1> SUFFICES ASSUME NEW m \in Node, NEW l \in Key, slave'[m][l] # NoID
             PROVE  master'[slave'[m][l]] = l
  BY DEF SlaveB
<1>1. slave' = [slave EXCEPT ![n][k] = id] /\ slave \in [Node -> [Key -> MaybeID]]
  BY DEF PutSlave, TypeInv, SlaveT
<1>2. CASE m = n /\ l = k
  BY <1>1, <1>2
<1>3. CASE ~ (m = n /\ l = k)
  <2>1. slave'[m][l] = slave[m][l] /\ slave[m][l] \in MaybeID
    BY <1>1, <1>3
  <2>2. slave[m][l] \in ID /\ master[slave[m][l]] = l
    BY <2>1 DEF MaybeID, Bound, SlaveB
  <2> QED
    BY <2>1, <2>2, ConstantsAssumption DEF Grows
<1> QED
  BY <1>2, <1>3

\* a slave key created for one,
LEMMA CreateOnlySlaveBound ==
  ASSUME TypeInv, Bound, Grows, NEW o, NEW n \in Node, NEW k \in Key, NEW id \in ID,
         CreateOnlySlave(o, n, k, id), master'[id] = k
  PROVE  SlaveB'
  BY PutSlaveBound, BoundFrame DEF CreateOnlySlave

\* slave keys that expire
LEMMA FewerSlavesBound ==
  ASSUME TypeInv, Bound, Grows,
         \A m \in Node, l \in Key : slave'[m][l] \in {slave[m][l], NoID}
  PROVE  SlaveB'
<1> SUFFICES ASSUME NEW m \in Node, NEW l \in Key, slave'[m][l] # NoID
             PROVE  master'[slave'[m][l]] = l
  BY DEF SlaveB
<1>1. slave'[m][l] = slave[m][l] /\ slave[m][l] \in MaybeID
  BY DEF TypeInv, SlaveT
<1>2. slave[m][l] \in ID /\ master[slave[m][l]] = l
  BY <1>1 DEF MaybeID, Bound, SlaveB
<1> QED
  BY <1>1, <1>2, ConstantsAssumption DEF Grows

\* and a slave key that is deleted leave the slave keys bound.
LEMMA DeleteSlaveBound ==
  ASSUME TypeInv, Bound, Grows, NEW o, NEW n \in Node, NEW k \in Key, DeleteSlave(o, n, k)
  PROVE  SlaveB'
<1>1. \A m \in Node, l \in Key : slave'[m][l] \in {slave[m][l], NoID}
  BY SMT DEF TypeInv, SlaveT, DeleteSlave
<1> QED
  BY <1>1, FewerSlavesBound

\* Reserve preserves Bound: what it reserves is bound or held under the mutex.
LEMMA ReserveBound ==
  ASSUME TypeInv, TypeInv', Bound, NEW t \in Thread, Reserve(t)
  PROVE  Bound'
<1> DEFINE n == NodeOf[t]
           k == thr[t].key
           found == thr[t].val
<1>n. n \in Node
  BY ConstantsAssumption
<1>t. thr \in [Thread -> ThreadRec] /\ thr[t] \in ThreadRec
  BY DEF TypeInv, ThrT
<1>0. /\ thr[t].pc = "reserve" /\ mutex[n] = NoOne
      /\ UNCHANGED <<master, slave, events, cache, sync, prot, gc>>
  BY DEF Reserve, kvVars
<1>k. k \in Key
  BY <1>t, <1>0 DEF ThreadRec
<1>g. Grows /\ SlaveB' /\ EventB'
  BY <1>0, BoundFrame DEF Grows
<1>c. found # NoID => found \in ID /\ master[found] = k
  BY <1>t, <1>0 DEF Bound, ThrB, ThrC, ThreadRec, MaybeID
<1>r. \A l \in Key : ~ Reserved(n, l)
  BY <1>n, <1>0, NothingReserved
<1>s. UNCHANGED local => LocalN(n) /\ \A l \in Key : ~ Reserved(n, l)'
  BY <1>n, <1>g, <1>r, BoundFrame DEF LocalN, LocalV, IdsB, Reserved
<1>1. CASE Return(t, NoID) /\ UNCHANGED <<local, pool>>
  <2>1. Alone(t) /\ ThrM(t)' /\ ThrC(t)' /\ ThrL(t)'
    BY <1>0, <1>1, ReturnBound DEF Alone
  <2> QED
    BY <1>n, <1>0, <1>1, <1>g, <1>s, <2>1, OwnerStep
<1>2. CASE /\ found # NoID
           /\ ~ LK!allocateConflict(local[n], k, found)
           /\ local' = [local EXCEPT ![n] = LK!allocate(@, k, found)]
           /\ mutex' = [mutex EXCEPT ![n] = t]
           /\ Goto(t, "acquire")
  <2>1. /\ LocalN(n)
        /\ local'[n].keys[k].val = found
        /\ \A l \in Key : Reserved(n, l)' => l = k /\ local'[n].keys[l].refcnt = 1
    BY <1>n, <1>k, <1>c, <1>g, <1>r, <1>2, AllocateLocal
       DEF LK!allocateConflict, LK!lookupKey
  <2>2. /\ thr'[t].pc = "acquire" /\ thr'[t].val = found /\ thr'[t].key = k
        /\ \A u \in Thread \ {t} : thr'[u] = thr[u]
    BY <1>2, <1>t DEF Goto, ThreadRec
  <2>3. mutex'[n] = t /\ \A m \in Node \ {n} : mutex'[m] = mutex[m] /\ local'[m] = local[m]
    BY <1>n, <1>2 DEF TypeInv, MutexT, LocalT
  <2>4. Alone(t)
    BY <1>0, <2>2, <2>3 DEF Alone
  <2>5. ThrM(t)' /\ ThrC(t)' /\ ThrL(t)'
    BY <1>0, <1>c, <2>1, <2>2, <2>3 DEF ThrM, ThrC, ThrL
  <2>6. \A l \in Key : Reserved(n, l)' =>
                          local'[n].keys[l].refcnt = 1 /\ Reserver(n, l, t)'
    BY <2>1, <2>2, <2>3 DEF Reserver
  <2> QED
    BY <1>n, <1>0, <1>g, <2>1, <2>4, <2>5, <2>6, OwnerStep
<1>3. CASE /\ LK!lookupKey(local[n], k) # NoID
           /\ mutex' = [mutex EXCEPT ![n] = t]
           /\ thr' = [thr EXCEPT ![t].pc = "remaster", ![t].val = LK!lookupKey(local[n], k)]
           /\ UNCHANGED <<local, pool>>
  <2> DEFINE mine == local[n].keys[k].val
  <2>1. mine # NoID /\ local[n].keys[k].verified
    BY <1>3, <1>k, <1>r DEF LK!lookupKey, Reserved
  <2>2. master[mine] = k
    BY <1>n, <1>k, <2>1 DEF Bound, LocalV
  <2>3. /\ thr'[t].pc = "remaster" /\ thr'[t].val = mine /\ thr'[t].key = k
        /\ \A u \in Thread \ {t} : thr'[u] = thr[u]
    BY <1>3, <1>t DEF LK!lookupKey, ThreadRec
  <2>4. mutex'[n] = t /\ \A m \in Node \ {n} : mutex'[m] = mutex[m]
    BY <1>n, <1>3 DEF TypeInv, MutexT
  <2>5. Alone(t)
    BY <1>0, <1>3, <2>3, <2>4 DEF Alone
  <2>6. ThrM(t)' /\ ThrC(t)' /\ ThrL(t)'
    BY <1>0, <1>3, <2>2, <2>3, <2>4 DEF ThrM, ThrC, ThrL
  <2> QED
    BY <1>n, <1>0, <1>3, <1>g, <1>s, <2>5, <2>6, OwnerStep
<1>4. CASE /\ LK!lookupKey(local[n], k) = NoID
           /\ \E id \in pool[n].ids :
                /\ local' = [local EXCEPT ![n] = LK!allocate(@, k, id)]
                /\ thr' = [thr EXCEPT ![t].pc = "check", ![t].val = id, ![t].new = TRUE]
           /\ mutex' = [mutex EXCEPT ![n] = t]
  <2>1. PICK id \in pool[n].ids :
                /\ local' = [local EXCEPT ![n] = LK!allocate(@, k, id)]
                /\ thr' = [thr EXCEPT ![t].pc = "check", ![t].val = id, ![t].new = TRUE]
    BY <1>4
  <2>2. id \in ID /\ local[n].keys[k].val = NoID
    BY <1>n, <1>4 DEF TypeInv, PoolT, Pool!PoolType, LK!lookupKey
  <2>3. /\ LocalN(n)
        /\ local'[n].keys[k].val = id /\ ~ local'[n].keys[k].verified
        /\ \A l \in Key : Reserved(n, l)' => l = k /\ local'[n].keys[l].refcnt = 1
    BY <1>n, <1>k, <1>g, <1>r, <2>1, <2>2, AllocateLocal
  <2>4. /\ thr'[t].pc = "check" /\ thr'[t].val = id /\ thr'[t].key = k
        /\ \A u \in Thread \ {t} : thr'[u] = thr[u]
    BY <2>1, <1>t DEF ThreadRec
  <2>5. mutex'[n] = t /\ \A m \in Node \ {n} : mutex'[m] = mutex[m] /\ local'[m] = local[m]
    BY <1>n, <1>4, <2>1 DEF TypeInv, MutexT, LocalT
  <2>6. Alone(t)
    BY <1>0, <2>4, <2>5 DEF Alone
  <2>7. ThrM(t)' /\ ThrC(t)' /\ ThrL(t)'
    BY <2>3, <2>4, <2>5 DEF ThrM, ThrC, ThrL
  <2>8. \A l \in Key : Reserved(n, l)' =>
                          local'[n].keys[l].refcnt = 1 /\ Reserver(n, l, t)'
    BY <2>3, <2>4, <2>5 DEF Reserver
  <2> QED
    BY <1>n, <1>0, <1>g, <2>3, <2>6, <2>7, <2>8, OwnerStep
<1> QED
  BY <1>1, <1>2, <1>3, <1>4 DEF Reserve

\* What a thread carries between two requests it makes with slaveKeysMutex held.
LEMMA OwnerFacts ==
  ASSUME TypeInv, Bound, NEW t \in Thread, thr[t].pc \in MutexPC
  PROVE  /\ NodeOf[t] \in Node
         /\ thr \in [Thread -> ThreadRec]
         /\ thr[t].key \in Key /\ mutex[NodeOf[t]] = t
         /\ thr[t].pc # "delslave" => thr[t].val \in ID
         /\ thr[t].pc \in {"remaster", "reslave", "acquire"} => master[thr[t].val] = thr[t].key
<1>1. thr \in [Thread -> ThreadRec] /\ thr[t] \in ThreadRec
  BY DEF TypeInv, ThrT
<1>2. thr[t].key \in Key /\ mutex[NodeOf[t]] = t
  BY <1>1 DEF ThreadRec, MutexPC, Bound, ThrB, ThrM
<1>3. thr[t].pc # "delslave" => thr[t].val \in ID
  BY <1>1 DEF ThreadRec, MutexPC
<1>4. thr[t].pc \in {"remaster", "reslave", "acquire"} => master[thr[t].val] = thr[t].key
  BY <1>3, ConstantsAssumption DEF Bound, ThrB, ThrC
<1> QED
  BY <1>1, <1>2, <1>3, <1>4, ConstantsAssumption

\* A thread that is not allocating an identifier has reserved nothing.
LEMMA OwnerReserved ==
  ASSUME TypeInv, Bound, Grows, NEW t \in Thread, UNCHANGED local,
         thr[t].pc \in {"remaster", "reslave", "delslave"}
  PROVE  LocalN(NodeOf[t]) /\ \A l \in Key : ~ Reserved(NodeOf[t], l)'
<1> DEFINE n == NodeOf[t]
<1>1. n \in Node /\ mutex[n] = t
  BY OwnerFacts DEF MutexPC
<1>2. \A l \in Key : ~ Reserved(n, l)
  BY <1>1, NothingReserved
<1> QED
  BY <1>1, <1>2, BoundFrame DEF LocalN, LocalV, IdsB, Reserved

\* Recreating the master key of a key in use preserves Bound,
LEMMA RecreateMasterBound ==
  ASSUME TypeInv, TypeInv', Bound, NEW t \in Thread, RecreateMaster(t)
  PROVE  Bound'
<1> DEFINE n == NodeOf[t]
           k == thr[t].key
           id == thr[t].val
<1>0. thr[t].pc = "remaster" /\ UNCHANGED <<slave, cache, local, sync, prot, gc>>
  BY DEF RecreateMaster
<1>a. /\ n \in Node /\ mutex[n] = t /\ k \in Key /\ thr[t].pc \in MutexPC
      /\ id \in ID /\ master[id] = k
  BY <1>0, OwnerFacts DEF MutexPC
<1>1. PICK o \in Outcome :
        /\ IF Holds(t) THEN CreateOnlyMaster(o, id, k)
                       ELSE UNCHANGED <<master, rev, events>>
        /\ IF o = "ok" /\ (Holds(t) \/ master[id] # NoKey)
           THEN Goto(t, "reslave") /\ UNCHANGED mutex
           ELSE Return(t, NoID)
  BY DEF RecreateMaster
<1>2. UNCHANGED <<master, events>>
  BY <1>a, <1>0, <1>1, CreateOnlyBoundMaster
<1>3. Grows /\ SlaveB' /\ EventB'
  BY <1>0, <1>2, BoundFrame DEF Grows
<1>4. CASE Goto(t, "reslave") /\ UNCHANGED mutex
  <2>1. /\ Alone(t) /\ LocalN(n) /\ ThrM(t)' /\ ThrC(t)' /\ ThrL(t)'
        /\ \A l \in Key : Reserved(n, l)' =>
             local'[n].keys[l].refcnt = 1 /\ Reserver(n, l, t)'
    BY <1>a, <1>0, <1>2, <1>3, <1>4, GotoBound DEF ThreadPC
  <2> QED
    BY <1>a, <1>0, <1>3, <2>1, OwnerStep
<1>5. CASE Return(t, NoID)
  <2>1. Alone(t) /\ ThrM(t)' /\ ThrC(t)' /\ ThrL(t)'
    BY <1>a, <1>0, <1>5, ReturnBound DEF Alone
  <2> QED
    BY <1>a, <1>0, <1>3, <2>1, OwnerStep, OwnerReserved
<1> QED
  BY <1>1, <1>4, <1>5

\* and so does recreating its slave key.
LEMMA RecreateSlaveBound ==
  ASSUME TypeInv, TypeInv', Bound, NEW t \in Thread, RecreateSlave(t)
  PROVE  Bound'
<1> DEFINE n == NodeOf[t]
           k == thr[t].key
           id == thr[t].val
<1>0. /\ thr[t].pc = "reslave"
      /\ UNCHANGED <<master, events, cache, local, sync, prot, gc>>
  BY DEF RecreateSlave
<1>a. /\ n \in Node /\ mutex[n] = t /\ k \in Key /\ thr[t].pc \in MutexPC
      /\ id \in ID /\ master[id] = k
  BY <1>0, OwnerFacts DEF MutexPC
<1>1. PICK o \in Outcome :
        /\ CreateOnlySlave(o, n, k, id)
        /\ IF o = "ok" THEN Goto(t, "acquire") /\ UNCHANGED mutex ELSE Return(t, NoID)
  BY DEF RecreateSlave
<1>2. Grows /\ EventB'
  BY <1>0, BoundFrame DEF Grows
<1>3. SlaveB'
  BY <1>a, <1>0, <1>1, <1>2, CreateOnlySlaveBound
<1>4. CASE Goto(t, "acquire") /\ UNCHANGED mutex
  <2>1. /\ Alone(t) /\ LocalN(n) /\ ThrM(t)' /\ ThrC(t)' /\ ThrL(t)'
        /\ \A l \in Key : Reserved(n, l)' =>
             local'[n].keys[l].refcnt = 1 /\ Reserver(n, l, t)'
    BY <1>a, <1>0, <1>2, <1>4, GotoBound DEF ThreadPC
  <2> QED
    BY <1>a, <1>0, <1>2, <1>3, <2>1, OwnerStep
<1>5. CASE Return(t, NoID)
  <2>1. Alone(t) /\ ThrM(t)' /\ ThrC(t)' /\ ThrL(t)'
    BY <1>a, <1>0, <1>5, ReturnBound DEF Alone
  <2> QED
    BY <1>a, <1>0, <1>2, <1>3, <2>1, OwnerStep, OwnerReserved
<1> QED
  BY <1>1, <1>4, <1>5

\* GetNoCache preserves Bound: it goes on, or gives the reserved key back.
LEMMA GetNoCacheBound ==
  ASSUME TypeInv, TypeInv', Bound, NEW t \in Thread, GetNoCache(t)
  PROVE  Bound'
<1> DEFINE n == NodeOf[t]
           k == thr[t].key
           id == thr[t].val
<1>0. /\ thr[t].pc = "check"
      /\ UNCHANGED <<master, slave, events, cache, sync, prot, gc>>
      /\ \/ Goto(t, "create") /\ UNCHANGED <<local, mutex>>
         \/ Undo(t)
  BY DEF GetNoCache, kvVars
<1>a. /\ n \in Node /\ mutex[n] = t /\ k \in Key /\ thr[t].pc \in MutexPC
      /\ id \in ID
  BY <1>0, OwnerFacts DEF MutexPC
<1>1. Grows /\ SlaveB' /\ EventB'
  BY <1>0, BoundFrame DEF Grows
<1>2. CASE Goto(t, "create") /\ UNCHANGED <<local, mutex>>
  <2>1. /\ Alone(t) /\ LocalN(n) /\ ThrM(t)' /\ ThrC(t)' /\ ThrL(t)'
        /\ \A l \in Key : Reserved(n, l)' =>
             local'[n].keys[l].refcnt = 1 /\ Reserver(n, l, t)'
    BY <1>0, <1>1, <1>2, GotoBound DEF ThreadPC
  <2> QED
    BY <1>a, <1>0, <1>1, <2>1, OwnerStep
<1>3. CASE Undo(t)
  <2>1. /\ Alone(t) /\ LocalN(n) /\ ThrM(t)' /\ ThrC(t)' /\ ThrL(t)'
        /\ \A l \in Key : ~ Reserved(n, l)'
    BY <1>a, <1>1, <1>3, UndoBound
  <2> QED
    BY <1>a, <1>0, <1>1, <2>1, OwnerStep
<1> QED
  BY <1>0, <1>2, <1>3

\* So does AllocateID: the identifier of the reserved key becomes bound,
LEMMA AllocateIDBound ==
  ASSUME TypeInv, TypeInv', Bound, NEW t \in Thread, AllocateID(t)
  PROVE  Bound'
<1> DEFINE n == NodeOf[t]
           k == thr[t].key
           id == thr[t].val
<1> DEFINE ok == Holds(t) /\ master[id] = NoKey
<1>0. thr[t].pc = "create" /\ UNCHANGED <<slave, cache, sync, prot, gc>>
  BY DEF AllocateID
<1>a. /\ n \in Node /\ mutex[n] = t /\ k \in Key /\ thr[t].pc \in MutexPC
      /\ id \in ID
  BY <1>0, OwnerFacts DEF MutexPC
<1>1. PICK o \in Outcome :
        /\ IF ok THEN CreateOnlyMaster(o, id, k) ELSE UNCHANGED <<master, rev, events>>
        /\ IF o = "ok" /\ ok
           THEN Goto(t, "acquire") /\ UNCHANGED <<local, mutex>>
           ELSE Undo(t)
  BY DEF AllocateID
<1>2. Grows /\ EventB'
  <2>1. CASE CreateOnlyMaster(o, id, k)
    BY <1>a, <1>0, <2>1, CreateOnlyMasterGrows, CreateOnlyMasterEvents
  <2>2. CASE UNCHANGED <<master, rev, events>>
    BY <2>2, BoundFrame DEF Grows
  <2> QED
    BY <1>1, <2>1, <2>2
<1>3. SlaveB'
  BY <1>0, <1>2, BoundFrame
<1>4. CASE o = "ok" /\ ok
  <2>1. master'[id] = k /\ Goto(t, "acquire") /\ UNCHANGED <<local, mutex>>
    BY <1>a, <1>0, <1>1, <1>4 DEF CreateOnlyMaster, PutMaster, TypeInv, MasterT
  <2>2. /\ Alone(t) /\ LocalN(n) /\ ThrM(t)' /\ ThrC(t)' /\ ThrL(t)'
        /\ \A l \in Key : Reserved(n, l)' =>
             local'[n].keys[l].refcnt = 1 /\ Reserver(n, l, t)'
    BY <1>0, <1>2, <2>1, GotoBound DEF ThreadPC
  <2> QED
    BY <1>a, <1>0, <1>2, <1>3, <2>2, OwnerStep
<1>5. CASE ~ (o = "ok" /\ ok)
  <2>1. /\ Alone(t) /\ LocalN(n) /\ ThrM(t)' /\ ThrC(t)' /\ ThrL(t)'
        /\ \A l \in Key : ~ Reserved(n, l)'
    BY <1>a, <1>1, <1>2, <1>5, UndoBound
  <2> QED
    BY <1>a, <1>0, <1>2, <1>3, <2>1, OwnerStep
<1> QED
  BY <1>4, <1>5

\* AcquireReference, which verifies the local key,
LEMMA AcquireReferenceBound ==
  ASSUME TypeInv, TypeInv', Bound, NEW t \in Thread, AcquireReference(t)
  PROVE  Bound'
<1> DEFINE n == NodeOf[t]
           k == thr[t].key
           id == thr[t].val
<1>0. thr[t].pc = "acquire" /\ UNCHANGED <<master, events, cache, sync, prot, gc>>
  BY DEF AcquireReference
<1>a. /\ n \in Node /\ mutex[n] = t /\ k \in Key /\ thr[t].pc \in MutexPC
      /\ id \in ID /\ master[id] = k
  BY <1>0, OwnerFacts DEF MutexPC
<1>1. PICK o \in Outcome :
        /\ IF o # "fail" /\ Holds(t) THEN PutSlave(n, k, id)
                                     ELSE UNCHANGED <<slave, orphan>>
        /\ IF o = "ok" /\ Holds(t)
           THEN /\ local' = [local EXCEPT ![n] = LK!verify(@, k)]
                /\ Return(t, id)
           ELSE Undo(t)
  BY DEF AcquireReference
<1>2. Grows /\ EventB'
  BY <1>0, BoundFrame DEF Grows
<1>3. SlaveB'
  BY <1>a, <1>0, <1>1, <1>2, PutSlaveBound, BoundFrame
<1>4. CASE o = "ok" /\ Holds(t)
  <2>1. local' = [local EXCEPT ![n] = LK!verify(local[n], k)] /\ Return(t, id)
    BY <1>1, <1>4
  <2>2. local[n].keys[k].val = id
    BY <1>0 DEF Bound, ThrB, ThrL
  <2>3. \A l \in Key : Reserved(n, l) => l = k
    BY <1>a, OneReserved, SMT
  <2>4. LocalN(n) /\ \A l \in Key : ~ Reserved(n, l)'
    BY <1>a, <1>0, <1>2, <2>1, <2>2, <2>3, VerifyLocal
  <2>5. /\ \A u \in Thread \ {t} : thr'[u] = thr[u]
        /\ \A m \in Node \ {n} : mutex'[m] = mutex[m]
        /\ ThrM(t)' /\ ThrC(t)' /\ ThrL(t)'
    BY <1>a, <1>0, <2>1, ReturnBound
  <2>6. \A m \in Node \ {n} : local'[m] = local[m]
    BY <2>1 DEF TypeInv, LocalT
  <2>7. Alone(t)
    BY <1>a, <2>5, <2>6 DEF Alone
  <2> QED
    BY <1>a, <1>0, <1>2, <1>3, <2>4, <2>5, <2>7, OwnerStep
<1>5. CASE ~ (o = "ok" /\ Holds(t))
  <2>1. /\ Alone(t) /\ LocalN(n) /\ ThrM(t)' /\ ThrC(t)' /\ ThrL(t)'
        /\ \A l \in Key : ~ Reserved(n, l)'
    BY <1>a, <1>1, <1>2, <1>5, UndoBound
  <2> QED
    BY <1>a, <1>0, <1>2, <1>3, <2>1, OwnerStep
<1> QED
  BY <1>4, <1>5

\* and the deletion of the slave key of a key released.
LEMMA ReleaseSlaveBound ==
  ASSUME TypeInv, TypeInv', Bound, NEW t \in Thread, ReleaseSlave(t)
  PROVE  Bound'
<1> DEFINE n == NodeOf[t]
           k == thr[t].key
<1>0. /\ thr[t].pc = "delslave" /\ UNCHANGED <<master, events, cache, local, sync, prot, gc>>
      /\ mutex' = [mutex EXCEPT ![n] = NoOne]
      /\ thr' = [thr EXCEPT ![t] = IdleThread]
      /\ \E o \in Outcome : DeleteSlave(o, n, k)
  BY DEF ReleaseSlave
<1>a. /\ n \in Node /\ mutex[n] = t /\ k \in Key /\ thr[t].pc \in MutexPC
      /\ thr \in [Thread -> ThreadRec]
  BY <1>0, OwnerFacts DEF MutexPC
<1>1. Grows /\ EventB'
  BY <1>0, BoundFrame DEF Grows
<1>2. SlaveB'
  BY <1>a, <1>0, <1>1, DeleteSlaveBound
<1>3. thr'[t].pc = "idle" /\ \A u \in Thread \ {t} : thr'[u] = thr[u]
  BY <1>a, <1>0 DEF IdleThread
<1>4. \A m \in Node \ {n} : mutex'[m] = mutex[m]
  BY <1>0 DEF TypeInv, MutexT
<1>5. Alone(t) /\ ThrM(t)' /\ ThrC(t)' /\ ThrL(t)'
  BY <1>a, <1>0, <1>3, <1>4 DEF Alone, ThrM, ThrC, ThrL, MutexPC
<1> QED
  BY <1>a, <1>0, <1>1, <1>2, <1>5, OwnerStep, OwnerReserved

\* All the requests made with slaveKeysMutex held preserve Bound,
LEMMA OwnerBound ==
  ASSUME TypeInv, TypeInv', Bound, NEW t \in Thread,
         \/ RecreateMaster(t) \/ RecreateSlave(t) \/ GetNoCache(t) \/ AllocateID(t)
         \/ AcquireReference(t) \/ ReleaseSlave(t)
  PROVE  Bound'
  BY RecreateMasterBound, RecreateSlaveBound, GetNoCacheBound, AllocateIDBound,
     AcquireReferenceBound, ReleaseSlaveBound

\* the local part of Release,
LEMMA ReleaseKeyBound ==
  ASSUME TypeInv, TypeInv', Bound, NEW t \in Thread, ReleaseKey(t)
  PROVE  Bound'
<1> DEFINE n == NodeOf[t]
           k == thr[t].key
<1>n. n \in Node
  BY ConstantsAssumption
<1>t. thr \in [Thread -> ThreadRec] /\ thr[t] \in ThreadRec
  BY DEF TypeInv, ThrT
<1>0. /\ thr[t].pc = "release" /\ mutex[n] = NoOne
      /\ UNCHANGED <<master, slave, events, cache, sync, prot, gc>>
      /\ local' = [local EXCEPT ![n] = LK!releaseKey(local[n], k)]
  BY DEF ReleaseKey, kvVars
<1>k. k \in Key
  BY <1>t, <1>0 DEF ThreadRec
<1>1. Grows /\ SlaveB' /\ EventB'
  BY <1>0, BoundFrame DEF Grows
<1>2. \A l \in Key : ~ Reserved(n, l)
  BY <1>n, <1>0, NothingReserved
<1>3. LocalN(n) /\ \A l \in Key : ~ Reserved(n, l)'
  BY <1>n, <1>k, <1>0, <1>1, <1>2, ReleaseLocal
<1>4. \A m \in Node \ {n} : local'[m] = local[m]
  BY <1>0 DEF TypeInv, LocalT
<1>5. CASE LK!lastUse(local[n], k)
  <2>1. thr' = [thr EXCEPT ![t].pc = "delslave"] /\ mutex' = [mutex EXCEPT ![n] = t]
    BY <1>5 DEF ReleaseKey
  <2>2. thr'[t].pc = "delslave" /\ \A u \in Thread \ {t} : thr'[u] = thr[u]
    BY <1>t, <2>1 DEF ThreadRec
  <2>3. mutex'[n] = t /\ \A m \in Node \ {n} : mutex'[m] = mutex[m]
    BY <1>n, <2>1 DEF TypeInv, MutexT
  <2>4. Alone(t) /\ ThrM(t)' /\ ThrC(t)' /\ ThrL(t)'
    BY <1>0, <1>4, <2>2, <2>3 DEF Alone, ThrM, ThrC, ThrL
  <2> QED
    BY <1>n, <1>0, <1>1, <1>3, <2>4, OwnerStep
<1>6. CASE ~ LK!lastUse(local[n], k)
  <2>1. thr' = [thr EXCEPT ![t] = IdleThread] /\ UNCHANGED mutex
    BY <1>6 DEF ReleaseKey
  <2>2. thr'[t].pc = "idle" /\ \A u \in Thread \ {t} : thr'[u] = thr[u]
    BY <1>t, <2>1 DEF IdleThread
  <2>3. Alone(t) /\ ThrM(t)' /\ ThrC(t)' /\ ThrL(t)'
    BY <1>0, <1>4, <2>1, <2>2 DEF Alone, ThrM, ThrC, ThrL, MutexPC
  <2> QED
    BY <1>n, <1>0, <1>1, <1>3, <2>3, OwnerStep
<1> QED
  BY <1>5, <1>6

\* and the handler of a watch event.
LEMMA WatchBound ==
  ASSUME TypeInv, TypeInv', Bound, NEW n \in Node, Watch(n)
  PROVE  Bound'
<1> DEFINE e == Head(events[n])
<1>0. /\ events[n] # << >> /\ events' = [events EXCEPT ![n] = Tail(@)]
      /\ UNCHANGED <<master, slave, local, mutex, thr, sync, gc>>
  BY DEF Watch
<1>g. Grows
  BY <1>0 DEF Grows
<1>1. events \in [Node -> Seq(Event)] /\ events[n] \in Seq(Event) /\ e \in Event
  BY <1>0, SMT DEF TypeInv, MasterT
<1>2. e.typ = "upsert" /\ master[e.id] = e.key /\ e.id \in ID /\ e.key \in Key
  <2>1. 1 \in 1 .. Len(events[n]) /\ e = events[n][1]
    BY <1>0, <1>1, SMT
  <2> QED
    BY <1>1, <2>1 DEF Bound, EventB, Event
<1>3. /\ cache' = [cache EXCEPT ![n] = Cache!onUpsert(cache[n], e.id, e.key)]
      /\ UNCHANGED prot
  BY <1>2 DEF Watch
<1>4. EventB'
  <2>1. ASSUME NEW m \in Node, NEW i \in 1 .. Len(events'[m])
        PROVE  events'[m][i].typ = "upsert" /\ master'[events'[m][i].id] = events'[m][i].key
    <3>1. CASE m # n
      BY <1>0, <1>1, <2>1, <3>1 DEF Bound, EventB
    <3>2. CASE m = n
      <4>1. events'[n] = Tail(events[n])
        BY <1>0, <1>1
      <4>2. i + 1 \in 1 .. Len(events[n]) /\ events'[n][i] = events[n][i + 1]
        BY <1>0, <1>1, <2>1, <3>2, <4>1, SMT
      <4> QED
        BY <1>0, <3>2, <4>2, SMT DEF Bound, EventB
    <3> QED
      BY <3>1, <3>2
  <2> QED
    BY <2>1 DEF EventB
<1> HIDE DEF e
<1>5. CacheB'
  <2> SUFFICES ASSUME NEW m \in Node, NEW l \in Key, cache'[m].keys[l] # NoID
               PROVE  master'[cache'[m].keys[l]] = l
    BY DEF CacheB
  <2>1. cache \in [Node -> Cache!CacheType]
    BY DEF TypeInv, CacheT
  <2>2. CASE m # n
    BY <1>0, <1>3, <2>1, <2>2 DEF Bound, CacheB
  <2>3. CASE m = n
    <3>1. cache[n].keys \in [Key -> ID \cup {NoID}]
      BY <2>1 DEF Cache!CacheType
    <3>2. cache'[n].keys =
            [Cache!forgetKey(cache[n].keys, cache[n].ids[e.id]) EXCEPT ![e.key] = e.id]
      BY <1>3, <2>1 DEF Cache!onUpsert
    <3>3. \/ cache'[n].keys[l] = cache[n].keys[l]
          \/ cache'[n].keys[l] = NoID
          \/ cache'[n].keys[l] = e.id /\ l = e.key
      BY <1>2, <3>1, <3>2 DEF Cache!forgetKey
    <3> QED
      BY <1>0, <1>2, <2>3, <3>3 DEF Bound, CacheB
  <2> QED
    BY <2>2, <2>3
<1> QED
  BY <1>0, <1>g, <1>3, <1>4, <1>5, BoundFrame DEF Bound

\* The syncer holds slaveKeysMutex only while it has the node to itself.
LEMMA SyncBound ==
  ASSUME TypeInv, TypeInv', Bound, NEW n \in Node, SyncStep(n)
  PROVE  Bound'
<1> USE DEF SyncUnchanged
<1>s. sync \in [Node -> SyncRec] /\ sync[n] \in SyncRec
  BY DEF TypeInv, SyncT
<1>0. UNCHANGED <<cache, local, thr, prot, gc>>
  BY DEF SyncStep, SyncStart, SyncNext, SyncMaster, SyncSlave, SyncCheck, SyncLock, SyncRelease
<1>b. /\ \A p \in sync[n].todo : master[p[1]] = p[2]
      /\ sync[n].pc \in {"master", "slave"} => master[sync[n].id] = sync[n].key
  BY DEF Bound, SyncB
\* A step that leaves the mutex alone.
<1>f. ASSUME UNCHANGED <<master, events, mutex>>, SlaveB', SyncB', SyncM'
      PROVE  Bound'
  <2>1. Grows
    BY <1>f DEF Grows
  <2> QED
    BY <1>0, <1>f, <2>1, BoundFrame DEF Bound
<1>g. ASSUME NEW pc, sync' = [sync EXCEPT ![n].pc = pc]
      PROVE  /\ sync'[n].pc = pc /\ sync'[n].id = sync[n].id /\ sync'[n].key = sync[n].key
             /\ sync'[n].todo = sync[n].todo
             /\ \A m \in Node \ {n} : sync'[m] = sync[m]
  BY <1>s, <1>g DEF SyncRec
<1>o. ASSUME master' = master, \A m \in Node \ {n} : sync'[m] = sync[m],
             \A p \in sync'[n].todo : master[p[1]] = p[2],
             sync'[n].pc \in {"master", "slave"} => master[sync'[n].id] = sync'[n].key
      PROVE  SyncB'
  BY <1>o DEF Bound, SyncB
<1>m. ASSUME mutex' = mutex, \A m \in Node \ {n} : sync'[m] = sync[m], sync'[n].pc # "del"
      PROVE  SyncM'
  BY <1>m DEF Bound, SyncM
<1>1. CASE SyncStart(n)
  <2>1. UNCHANGED <<master, slave, events, mutex>>
    BY <1>1 DEF SyncStart
  <2>2. /\ sync'[n].pc = "next" /\ sync'[n].todo = LK!getVerifiedIDs(local[n])
        /\ \A m \in Node \ {n} : sync'[m] = sync[m]
    BY <1>1, <1>s DEF SyncStart, SyncRec
  <2>3. ASSUME NEW p \in LK!getVerifiedIDs(local[n])
        PROVE  master[p[1]] = p[2]
    <3>1. /\ p[1] \in ID /\ p[2] \in Key
          /\ local[n].ids[p[1]] = p[2] /\ local[n].keys[p[2]].verified
      BY DEF LK!getVerifiedIDs
    <3>2. local[n].keys[p[2]].val = p[1]
      BY <3>1, SMT DEF Bound, IdsB
    <3>3. master[local[n].keys[p[2]].val] = p[2]
      BY <3>1 DEF Bound, LocalV
    <3> QED
      BY <3>2, <3>3
  <2>4. SyncB' /\ SyncM'
    BY <1>o, <1>m, <2>1, <2>2, <2>3
  <2>5. SlaveB'
    BY <2>1 DEF Bound, SlaveB
  <2> QED
    BY <1>f, <2>1, <2>4, <2>5
<1>2. CASE SyncNext(n)
  <2>1. UNCHANGED <<master, slave, events, mutex>>
    BY <1>2 DEF SyncNext
  <2>2. /\ \A m \in Node \ {n} : sync'[m] = sync[m]
        /\ sync'[n].pc # "del"
        /\ \A p \in sync'[n].todo : p \in sync[n].todo
        /\ \/ sync'[n].pc = "idle"
           \/ <<sync'[n].id, sync'[n].key>> \in sync[n].todo
    <3>1. CASE sync' = [sync EXCEPT ![n] = IdleSync]
      <4>1. sync'[n] = IdleSync /\ \A m \in Node \ {n} : sync'[m] = sync[m]
        BY <1>s, <3>1
      <4> QED
        BY <4>1, SMT DEF IdleSync
    <3>2. ASSUME NEW p \in sync[n].todo,
                 sync' = [sync EXCEPT ![n] =
                         [pc |-> IF LK!lookupKey(local[n], p[2]) = p[1] THEN "master"
                                                                       ELSE "next",
                          id |-> p[1], key |-> p[2], todo |-> sync[n].todo \ {p}]]
          PROVE  /\ \A m \in Node \ {n} : sync'[m] = sync[m]
                 /\ sync'[n].pc # "del"
                 /\ \A q \in sync'[n].todo : q \in sync[n].todo
                 /\ \/ sync'[n].pc = "idle"
                    \/ <<sync'[n].id, sync'[n].key>> \in sync[n].todo
      <4>1. p = <<p[1], p[2]>>
        BY <1>s, SMT DEF SyncRec
      <4> QED
        BY <1>s, <3>2, <4>1
    <3> QED
      BY <1>2, <1>s, <3>1, <3>2 DEF SyncNext
  <2>3. /\ \A p \in sync'[n].todo : master[p[1]] = p[2]
        /\ sync'[n].pc \in {"master", "slave"} => master[sync'[n].id] = sync'[n].key
    BY <1>b, <2>2
  <2>4. SyncB' /\ SyncM'
    BY <1>o, <1>m, <2>1, <2>2, <2>3
  <2>5. SlaveB'
    BY <2>1 DEF Bound, SlaveB
  <2> QED
    BY <1>f, <2>1, <2>4, <2>5
<1>3. CASE SyncMaster(n)
  <2>1. PICK o \in Outcome :
           /\ CreateOnlyMaster(o, sync[n].id, sync[n].key)
           /\ sync' = [sync EXCEPT ![n].pc = IF o = "ok" THEN "slave" ELSE "check"]
    BY <1>3 DEF SyncMaster
  <2>2. sync[n].pc = "master" /\ sync[n].key \in Key /\ UNCHANGED <<slave, mutex>>
    BY <1>3, <1>s DEF SyncMaster, SyncRec
  <2>3. UNCHANGED <<master, events>>
    BY <1>b, <2>1, <2>2, CreateOnlyBoundMaster
  <2>4. SyncB' /\ SyncM'
    BY <1>b, <1>g, <1>o, <1>m, <2>1, <2>2, <2>3, SMT
  <2>5. SlaveB'
    BY <2>2, <2>3 DEF Bound, SlaveB
  <2> QED
    BY <1>f, <2>2, <2>3, <2>4, <2>5
<1>4. CASE SyncSlave(n)
  <2>1. PICK o \in Outcome :
           IF o = "fail" THEN UNCHANGED <<slave, orphan>>
                         ELSE PutSlave(n, sync[n].key, sync[n].id)
    BY <1>4 DEF SyncSlave
  <2>2. /\ sync[n].pc = "slave" /\ sync[n].id \in ID /\ sync[n].key \in Key
        /\ UNCHANGED <<master, events, mutex>>
        /\ sync' = [sync EXCEPT ![n].pc = "check"]
    BY <1>4, <1>s DEF SyncSlave, SyncRec
  <2>3. Grows
    BY <2>2 DEF Grows
  <2>4. SlaveB'
    BY <1>b, <2>1, <2>2, <2>3, PutSlaveBound, BoundFrame
  <2>5. SyncB' /\ SyncM'
    BY <1>b, <1>g, <1>o, <1>m, <2>2
  <2> QED
    BY <1>f, <2>2, <2>4, <2>5
<1>5. CASE SyncCheck(n)
  <2>1. /\ UNCHANGED <<master, slave, events, mutex>>
        /\ sync' = [sync EXCEPT ![n].pc =
                      IF LK!lookupKey(local[n], sync[n].key) = NoID THEN "lock" ELSE "next"]
    BY <1>5 DEF SyncCheck
  <2> DEFINE pc == IF LK!lookupKey(local[n], sync[n].key) = NoID THEN "lock" ELSE "next"
  <2>g. /\ sync'[n].pc = pc /\ sync'[n].id = sync[n].id /\ sync'[n].key = sync[n].key
        /\ sync'[n].todo = sync[n].todo
        /\ \A m \in Node \ {n} : sync'[m] = sync[m]
    BY <1>g, <2>1
  <2>2. SyncB' /\ SyncM'
    BY <1>b, <1>o, <1>m, <2>1, <2>g, SMT
  <2>3. SlaveB'
    BY <2>1 DEF Bound, SlaveB
  <2> QED
    BY <1>f, <2>1, <2>2, <2>3
\* A step that takes the mutex or gives it back.
<1>x. ASSUME UNCHANGED <<master, events>>, SlaveB', SyncB', SyncM', mutex[n] \in {NoOne, n},
             \A m \in Node \ {n} : mutex'[m] = mutex[m]
      PROVE  Bound'
  <2>1. Grows
    BY <1>x DEF Grows
  <2>2. LocalR'
    <3> SUFFICES ASSUME NEW m \in Node, NEW k \in Key, Reserved(m, k)'
                 PROVE  local'[m].keys[k].refcnt = 1 /\ \E u \in Thread : Reserver(m, k, u)'
      BY DEF LocalR
    <3>1. Reserved(m, k)
      BY <1>0 DEF Reserved
    <3>2. m # n
      BY <1>x, <3>1, NothingReserved
    <3> QED
      BY <1>0, <1>x, <3>1, <3>2, SMT DEF Bound, LocalR, Reserver
  <2>3. ThrB'
    <3> SUFFICES ASSUME NEW t \in Thread
                 PROVE  ThrM(t)' /\ ThrC(t)' /\ ThrL(t)'
      BY DEF ThrB
    <3>1. ThrM(t) /\ ThrC(t) /\ ThrL(t)
      BY DEF Bound, ThrB
    <3>2. ThrC(t)' /\ ThrL(t)'
      BY <1>0, <1>x, <3>1 DEF ThrC, ThrL
    <3>3. ThrM(t)'
      BY <1>0, <1>x, <3>1, ConstantsAssumption DEF ThrM
    <3> QED
      BY <3>2, <3>3
  <2> QED
    BY <1>0, <1>x, <2>1, <2>2, <2>3, BoundFrame DEF Bound
<1>6. CASE SyncLock(n)
  <2>1. mutex[n] = NoOne /\ UNCHANGED <<master, slave, events>>
    BY <1>6 DEF SyncLock
  <2>2. SlaveB'
    BY <2>1 DEF Bound, SlaveB
  <2>3. CASE mutex' = [mutex EXCEPT ![n] = n] /\ sync' = [sync EXCEPT ![n].pc = "del"]
    <3>1. mutex'[n] = n /\ \A m \in Node \ {n} : mutex'[m] = mutex[m]
      BY <2>3 DEF TypeInv, MutexT
    <3>2. SyncB'
      BY <1>b, <1>g, <1>o, <2>1, <2>3, SMT
    <3>3. SyncM'
      BY <1>g, <2>3, <3>1 DEF Bound, SyncM
    <3> QED
      BY <1>x, <2>1, <2>2, <3>1, <3>2, <3>3
  <2>4. CASE sync' = [sync EXCEPT ![n].pc = "next"] /\ UNCHANGED mutex
    <3>g. /\ sync'[n].pc = "next" /\ sync'[n].id = sync[n].id /\ sync'[n].key = sync[n].key
          /\ sync'[n].todo = sync[n].todo
          /\ \A m \in Node \ {n} : sync'[m] = sync[m]
      BY <1>g, <2>4
    <3>1. SyncB' /\ SyncM'
      BY <1>b, <1>o, <1>m, <2>1, <2>4, <3>g
    <3> QED
      BY <1>f, <2>1, <2>2, <2>4, <3>1
  <2> QED
    BY <1>6, <2>3, <2>4 DEF SyncLock
<1>7. CASE SyncRelease(n)
  <2>1. PICK o \in Outcome : DeleteSlave(o, n, sync[n].key)
    BY <1>7 DEF SyncRelease
  <2>2. /\ sync[n].pc = "del" /\ sync[n].key \in Key /\ UNCHANGED <<master, events>>
        /\ mutex' = [mutex EXCEPT ![n] = NoOne]
        /\ sync' = [sync EXCEPT ![n].pc = "next"]
    BY <1>7, <1>s DEF SyncRelease, SyncRec
  <2>3. SlaveB'
    <3>1. Grows
      BY <2>2 DEF Grows
    <3> QED
      BY <2>1, <2>2, <3>1, DeleteSlaveBound
  <2>4. mutex[n] = n /\ \A m \in Node \ {n} : mutex'[m] = mutex[m]
    BY <2>2 DEF Bound, SyncM, TypeInv, MutexT
  <2>g. /\ sync'[n].pc = "next" /\ sync'[n].id = sync[n].id /\ sync'[n].key = sync[n].key
        /\ sync'[n].todo = sync[n].todo
        /\ \A m \in Node \ {n} : sync'[m] = sync[m]
    BY <1>g, <2>2
  <2>5. SyncB'
    BY <1>b, <1>o, <2>2, <2>g
  <2>6. SyncM'
    BY <2>4, <2>g DEF Bound, SyncM
  <2> QED
    BY <1>x, <2>2, <2>3, <2>4, <2>5, <2>6
<1> QED
  BY <1>1, <1>2, <1>3, <1>4, <1>5, <1>6, <1>7 DEF SyncStep

=============================================================================
