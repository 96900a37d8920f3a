-------------------------- MODULE KVAllocatorBound --------------------------
(***************************************************************************)
(* The invariant Bound behind the theorems of KVAllocatorRefinement, and   *)
(* what a step must do to the local keys and the threads to preserve it.   *)
(*                                                                         *)
(* NoAliasing is not inductive.  What makes it so is that every place an   *)
(* identifier travels through (slave keys, caches, watch events, local     *)
(* keys, threads, syncers) only ever holds pairs bound by a master key,    *)
(* except for the one pair a thread has leased and reserved and whose      *)
(* slaveKeysMutex it holds.                                                *)
(***************************************************************************)
EXTENDS KVAllocatorProofs

\* Most leaves are first-order; the few that need SMT say so.
USE ZenonT(20)

\* Slave keys name bound identifiers.
SlaveB ==
    \A n \in Node, k \in Key : slave[n][k] # NoID => master[slave[n][k]] = k

\* So do the key caches,
CacheB ==
    \A n \in Node, k \in Key : cache[n].keys[k] # NoID => master[cache[n].keys[k]] = k

\* and the watch events, which are all creations.
EventB ==
    \A n \in Node : \A i \in 1 .. Len(events[n]) :
        /\ events[n][i].typ = "upsert"
        /\ master[events[n][i].id] = events[n][i].key

\* Nothing is collected, so no controller runs.
QuietB == gc.pc = "idle" /\ \A n \in Node, id \in ID : prot[n][id].pc = "off"

\* The identifier of a verified local key is bound to it.
LocalV ==
    \A n \in Node, k \in Key :
        local[n].keys[k].verified => master[local[n].keys[k].val] = k

\* A local key that is not verified has the single reference of the thread that
\* reserved it, which holds slaveKeysMutex.
Reserved(n, k) == local[n].keys[k].val # NoID /\ ~ local[n].keys[k].verified

Reserver(n, k, t) ==
    /\ mutex[n] = t
    /\ NodeOf[t] = n
    /\ thr[t].key = k
    /\ thr[t].pc \in {"check", "create", "acquire"}

LocalR ==
    \A n \in Node, k \in Key : Reserved(n, k) =>
        /\ local[n].keys[k].refcnt = 1
        /\ \E t \in Thread : Reserver(n, k, t)

\* The two maps of localKeys agree.
IdsB ==
    \A n \in Node, id \in ID, k \in Key :
        local[n].ids[id] = k => local[n].keys[k].val = id

\* A thread: where it holds slaveKeysMutex, when it carries a bound identifier,
\* and when the one in localKeys.
ThrM(t) == thr[t].pc \in MutexPC => mutex[NodeOf[t]] = t

ThrC(t) ==
    /\ thr[t].pc \in {"lock", "get"} => thr[t].val = NoID
    /\ thr[t].pc \in {"reserve", "unlock", "insert", "remaster", "reslave", "acquire"}
         /\ thr[t].val # NoID => master[thr[t].val] = thr[t].key

ThrL(t) ==
    LET e == local[NodeOf[t]].keys[thr[t].key]
    IN  /\ thr[t].pc \in {"check", "create", "remaster", "reslave", "acquire"}
             => e.val = thr[t].val
        /\ thr[t].pc \in {"check", "create"} => ~ e.verified

ThrB == \A t \in Thread : ThrM(t) /\ ThrC(t) /\ ThrL(t)

\* A syncer: the pairs it carries, and where it holds slaveKeysMutex.
SyncB ==
    \A n \in Node :
        /\ \A p \in sync[n].todo : master[p[1]] = p[2]
        /\ sync[n].pc \in {"master", "slave"} => master[sync[n].id] = sync[n].key

SyncM == \A n \in Node : sync[n].pc = "del" => mutex[n] = n

Bound == /\ SlaveB /\ CacheB /\ EventB /\ QuietB
         /\ LocalV /\ LocalR /\ IdsB /\ ThrB /\ SyncB /\ SyncM

-----------------------------------------------------------------------------
(***************************************************************************)
(* What a step leaves alone.  A master key that exists stays as it is.     *)
(***************************************************************************)
Grows == \A id \in ID : master[id] # NoKey => master'[id] = master[id]

\* CreateOnly of a master key changes none that exists.
LEMMA CreateOnlyMasterGrows ==
  ASSUME TypeInv, NEW o, NEW id \in ID, NEW k \in Key, CreateOnlyMaster(o, id, k)
  PROVE  Grows
  BY DEF TypeInv, MasterT, Grows, CreateOnlyMaster, PutMaster

\* A verified local key has an identifier.
LEMMA VerifiedID ==
  ASSUME TypeInv, NEW n \in Node, NEW k \in Key, local[n].keys[k].verified
  PROVE  local[n].keys[k].val \in ID
  BY DEF TypeInv, LocalT, LocalOK, LK!LocalKeysType

\* A step preserves the parts of Bound whose variables it leaves alone.
LEMMA BoundFrame ==
  ASSUME TypeInv, Bound, Grows
  PROVE  /\ UNCHANGED slave => SlaveB'
         /\ UNCHANGED cache => CacheB'
         /\ UNCHANGED events => EventB'
         /\ UNCHANGED <<gc, prot>> => QuietB'
         /\ UNCHANGED local => LocalV' /\ IdsB'
         /\ UNCHANGED <<local, mutex, thr>> => LocalR' /\ ThrB'
         /\ UNCHANGED sync => SyncB'
         /\ UNCHANGED <<sync, mutex>> => SyncM'
<1>1. UNCHANGED slave => SlaveB'
  BY ConstantsAssumption, SMT DEF TypeInv, Bound, Grows, SlaveB, SlaveT, MaybeID
<1>2. UNCHANGED cache => CacheB'
  BY ConstantsAssumption, SMT DEF TypeInv, Bound, Grows, CacheB, CacheT, Cache!CacheType
<1>3. UNCHANGED events => EventB'
  <2>1. ASSUME NEW n \in Node, NEW i \in 1 .. Len(events[n])
        PROVE  events[n][i].id \in ID /\ events[n][i].key \in Key
    <3>1. events[n] \in Seq(Event)
      BY DEF TypeInv, MasterT
    <3>2. events[n][i] \in Event
      BY <3>1, SMT
    <3> QED
      BY <3>2 DEF Event
  <2> QED
    BY <2>1, ConstantsAssumption, SMT DEF Bound, Grows, EventB
<1>4. UNCHANGED <<gc, prot>> => QuietB'
  BY DEF Bound, QuietB
<1>5. UNCHANGED local => LocalV' /\ IdsB'
  BY VerifiedID, ConstantsAssumption, SMT DEF Bound, Grows, LocalV, IdsB
<1>6. UNCHANGED <<local, mutex, thr>> => LocalR'
  BY SMT DEF Bound, LocalR, Reserved, Reserver
<1>7. UNCHANGED <<local, mutex, thr>> => ThrB'
  <2>1. ASSUME UNCHANGED <<local, mutex, thr>>, NEW t \in Thread
        PROVE  ThrM(t)' /\ ThrC(t)' /\ ThrL(t)'
    <3>1. ThrM(t)' /\ ThrL(t)'
      BY <2>1 DEF Bound, ThrB, ThrM, ThrL
    <3>2. thr[t].key \in Key \/ thr[t].pc = "idle"
      BY DEF TypeInv, ThrT, ThreadRec
    <3>3. thr[t].val \in ID \/ thr[t].val = NoID
      BY DEF TypeInv, ThrT, ThreadRec, MaybeID
    <3>4. ThrC(t)'
      BY <2>1, <3>2, <3>3, ConstantsAssumption DEF Bound, Grows, ThrB, ThrC
    <3> QED
      BY <3>1, <3>4
  <2> QED
    BY <2>1 DEF ThrB
<1>8. UNCHANGED sync => SyncB'
  <2>1. ASSUME NEW n \in Node
        PROVE  sync[n] \in SyncRec
    BY DEF TypeInv, SyncT
  <2> QED
    BY <2>1, ConstantsAssumption, SMT DEF Bound, Grows, SyncB, SyncRec
<1>9. UNCHANGED <<sync, mutex>> => SyncM'
  BY DEF Bound, SyncM
<1> QED
  BY <1>1, <1>2, <1>3, <1>4, <1>5, <1>6, <1>7, <1>8, <1>9

-----------------------------------------------------------------------------
(***************************************************************************)
(* What the operations of localKeys do to an entry.                        *)
(***************************************************************************)
\* localKeys.allocate adds an entry that is not verified, or counts a reference.
LEMMA AllocateEffect ==
  ASSUME NEW lk, LocalOK(lk), NEW k \in Key, NEW id \in ID
  PROVE  LET r == LK!allocate(lk, k, id)
         IN  /\ \A l \in Key \ {k} : r.keys[l] = lk.keys[l]
             /\ lk.keys[k].val = NoID =>
                  /\ r.keys[k] = [val |-> id, refcnt |-> 1, verified |-> FALSE]
                  /\ r.ids = [lk.ids EXCEPT ![id] = k]
             /\ lk.keys[k].val # NoID =>
                  /\ r.keys[k].val = lk.keys[k].val
                  /\ r.keys[k].verified = lk.keys[k].verified
                  /\ r.ids = lk.ids
  BY DEF LocalOK, LK!allocate, LK!lookupKey, LK!LocalKeysType

\* localKeys.verify only marks the entry.
LEMMA VerifyEffect ==
  ASSUME NEW lk, LocalOK(lk), NEW k \in Key, lk.keys[k].val # NoID
  PROVE  LET r == LK!verify(lk, k)
         IN  /\ \A l \in Key \ {k} : r.keys[l] = lk.keys[l]
             /\ r.keys[k].val = lk.keys[k].val
             /\ r.keys[k].verified
             /\ r.ids = lk.ids
  BY DEF LocalOK, LK!verify, LK!lookupKey, LK!LocalKeysType

\* localKeys.use only counts a reference.
LEMMA UseEffect ==
  ASSUME NEW lk, LocalOK(lk), NEW k \in Key
  PROVE  LET r == LK!useKey(lk, k)
         IN  /\ \A l \in Key \ {k} : r.keys[l] = lk.keys[l]
             /\ r.keys[k].val = lk.keys[k].val
             /\ r.keys[k].verified = lk.keys[k].verified
             /\ r.ids = lk.ids
  BY DEF LocalOK, LK!useKey, LK!LocalKeysType

\* The entry of the key is gone, or its other references keep it as it is.
LEMMA ReleaseEffect ==
  ASSUME NEW lk, LocalOK(lk), NEW k \in Key
  PROVE  LET r == LK!releaseKey(lk, k)
         IN  /\ \A l \in Key \ {k} : r.keys[l] = lk.keys[l]
             /\ \/ /\ r.keys[k].val = NoID /\ ~ r.keys[k].verified
                   /\ \/ lk.keys[k].val = NoID /\ r.ids = lk.ids
                      \/ lk.keys[k].val # NoID /\ r.ids = [lk.ids EXCEPT ![lk.keys[k].val] = NoKey]
                \/ /\ lk.keys[k].refcnt # 1
                   /\ r.keys[k].val = lk.keys[k].val
                   /\ r.keys[k].verified = lk.keys[k].verified
                   /\ r.ids = lk.ids
<1> USE DEF LK!releaseKey, LK!lookupKey, LK!lastUse, LK!LocalKeysType
<1>1. CASE LK!lookupKey(lk, k) = NoID
  BY <1>1 DEF LocalOK
<1>2. CASE LK!lookupKey(lk, k) # NoID /\ LK!lastUse(lk, k)
  <2>1. LK!releaseKey(lk, k) = [keys |-> [lk.keys EXCEPT ![k] = LK!NoEntry],
                                ids  |-> [lk.ids EXCEPT ![lk.keys[k].val] = NoKey]]
    BY <1>2
  <2> QED
    BY <1>2, <2>1 DEF LK!NoEntry, LocalOK
<1>3. CASE LK!lookupKey(lk, k) # NoID /\ ~ LK!lastUse(lk, k)
  <2>1. LK!releaseKey(lk, k) = [lk EXCEPT !.keys[k].refcnt = @ - 1]
    BY <1>3
  <2> QED
    BY <1>3, <2>1, SMT DEF LocalOK
<1> QED
  BY <1>1, <1>2, <1>3

-----------------------------------------------------------------------------
(***************************************************************************)
(* Steps of a thread that neither holds slaveKeysMutex before nor after.   *)
(***************************************************************************)
SameLocal ==
    \A n \in Node :
        /\ local'[n].ids = local[n].ids
        /\ \A k \in Key :
              /\ local'[n].keys[k].val = local[n].keys[k].val
              /\ local'[n].keys[k].verified = local[n].keys[k].verified
              /\ \/ local'[n].keys[k] = local[n].keys[k]
                 \/ local[n].keys[k].verified

\* A step of a thread that holds no slaveKeysMutex disturbs no other thread.
LEMMA FreeThread ==
  ASSUME TypeInv, TypeInv', Bound, Grows, SameLocal, mutex' = mutex, NEW t \in Thread,
         \A u \in Thread \ {t} : thr'[u] = thr[u],
         thr[t].pc \notin MutexPC, thr'[t].pc \notin MutexPC, ThrC(t)'
  PROVE  LocalV' /\ LocalR' /\ IdsB' /\ ThrB'
<1>0. LocalV /\ LocalR /\ IdsB /\ ThrB
  BY DEF Bound
<1>1. LocalV' /\ IdsB'
  <2>2. LocalV'
    <3> SUFFICES ASSUME NEW n \in Node, NEW k \in Key, local'[n].keys[k].verified
                 PROVE  master'[local'[n].keys[k].val] = k
      BY DEF LocalV
    <3>1. local[n].keys[k].verified /\ local'[n].keys[k].val = local[n].keys[k].val
      BY DEF SameLocal
    <3>2. local[n].keys[k].val \in ID
      BY <3>1, VerifiedID
    <3>3. master[local[n].keys[k].val] = k
      BY <1>0, <3>1 DEF LocalV
    <3> QED
      BY <3>1, <3>2, <3>3, ConstantsAssumption DEF Grows
  <2>3. IdsB'
    BY <1>0, SMT DEF IdsB, SameLocal
  <2> QED
    BY <2>2, <2>3
<1>2. LocalR'
  <2> SUFFICES ASSUME NEW n \in Node, NEW k \in Key, Reserved(n, k)'
               PROVE  local'[n].keys[k].refcnt = 1 /\ \E u \in Thread : Reserver(n, k, u)'
    BY DEF LocalR
  <2>1. Reserved(n, k) /\ local'[n].keys[k] = local[n].keys[k]
    BY SMT DEF Reserved, SameLocal
  <2>2. PICK u \in Thread : Reserver(n, k, u)
    BY <1>0, <2>1 DEF LocalR
  <2>3. u # t
    BY <2>2 DEF Reserver, MutexPC
  <2> QED
    BY <1>0, <2>1, <2>2, <2>3, SMT DEF LocalR, Reserver
<1>3. ASSUME NEW u \in Thread
      PROVE  ThrM(u)' /\ ThrC(u)' /\ ThrL(u)'
  <2>1. CASE u = t
    BY <2>1 DEF ThrM, ThrL, MutexPC
  <2>2. CASE u # t
    <3>1. thr'[u] = thr[u] /\ ThrM(u) /\ ThrC(u) /\ ThrL(u)
      BY <1>0, <2>2 DEF ThrB
    <3>2. thr[u] \in ThreadRec /\ NodeOf[u] \in Node
      BY ConstantsAssumption DEF TypeInv, ThrT
    <3>3. ThrM(u)'
      BY <3>1 DEF ThrM
    <3>4. ThrC(u)'
      <4>1. thr[u].val \in MaybeID /\ (thr[u].pc # "idle" => thr[u].key \in Key)
        BY <3>2 DEF ThreadRec
      <4> QED
        BY <3>1, <4>1, ConstantsAssumption, SMT DEF ThrC, MaybeID, Grows
    <3>5. ThrL(u)'
      BY <3>1, <3>2, SMT DEF ThrL, ThreadRec, SameLocal
    <3> QED
      BY <3>3, <3>4, <3>5
  <2> QED
    BY <2>1, <2>2
<1> QED
  BY <1>1, <1>2, <1>3 DEF ThrB

(***************************************************************************)
(* Steps of a thread that holds slaveKeysMutex, takes it or gives it back: *)
(* no other thread of the node is at a point where it holds it.            *)
(***************************************************************************)
Alone(t) ==
    /\ mutex[NodeOf[t]] \in {NoOne, t}
    /\ \A u \in Thread \ {t} : thr'[u] = thr[u]
    /\ \A m \in Node \ {NodeOf[t]} : mutex'[m] = mutex[m] /\ local'[m] = local[m]

\* Nor does a step of the thread that holds it, or takes it.
LEMMA OwnerThread ==
  ASSUME TypeInv, TypeInv', Bound, Grows, NEW t \in Thread, NEW n \in Node, n = NodeOf[t],
         Alone(t), sync' = sync, ThrM(t)', ThrC(t)', ThrL(t)',
         \A k \in Key : local'[n].keys[k].verified => master'[local'[n].keys[k].val] = k,
         \A k \in Key : Reserved(n, k)' =>
                          local'[n].keys[k].refcnt = 1 /\ Reserver(n, k, t)',
         \A id \in ID, k \in Key : local'[n].ids[id] = k => local'[n].keys[k].val = id
  PROVE  LocalV' /\ LocalR' /\ IdsB' /\ ThrB' /\ SyncM'
<1>0. LocalV /\ LocalR /\ IdsB /\ ThrB /\ SyncM
  BY DEF Bound
<1>1. LocalV'
  <2> SUFFICES ASSUME NEW m \in Node, NEW k \in Key, local'[m].keys[k].verified
               PROVE  master'[local'[m].keys[k].val] = k
    BY DEF LocalV
  <2>1. CASE m # n
    <3>1. local'[m] = local[m]
      BY <2>1 DEF Alone
    <3>2. local[m].keys[k].val \in ID
      BY <3>1, VerifiedID
    <3>3. master[local[m].keys[k].val] = k
      BY <1>0, <3>1 DEF LocalV
    <3> QED
      BY <3>1, <3>2, <3>3, ConstantsAssumption, SMT DEF Grows
  <2> QED
    BY <2>1
<1>2. LocalR'
  <2> SUFFICES ASSUME NEW m \in Node, NEW k \in Key, Reserved(m, k)'
               PROVE  local'[m].keys[k].refcnt = 1 /\ \E u \in Thread : Reserver(m, k, u)'
    BY DEF LocalR
  <2>1. CASE m = n
    BY <2>1
  <2>2. CASE m # n
    <3>1. local'[m] = local[m] /\ mutex'[m] = mutex[m]
      BY <2>2 DEF Alone
    <3>2. Reserved(m, k)
      BY <3>1 DEF Reserved
    <3>3. PICK u \in Thread : Reserver(m, k, u)
      BY <1>0, <3>2 DEF LocalR
    <3>4. u # t
      BY <2>2, <3>3 DEF Reserver
    <3>5. Reserver(m, k, u)'
      BY <3>1, <3>3, <3>4 DEF Reserver, Alone
    <3> QED
      BY <1>0, <3>1, <3>2, <3>5, SMT DEF LocalR
  <2> QED
    BY <2>1, <2>2
<1>3. IdsB'
  BY <1>0, SMT DEF IdsB, Alone
<1>4. ASSUME NEW u \in Thread
      PROVE  ThrM(u)' /\ ThrC(u)' /\ ThrL(u)'
  <2>1. CASE u = t
    BY <2>1
  <2>2. CASE u # t
    <3>1. thr'[u] = thr[u] /\ ThrM(u) /\ ThrC(u) /\ ThrL(u)
      BY <1>0, <2>2 DEF ThrB, Alone
    <3>2. thr[u] \in ThreadRec /\ NodeOf[u] \in Node
      BY ConstantsAssumption DEF TypeInv, ThrT
    <3>3. ThrC(u)'
      <4>1. thr[u].val \in MaybeID /\ (thr[u].pc # "idle" => thr[u].key \in Key)
        BY <3>2 DEF ThreadRec
      <4> QED
        BY <3>1, <4>1, ConstantsAssumption, SMT DEF ThrC, MaybeID, Grows
    <3>4. CASE NodeOf[u] = n
      <4>1. thr[u].pc \notin MutexPC
        BY <2>2, <3>1, <3>4, ConstantsAssumption, SMT DEF ThrM, Alone
      <4> QED
        BY <3>1, <3>3, <4>1 DEF ThrM, ThrL, MutexPC
    <3>5. CASE NodeOf[u] # n
      <4>1. mutex'[NodeOf[u]] = mutex[NodeOf[u]] /\ local'[NodeOf[u]] = local[NodeOf[u]]
        BY <3>2, <3>5 DEF Alone
      <4>2. ThrM(u)' /\ ThrL(u)'
        BY <3>1, <4>1 DEF ThrM, ThrL
      <4> QED
        BY <3>3, <4>2
    <3> QED
      BY <3>4, <3>5
  <2> QED
    BY <2>1, <2>2
<1>5. SyncM'
  BY <1>0, ConstantsAssumption, SMT DEF SyncM, Alone
<1> QED
  BY <1>1, <1>2, <1>3, <1>4, <1>5 DEF ThrB

\* A node whose slaveKeysMutex is free, or held by someone who has reserved
\* nothing, has only verified keys.
LEMMA NothingReserved ==
  ASSUME TypeInv, Bound, NEW n \in Node,
         \/ mutex[n] = NoOne
         \/ mutex[n] = n
         \/ mutex[n] \in Thread /\ thr[mutex[n]].pc \notin {"check", "create", "acquire"}
  PROVE  \A k \in Key : ~ Reserved(n, k)
  BY ConstantsAssumption, SMT DEF Bound, LocalR, Reserver

\* A thread reserves no other key than its own.
LEMMA OneReserved ==
  ASSUME TypeInv, Bound, NEW n \in Node, NEW t \in Thread, mutex[n] = t, NEW k \in Key,
         Reserved(n, k)
  PROVE  thr[t].key = k /\ local[n].keys[k].refcnt = 1
  BY SMT DEF Bound, LocalR, Reserver

\* localKeys of a node after a change of one entry.
LocalN(n) ==
    /\ \A k \in Key : local'[n].keys[k].verified => master'[local'[n].keys[k].val] = k
    /\ \A id \in ID, k \in Key : local'[n].ids[id] = k => local'[n].keys[k].val = id

\* The verified keys a step keeps stay bound.
LEMMA KeptVerified ==
  ASSUME TypeInv, Bound, Grows, NEW n \in Node, NEW k \in Key,
         local'[n].keys[k].verified, local[n].keys[k].verified,
         local'[n].keys[k].val = local[n].keys[k].val
  PROVE  master'[local'[n].keys[k].val] = k
<1>1. local[n].keys[k].val \in ID
  BY VerifiedID
<1>2. master[local[n].keys[k].val] = k
  BY DEF Bound, LocalV
<1> QED
  BY <1>1, <1>2, ConstantsAssumption DEF Grows

\* After localKeys.release the verified keys are still bound, and the maps agree.
LEMMA ReleaseLocal ==
  ASSUME TypeInv, Bound, Grows, NEW n \in Node, NEW k \in Key,
         local' = [local EXCEPT ![n] = LK!releaseKey(local[n], k)],
         \A l \in Key : Reserved(n, l) => l = k /\ local[n].keys[l].refcnt = 1
  PROVE  LocalN(n) /\ \A l \in Key : ~ Reserved(n, l)'
<1> DEFINE r == LK!releaseKey(local[n], k)
           old == local[n]
<1>1. LocalOK(old) /\ local'[n] = r
  BY DEF TypeInv, LocalT
<1>2. /\ \A l \in Key \ {k} : r.keys[l] = old.keys[l]
      /\ \/ /\ r.keys[k].val = NoID /\ ~ r.keys[k].verified
            /\ \/ old.keys[k].val = NoID /\ r.ids = old.ids
               \/ old.keys[k].val # NoID /\ r.ids = [old.ids EXCEPT ![old.keys[k].val] = NoKey]
         \/ /\ old.keys[k].refcnt # 1
            /\ r.keys[k].val = old.keys[k].val
            /\ r.keys[k].verified = old.keys[k].verified
            /\ r.ids = old.ids
  BY <1>1, ReleaseEffect
<1> HIDE DEF r
<1>3. ASSUME NEW l \in Key, local'[n].keys[l].verified
      PROVE  master'[local'[n].keys[l].val] = l
  <2>1. local[n].keys[l].verified /\ local'[n].keys[l].val = local[n].keys[l].val
    BY <1>1, <1>2, <1>3
  <2> QED
    BY <1>3, <2>1, KeptVerified
<1>4. ASSUME NEW id \in ID, NEW l \in Key, local'[n].ids[id] = l
      PROVE  local'[n].keys[l].val = id
  <2>1. old.ids \in [ID -> Key \cup {NoKey}]
    BY <1>1 DEF LocalOK, LK!LocalKeysType
  <2>2. old.ids[id] = l
    BY <1>1, <1>2, <1>4, <2>1, ConstantsAssumption, SMT
  <2>3. old.keys[l].val = id
    BY <2>2, SMT DEF Bound, IdsB
  <2>4. CASE l # k
    BY <1>1, <1>2, <2>3, <2>4
  <2>5. CASE l = k
    BY <1>1, <1>2, <1>4, <2>1, <2>2, <2>3, <2>5, ConstantsAssumption, SMT
  <2> QED
    BY <2>4, <2>5
<1>5. ASSUME NEW l \in Key, Reserved(n, l)'
      PROVE  FALSE
  <2>1. local'[n].keys[l].val # NoID /\ ~ local'[n].keys[l].verified
    BY <1>5 DEF Reserved
  <2>2. CASE l # k
    BY <1>1, <1>2, <2>1, <2>2 DEF Reserved
  <2>3. CASE l = k
    BY <1>1, <1>2, <2>1, <2>3 DEF Reserved
  <2> QED
    BY <2>2, <2>3
<1> QED
  BY <1>3, <1>4, <1>5 DEF LocalN

\* So they are after localKeys.allocate,
LEMMA AllocateLocal ==
  ASSUME TypeInv, Bound, Grows, NEW n \in Node, NEW k \in Key, NEW id \in ID,
         local' = [local EXCEPT ![n] = LK!allocate(local[n], k, id)],
         \A l \in Key : ~ Reserved(n, l),
         local[n].keys[k].val \in {NoID, id}
  PROVE  /\ LocalN(n)
         /\ local'[n].keys[k].val = id
         /\ local[n].keys[k].val = NoID => ~ local'[n].keys[k].verified
         /\ \A l \in Key : Reserved(n, l)' => l = k /\ local'[n].keys[l].refcnt = 1
<1> DEFINE r == LK!allocate(local[n], k, id)
           old == local[n]
<1>1. LocalOK(old) /\ local'[n] = r
  BY DEF TypeInv, LocalT
<1>2. /\ \A l \in Key \ {k} : r.keys[l] = old.keys[l]
      /\ old.keys[k].val = NoID =>
           /\ r.keys[k] = [val |-> id, refcnt |-> 1, verified |-> FALSE]
           /\ r.ids = [old.ids EXCEPT ![id] = k]
      /\ old.keys[k].val # NoID =>
           /\ r.keys[k].val = old.keys[k].val
           /\ r.keys[k].verified = old.keys[k].verified
           /\ r.ids = old.ids
  BY <1>1, AllocateEffect, SMT
<1> HIDE DEF r
<1>3. ASSUME NEW l \in Key, local'[n].keys[l].verified
      PROVE  master'[local'[n].keys[l].val] = l
  <2>1. local[n].keys[l].verified /\ local'[n].keys[l].val = local[n].keys[l].val
    BY <1>1, <1>2, <1>3, SMT
  <2> QED
    BY <1>3, <2>1, KeptVerified
<1>4. ASSUME NEW i \in ID, NEW l \in Key, local'[n].ids[i] = l
      PROVE  local'[n].keys[l].val = i
  <2>1. old.ids \in [ID -> Key \cup {NoKey}]
    BY <1>1 DEF LocalOK, LK!LocalKeysType
  <2>2. old.ids[i] = l => old.keys[l].val = i
    BY DEF Bound, IdsB
  <2> QED
    BY <1>1, <1>2, <1>4, <2>1, <2>2, ConstantsAssumption, SMT
<1>5. ASSUME NEW l \in Key, Reserved(n, l)'
      PROVE  l = k /\ local'[n].keys[l].refcnt = 1
  <2>1. local'[n].keys[l].val # NoID /\ ~ local'[n].keys[l].verified
    BY <1>5 DEF Reserved
  <2>2. CASE l # k
    BY <1>1, <1>2, <2>1, <2>2 DEF Reserved
  <2>3. CASE l = k
    BY <1>1, <1>2, <2>1, <2>3, SMT DEF Reserved
  <2> QED
    BY <2>2, <2>3
<1>6. /\ local'[n].keys[k].val = id
      /\ local[n].keys[k].val = NoID => ~ local'[n].keys[k].verified
  BY <1>1, <1>2, SMT
<1> QED
  BY <1>3, <1>4, <1>5, <1>6 DEF LocalN

\* and after localKeys.verify of a key with a bound identifier.
LEMMA VerifyLocal ==
  ASSUME TypeInv, Bound, Grows, NEW n \in Node, NEW k \in Key, NEW id \in ID,
         local' = [local EXCEPT ![n] = LK!verify(local[n], k)],
         local[n].keys[k].val = id, master[id] = k,
         \A l \in Key : Reserved(n, l) => l = k
  PROVE  LocalN(n) /\ \A l \in Key : ~ Reserved(n, l)'
<1> DEFINE r == LK!verify(local[n], k)
           old == local[n]
<1>1. LocalOK(old) /\ local'[n] = r /\ id # NoID
  BY ConstantsAssumption DEF TypeInv, LocalT
<1>2. /\ \A l \in Key \ {k} : r.keys[l] = old.keys[l]
      /\ r.keys[k].val = old.keys[k].val
      /\ r.keys[k].verified
      /\ r.ids = old.ids
  BY <1>1, VerifyEffect
<1> HIDE DEF r
<1>3. ASSUME NEW l \in Key, local'[n].keys[l].verified
      PROVE  master'[local'[n].keys[l].val] = l
  <2>1. CASE l # k
    <3>1. local[n].keys[l].verified /\ local'[n].keys[l].val = local[n].keys[l].val
      BY <1>1, <1>2, <1>3, <2>1
    <3> QED
      BY <1>3, <3>1, KeptVerified
  <2>2. CASE l = k
    BY <1>1, <1>2, <2>2, ConstantsAssumption, SMT DEF Grows
  <2> QED
    BY <2>1, <2>2
<1>4. ASSUME NEW i \in ID, NEW l \in Key, local'[n].ids[i] = l
      PROVE  local'[n].keys[l].val = i
  BY <1>1, <1>2, <1>4, SMT DEF Bound, IdsB
<1>5. ASSUME NEW l \in Key, Reserved(n, l)'
      PROVE  FALSE
  <2>1. local'[n].keys[l].val # NoID /\ ~ local'[n].keys[l].verified
    BY <1>5 DEF Reserved
  <2>2. l # k
    BY <1>1, <1>2, <2>1
  <2> QED
    BY <1>1, <1>2, <2>1, <2>2 DEF Reserved
<1> QED
  BY <1>3, <1>4, <1>5 DEF LocalN

=============================================================================
