------------------------- MODULE KVAllocatorProofs --------------------------
(***************************************************************************)
(* Proofs about KVAllocator, for any number of nodes, threads, keys and    *)
(* identifiers and any bound on references, attempts and faults.           *)
(***************************************************************************)
EXTENDS KVAllocator, TLAPS

\* Most leaves are first-order; the few that need SMT say so.
USE ZenonT(20)

-----------------------------------------------------------------------------
(***************************************************************************)
(* The operations of localKeys keep every entry referenced, and only a     *)
(* key with an identifier verified.                                        *)
(***************************************************************************)
LocalOK(lk) ==
    /\ lk \in LK!LocalKeysType
    /\ \A k \in Key : /\ lk.keys[k].val # NoID => lk.keys[k].refcnt > 0
                      /\ lk.keys[k].verified => lk.keys[k].val # NoID

\* The maps localKeys starts with, after NewAllocator.
LEMMA NewLocalKeysOK == LocalOK(LK!newLocalKeys)
  BY DEF LocalOK, LK!newLocalKeys, LK!LocalKeysType, LK!NoEntry

\* localKeys.use.
LEMMA UseOK ==
  ASSUME NEW lk, LocalOK(lk), NEW k \in Key
  PROVE  LocalOK(LK!useKey(lk, k))
  BY SMT DEF LocalOK, LK!useKey, LK!LocalKeysType

\* localKeys.allocate, of a new key and of one that is there.
LEMMA AllocateOK ==
  ASSUME NEW lk, LocalOK(lk), NEW k \in Key, NEW id \in ID
  PROVE  LocalOK(LK!allocate(lk, k, id))
<1>1. CASE LK!lookupKey(lk, k) = NoID
  BY <1>1, SMT DEF LocalOK, LK!allocate, LK!LocalKeysType
<1>2. CASE LK!lookupKey(lk, k) # NoID
  BY <1>2, UseOK DEF LK!allocate, LK!useKey
<1> QED
  BY <1>1, <1>2

\* localKeys.verify.
LEMMA VerifyOK ==
  ASSUME NEW lk, LocalOK(lk), NEW k \in Key
  PROVE  LocalOK(LK!verify(lk, k))
<1>1. CASE LK!lookupKey(lk, k) = NoID
  BY <1>1 DEF LK!verify
<1>2. CASE LK!lookupKey(lk, k) # NoID
  <2> DEFINE e == [lk.keys[k] EXCEPT !.verified = TRUE]
  <2>1. LK!verify(lk, k) = [lk EXCEPT !.keys = [lk.keys EXCEPT ![k] = e]]
    BY <1>2 DEF LK!verify
  <2>2. lk.keys[k] \in [val : ID \cup {NoID}, refcnt : Nat, verified : BOOLEAN]
    BY DEF LocalOK, LK!LocalKeysType
  <2>3. e \in [val : ID \cup {NoID}, refcnt : Nat, verified : BOOLEAN]
    BY <2>2
  <2>4. e.val # NoID /\ e.refcnt > 0
    BY <1>2, <2>2, SMT DEF LocalOK, LK!lookupKey
  <2> HIDE DEF e
  <2> QED
    BY <2>1, <2>3, <2>4, SMT DEF LocalOK, LK!LocalKeysType
<1> QED
  BY <1>1, <1>2

\* localKeys.release, of the last reference and of another one.
LEMMA ReleaseOK ==
  ASSUME NEW lk, LocalOK(lk), NEW k \in Key
  PROVE  LocalOK(LK!releaseKey(lk, k))
<1> USE DEF LocalOK, LK!releaseKey, LK!lookupKey, LK!lastUse, LK!LocalKeysType
<1>1. CASE LK!lookupKey(lk, k) = NoID
  BY <1>1
<1>2. CASE LK!lookupKey(lk, k) # NoID /\ LK!lastUse(lk, k)
  <2>1. LK!releaseKey(lk, k) = [keys |-> [lk.keys EXCEPT ![k] = LK!NoEntry],
                                ids  |-> [lk.ids EXCEPT ![lk.keys[k].val] = NoKey]]
    BY <1>2
  <2> QED
    BY <2>1, SMT DEF LK!NoEntry
<1>3. CASE LK!lookupKey(lk, k) # NoID /\ ~ LK!lastUse(lk, k)
  <2>1. LK!releaseKey(lk, k) = [lk EXCEPT !.keys[k].refcnt = @ - 1]
    BY <1>3
  <2>2. lk.keys[k].refcnt - 1 \in Nat /\ lk.keys[k].refcnt - 1 > 0
    BY <1>3, SMT
  <2> QED
    BY <2>1, <2>2, SMT
<1> QED
  BY <1>1, <1>2, <1>3

-----------------------------------------------------------------------------
(***************************************************************************)
(* Type correctness.  What a program counter says about the other fields   *)
(* of its record is part of the type.                                      *)
(***************************************************************************)
ThreadRec ==
    {r \in [pc : ThreadPC, key : MaybeKey, val : MaybeID, new : BOOLEAN, try : Nat] :
        /\ r.pc # "idle" => r.key \in Key
        /\ r.pc \in {"remaster", "reslave", "check", "create", "acquire", "insert"}
             => r.val \in ID}

SyncRec ==
    {r \in [pc : {"idle", "next", "master", "slave", "check", "lock", "del"},
            id : MaybeID, key : MaybeKey, todo : SUBSET (ID \X Key)] :
        r.pc \notin {"idle", "next"} => r.id \in ID /\ r.key \in Key}

ProtRec ==
    {r \in [pc : {"off", "run", "slave"}, key : MaybeKey] : r.pc # "off" => r.key \in Key}

MasterT == /\ master \in [ID -> MaybeKey]
           /\ rev \in [ID -> Nat]
           /\ events \in [Node -> Seq(Event)]
SlaveT == slave \in [Node -> [Key -> MaybeID]] /\ orphan \in [Node -> SUBSET Key]
LockT == kvLock \in [Key -> Thread \cup {NoOne, Orphan}]
CacheT == cache \in [Node -> Cache!CacheType]
PoolT == pool \in [Node -> Pool!PoolType]
LocalT == local \in [Node -> LK!LocalKeysType] /\ \A n \in Node : LocalOK(local[n])
MutexT == mutex \in [Node -> Thread \cup Node \cup {NoOne}]
ThrT == thr \in [Thread -> ThreadRec]
SyncT == sync \in [Node -> SyncRec]
ProtT == prot \in [Node -> [ID -> ProtRec]]
RefsT == refs \in [Node -> [Key -> Nat]]
GcT == gc \in [pc : {"idle", "next", "del"}, todo : SUBSET GCEntry, cur : SUBSET GCEntry,
               prev : [ID -> Nat], stale : [ID -> Nat]]
FaultsT == faults \in 0 .. MaxFaults

TypeInv == /\ MasterT /\ SlaveT /\ LockT /\ CacheT /\ PoolT /\ LocalT /\ MutexT
           /\ ThrT /\ SyncT /\ ProtT /\ RefsT /\ GcT /\ FaultsT

\* The parts of the type invariant make it up.
LEMMA TypeInvTypeOK == TypeInv => TypeOK
<1> SUFFICES ASSUME TypeInv PROVE TypeOK
  OBVIOUS
<1>1. thr \in [Thread -> [pc : ThreadPC, key : MaybeKey, val : MaybeID,
                           new : BOOLEAN, try : Nat]]
  BY DEF TypeInv, ThrT, ThreadRec
<1>2. sync \in [Node -> [pc : {"idle", "next", "master", "slave", "check", "lock", "del"},
                          id : MaybeID, key : MaybeKey, todo : SUBSET (ID \X Key)]]
  BY DEF TypeInv, SyncT, SyncRec
<1>3. prot \in [Node -> [ID -> [pc : {"off", "run", "slave"}, key : MaybeKey]]]
  BY DEF TypeInv, ProtT, ProtRec
<1> QED
  BY <1>1, <1>2, <1>3
     DEF TypeInv, TypeOK, MasterT, SlaveT, LockT, CacheT, PoolT, LocalT, MutexT, RefsT, GcT,
         FaultsT

\* NewAllocator leaves every variable well typed.
LEMMA TypeInit == Init => TypeInv
<1> SUFFICES ASSUME Init PROVE TypeInv
  OBVIOUS
<1> USE ConstantsAssumption DEF Init
<1>1. MasterT /\ SlaveT /\ LockT /\ MutexT /\ RefsT /\ FaultsT
  BY SMT DEF MasterT, SlaveT, LockT, MutexT, RefsT, FaultsT, MaybeKey, MaybeID
<1>2. CacheT /\ PoolT
  BY DEF CacheT, Cache!CacheType, PoolT, Pool!PoolType, Pool!newIDCache
<1>3. LocalT
  BY NewLocalKeysOK DEF LocalT, LocalOK
<1>4. ThrT
  BY DEF ThrT, ThreadRec, IdleThread, ThreadPC, MaybeKey, MaybeID
<1>5. SyncT
  BY DEF SyncT, SyncRec, IdleSync, MaybeKey, MaybeID
<1>6. ProtT
  BY DEF ProtT, ProtRec, NoController, MaybeKey
<1>7. GcT
  BY DEF GcT, NoMarks
<1> QED
  BY <1>1, <1>2, <1>3, <1>4, <1>5, <1>6, <1>7 DEF TypeInv

\* A step keeps the type of the variables it leaves alone.
LEMMA TypeFrame ==
    /\ MasterT /\ UNCHANGED <<master, rev, events>> => MasterT'
    /\ SlaveT /\ UNCHANGED <<slave, orphan>> => SlaveT'
    /\ LockT /\ UNCHANGED kvLock => LockT'
    /\ CacheT /\ UNCHANGED cache => CacheT'
    /\ PoolT /\ UNCHANGED pool => PoolT'
    /\ LocalT /\ UNCHANGED local => LocalT'
    /\ MutexT /\ UNCHANGED mutex => MutexT'
    /\ ThrT /\ UNCHANGED thr => ThrT'
    /\ SyncT /\ UNCHANGED sync => SyncT'
    /\ ProtT /\ UNCHANGED prot => ProtT'
    /\ RefsT /\ UNCHANGED refs => RefsT'
    /\ GcT /\ UNCHANGED gc => GcT'
    /\ FaultsT /\ UNCHANGED faults => FaultsT'
  BY DEF MasterT, SlaveT, LockT, CacheT, PoolT, LocalT, MutexT, ThrT, SyncT, ProtT, RefsT,
         GcT, FaultsT

\* The requests to etcd.
LEMMA AnswerType ==
  ASSUME FaultsT, NEW o, Answer(o)
  PROVE  FaultsT'
  BY ConstantsAssumption, SMT DEF FaultsT, Answer

\* CreateOnly of a master key,
LEMMA CreateOnlyMasterType ==
  ASSUME MasterT, NEW o, NEW id \in ID, NEW k \in Key, CreateOnlyMaster(o, id, k)
  PROVE  MasterT'
<1>1. CASE o # "fail" /\ master[id] = NoKey
  <2> DEFINE e == [typ |-> "upsert", id |-> id, key |-> k]
  <2>1. e \in Event
    BY DEF Event
  <2>2. /\ master' = [master EXCEPT ![id] = k]
        /\ rev' = [rev EXCEPT ![id] = @ + 1]
        /\ events' = [n \in Node |-> Append(events[n], e)]
    BY <1>1 DEF CreateOnlyMaster, PutMaster, Notify
  <2> HIDE DEF e
  <2>3. events' \in [Node -> Seq(Event)]
    BY <2>1, <2>2, SMT DEF MasterT
  <2>4. master' \in [ID -> MaybeKey] /\ rev' \in [ID -> Nat]
    BY <2>2, SMT DEF MasterT, MaybeKey
  <2> QED
    BY <2>3, <2>4 DEF MasterT
<1>2. CASE ~ (o # "fail" /\ master[id] = NoKey)
  BY <1>2, TypeFrame DEF CreateOnlyMaster
<1> QED
  BY <1>1, <1>2

\* the put of a slave key,
LEMMA PutSlaveType ==
  ASSUME SlaveT, NEW n \in Node, NEW id \in ID, NEW k \in Key, PutSlave(n, k, id)
  PROVE  SlaveT'
  BY DEF SlaveT, PutSlave, MaybeID

\* its CreateOnly,
LEMMA CreateOnlySlaveType ==
  ASSUME SlaveT, NEW o, NEW n \in Node, NEW id \in ID, NEW k \in Key,
         CreateOnlySlave(o, n, k, id)
  PROVE  SlaveT'
  BY PutSlaveType, TypeFrame DEF CreateOnlySlave

\* its deletion,
LEMMA DeleteSlaveType ==
  ASSUME SlaveT, NEW o, NEW n \in Node, NEW k \in Key, DeleteSlave(o, n, k)
  PROVE  SlaveT'
<1>1. CASE o = "fail"
  BY <1>1, TypeFrame DEF DeleteSlave
<1>2. CASE o # "fail"
  BY <1>2, SMT DEF SlaveT, DeleteSlave, MaybeID
<1> QED
  BY <1>1, <1>2

\* and what Get returns.
LEMMA FoundType ==
  ASSUME SlaveT, NEW k \in Key
  PROVE  Found(k) \subseteq MaybeID
  BY SMT DEF SlaveT, Found, MaybeID

\* The steps a thread is made of.
LEMMA IdleThreadType == IdleThread \in ThreadRec
  BY DEF IdleThread, ThreadRec, ThreadPC, MaybeKey, MaybeID

\* A thread that goes on,
LEMMA GotoType ==
  ASSUME ThrT, NEW t \in Thread, NEW pc \in ThreadPC, Goto(t, pc), thr[t].pc # "idle",
         pc \in {"remaster", "reslave", "check", "create", "acquire", "insert"}
           => thr[t].val \in ID
  PROVE  ThrT'
<1> DEFINE r == [thr[t] EXCEPT !.pc = pc]
<1>1. thr[t] \in ThreadRec
  BY DEF ThrT
<1>2. r \in ThreadRec
  BY <1>1 DEF ThreadRec
<1>3. thr' = [thr EXCEPT ![t] = r]
  BY <1>1 DEF Goto, ThrT
<1> QED
  BY <1>2, <1>3 DEF ThrT

\* one that returns from lockedAllocate,
LEMMA ReturnType ==
  ASSUME ThrT, MutexT, NEW t \in Thread, NEW val \in MaybeID, Return(t, val),
         thr[t].pc # "idle"
  PROVE  ThrT' /\ MutexT'
<1> DEFINE r == [thr[t] EXCEPT !.pc = "unlock", !.val = val]
<1>1. thr[t] \in ThreadRec
  BY DEF ThrT
<1>2. r \in ThreadRec
  BY <1>1 DEF ThreadRec, ThreadPC
<1>3. thr' = [thr EXCEPT ![t] = r]
  BY <1>1 DEF Return, ThrT
<1>4. ThrT'
  BY <1>2, <1>3 DEF ThrT
<1>5. MutexT'
  BY ConstantsAssumption DEF MutexT, Return
<1> QED
  BY <1>4, <1>5

\* idPool.Release,
LEMMA PoolReleaseType ==
  ASSUME NEW p \in Pool!PoolType, NEW id \in ID
  PROVE  Pool!release(p, id) \in Pool!PoolType
  BY DEF Pool!release, Pool!insert, Pool!PoolType

\* and releaseKeyAndID.
LEMMA UndoType ==
  ASSUME ThrT, MutexT, LocalT, PoolT, NEW t \in Thread, Undo(t), thr[t].pc # "idle",
         thr[t].val \in ID
  PROVE  ThrT' /\ MutexT' /\ LocalT' /\ PoolT'
<1>1. thr[t].key \in Key /\ NodeOf[t] \in Node
  BY ConstantsAssumption DEF ThrT, ThreadRec
<1>2. ThrT' /\ MutexT'
  BY ReturnType DEF Undo, MaybeID
<1>3. LocalT'
  <2>1. LocalOK(LK!releaseKey(local[NodeOf[t]], thr[t].key))
    BY <1>1, ReleaseOK DEF LocalT
  <2>2. local' = [local EXCEPT ![NodeOf[t]] = LK!releaseKey(local[NodeOf[t]], thr[t].key)]
    BY DEF Undo
  <2>3. LK!releaseKey(local[NodeOf[t]], thr[t].key) \in LK!LocalKeysType
    BY <2>1 DEF LocalOK
  <2> QED
    BY <1>1, <2>1, <2>2, <2>3 DEF LocalT
<1>4. PoolT'
  BY <1>1, PoolReleaseType DEF PoolT, Undo
<1> QED
  BY <1>2, <1>3, <1>4

\* The update of the local keys of one node.
LEMMA LocalUpdate ==
  ASSUME LocalT, NEW n \in Node, NEW lk, LocalOK(lk), local' = [local EXCEPT ![n] = lk]
  PROVE  LocalT'
<1>1. lk \in LK!LocalKeysType
  BY DEF LocalOK
<1> QED
  BY <1>1 DEF LocalT

\* An attempt of Allocate.
LEMMA AttemptType ==
  ASSUME ThrT, LocalT, NEW t \in Thread, NEW k \in Key, NEW try \in Nat, Attempt(t, k, try)
  PROVE  ThrT' /\ LocalT'
<1> DEFINE n == NodeOf[t]
<1>1. n \in Node
  BY ConstantsAssumption
<1> DEFINE hit == LK!useHit(local[n], k)
           r == [IdleThread EXCEPT !.pc = IF hit THEN "insert" ELSE "lock",
                                   !.val = IF hit THEN LK!lookupKey(local[n], k) ELSE NoID,
                                   !.key = k, !.try = try]
<1>2. hit => LK!lookupKey(local[n], k) \in ID
  BY <1>1 DEF LocalT, LocalOK, LK!useHit, LK!lookupKey, LK!LocalKeysType
<1>3. thr' = [thr EXCEPT ![t] = r]
  BY DEF Attempt
<1>4. r \in ThreadRec
  BY <1>2 DEF ThreadRec, IdleThread, ThreadPC, MaybeKey, MaybeID
<1>5. ThrT'
  BY <1>3, <1>4 DEF ThrT
<1>6. CASE hit
  <2>1. local' = [local EXCEPT ![n] = LK!useKey(local[n], k)]
    BY <1>6 DEF Attempt, IdleThread
  <2>2. LocalOK(LK!useKey(local[n], k))
    BY <1>1, UseOK DEF LocalT
  <2> QED
    BY <1>5, <1>1, <2>1, <2>2, LocalUpdate
<1>7. CASE ~ hit
  <2>1. local' = local
    BY <1>7 DEF Attempt, IdleThread
  <2> QED
    BY <1>5, <2>1, TypeFrame
<1> QED
  BY <1>6, <1>7

\* The update of one thread.
LEMMA ThreadUpdate ==
  ASSUME ThrT, NEW t \in Thread, NEW r \in ThreadRec, thr' = [thr EXCEPT ![t] = r]
  PROVE  ThrT'
  BY DEF ThrT

\* The update of one mutex.
LEMMA MutexUpdate ==
  ASSUME MutexT, NEW n \in Node, NEW h \in Thread \cup Node \cup {NoOne},
         mutex' = [mutex EXCEPT ![n] = h]
  PROVE  MutexT'
  BY DEF MutexT

\* Every step of a thread is type correct.
LEMMA ThreadType ==
  ASSUME TypeInv, NEW t \in Thread, ThreadStep(t)
  PROVE  TypeInv'
<1> DEFINE n == NodeOf[t]
           k == thr[t].key
<1> USE DEF TypeInv
<1>n. n \in Node
  BY ConstantsAssumption
<1>t. thr[t] \in ThreadRec
  BY DEF ThrT
<1>k. thr[t].pc # "idle" => k \in Key
  BY <1>t DEF ThreadRec
<1>v. thr[t].pc \in {"remaster", "reslave", "check", "create", "acquire", "insert"}
        => thr[t].val \in ID
  BY <1>t DEF ThreadRec
<1>1. CASE Lock(t)
  <2>1. ThrT'
    BY <1>1, GotoType DEF Lock, ThreadPC
  <2>2. LockT'
    BY <1>1, <1>k DEF Lock, LockT
  <2> QED
    BY <1>1, <2>1, <2>2, TypeFrame DEF Lock
<1>2. CASE LockTimeout(t)
  <2>1. ThrT'
    BY <1>2, GotoType DEF LockTimeout, ThreadPC
  <2> QED
    BY <1>2, <2>1, TypeFrame DEF LockTimeout, kvVars
<1>3. CASE GetIfLocked(t)
  <2>1. PICK o \in ReadOutcome, v \in Found(k) :
          /\ Answer(o)
          /\ thr' = [thr EXCEPT ![t] =
               CASE cache[n].keys[k] # NoID ->
                      [@ EXCEPT !.pc = "reserve", !.val = cache[n].keys[k]]
                 [] cache[n].keys[k] = NoID /\ o = "ok" /\ Holds(t) ->
                      [@ EXCEPT !.pc = "reserve", !.val = v]
                 [] OTHER -> [@ EXCEPT !.pc = "unlock"]]
    BY <1>3 DEF GetIfLocked
  <2>2. k \in Key
    BY <1>3, <1>k DEF GetIfLocked
  <2>3. v \in MaybeID /\ cache[n].keys[k] \in MaybeID
    BY <1>n, <2>2, FoundType, SMT DEF CacheT, Cache!CacheType, MaybeID
  <2>4. \E r \in ThreadRec : thr' = [thr EXCEPT ![t] = r]
    <3>1. [thr[t] EXCEPT !.pc = "reserve", !.val = cache[n].keys[k]] \in ThreadRec
      BY <1>t, <2>2, <2>3 DEF ThreadRec, ThreadPC
    <3>2. [thr[t] EXCEPT !.pc = "reserve", !.val = v] \in ThreadRec
      BY <1>t, <2>2, <2>3 DEF ThreadRec, ThreadPC
    <3>3. [thr[t] EXCEPT !.pc = "unlock"] \in ThreadRec
      BY <1>t, <2>2, <2>3 DEF ThreadRec, ThreadPC
    <3> QED
      BY <2>1, <3>1, <3>2, <3>3
  <2>5. ThrT'
    BY <2>4, ThreadUpdate
  <2>6. FaultsT'
    BY <2>1, AnswerType
  <2> QED
    BY <1>3, <2>5, <2>6, TypeFrame DEF GetIfLocked, kvVars

<1>4. CASE Reserve(t)
  <2>k. k \in Key /\ thr[t].pc # "idle"
    BY <1>4, <1>k DEF Reserve
  <2>l. LocalOK(local[n]) /\ pool[n] \in Pool!PoolType
    BY <1>n DEF LocalT, PoolT
  <2>1. CASE Return(t, NoID) /\ UNCHANGED <<local, pool>>
    BY <1>4, <2>1, <2>k, ReturnType, TypeFrame DEF Reserve, kvVars, MaybeID
  <2>2. CASE /\ thr[t].val # NoID
             /\ local' = [local EXCEPT ![n] = LK!allocate(@, k, thr[t].val)]
             /\ mutex' = [mutex EXCEPT ![n] = t]
             /\ Goto(t, "acquire")
             /\ UNCHANGED pool
    <3>1. thr[t].val \in ID
      BY <2>2, <1>t DEF ThreadRec, MaybeID
    <3>2. ThrT'
      BY <2>2, <2>k, <3>1, GotoType DEF ThreadPC
    <3>3. LocalT'
      BY <1>n, <2>2, <2>k, <2>l, <3>1, AllocateOK, LocalUpdate
    <3>4. MutexT'
      BY <1>n, <2>2, MutexUpdate
    <3> QED
      BY <1>4, <2>2, <3>2, <3>3, <3>4, TypeFrame DEF Reserve, kvVars
  <2>3. CASE /\ LK!lookupKey(local[n], k) # NoID
             /\ mutex' = [mutex EXCEPT ![n] = t]
             /\ thr' = [thr EXCEPT ![t].pc = "remaster",
                                   ![t].val = LK!lookupKey(local[n], k)]
             /\ UNCHANGED <<local, pool>>
    <3>1. LK!lookupKey(local[n], k) \in ID
      BY <2>3, <2>k, <2>l DEF LocalOK, LK!LocalKeysType, LK!lookupKey
    <3>2. thr' = [thr EXCEPT ![t] = [thr[t] EXCEPT !.pc = "remaster",
                                                   !.val = LK!lookupKey(local[n], k)]]
      BY <2>3, <1>t DEF ThrT
    <3>3. [thr[t] EXCEPT !.pc = "remaster", !.val = LK!lookupKey(local[n], k)] \in ThreadRec
      BY <1>t, <2>k, <3>1 DEF ThreadRec, ThreadPC, MaybeID
    <3>4. ThrT'
      BY <3>2, <3>3, ThreadUpdate
    <3>5. MutexT'
      BY <1>n, <2>3, MutexUpdate
    <3> QED
      BY <1>4, <2>3, <3>4, <3>5, TypeFrame DEF Reserve, kvVars
  <2>4. CASE \E id \in pool[n].ids :
                /\ pool' = [pool EXCEPT ![n] = Pool!leaseAvailableID(@, id)]
                /\ local' = [local EXCEPT ![n] = LK!allocate(@, k, id)]
                /\ thr' = [thr EXCEPT ![t].pc = "check", ![t].val = id, ![t].new = TRUE]
                /\ mutex' = [mutex EXCEPT ![n] = t]
    <3>1. PICK id \in pool[n].ids :
                /\ pool' = [pool EXCEPT ![n] = Pool!leaseAvailableID(@, id)]
                /\ local' = [local EXCEPT ![n] = LK!allocate(@, k, id)]
                /\ thr' = [thr EXCEPT ![t].pc = "check", ![t].val = id, ![t].new = TRUE]
                /\ mutex' = [mutex EXCEPT ![n] = t]
      BY <2>4
    <3>2. id \in ID
      BY <2>l DEF Pool!PoolType
    <3>3. PoolT'
      BY <1>n, <3>1, <3>2
         DEF PoolT, Pool!PoolType, Pool!leaseAvailableID, Pool!allocateID
    <3>4. LocalT'
      BY <1>n, <2>k, <2>l, <3>1, <3>2, AllocateOK, LocalUpdate
    <3>5. thr' = [thr EXCEPT ![t] = [thr[t] EXCEPT !.pc = "check", !.val = id, !.new = TRUE]]
      BY <3>1, <1>t DEF ThrT
    <3>6. [thr[t] EXCEPT !.pc = "check", !.val = id, !.new = TRUE] \in ThreadRec
      BY <1>t, <2>k, <3>2 DEF ThreadRec, ThreadPC, MaybeID
    <3>7. ThrT'
      BY <3>5, <3>6, ThreadUpdate
    <3>8. MutexT'
      BY <1>n, <3>1, MutexUpdate
    <3> QED
      BY <1>4, <3>3, <3>4, <3>7, <3>8, TypeFrame DEF Reserve, kvVars
  <2> QED
    BY <1>4, <2>1, <2>2, <2>3, <2>4 DEF Reserve
<1>5. CASE RecreateMaster(t)
  <2>1. PICK o \in Outcome :
          /\ Answer(o)
          /\ IF Holds(t) THEN CreateOnlyMaster(o, thr[t].val, k)
                         ELSE UNCHANGED <<master, rev, events>>
          /\ IF o = "ok" /\ (Holds(t) \/ master[thr[t].val] # NoKey)
             THEN Goto(t, "reslave") /\ UNCHANGED mutex
             ELSE Return(t, NoID)
    BY <1>5 DEF RecreateMaster
  <2>2. k \in Key /\ thr[t].val \in ID /\ thr[t].pc # "idle"
    BY <1>5, <1>k, <1>v DEF RecreateMaster
  <2>3. MasterT'
    BY <2>1, <2>2, CreateOnlyMasterType, TypeFrame
  <2>4. ThrT' /\ MutexT'
    BY <2>1, <2>2, GotoType, ReturnType, TypeFrame DEF ThreadPC, MaybeID
  <2>5. FaultsT'
    BY <2>1, AnswerType
  <2> QED
    BY <1>5, <2>3, <2>4, <2>5, TypeFrame DEF RecreateMaster
<1>6. CASE RecreateSlave(t)
  <2>1. PICK o \in Outcome :
          /\ Answer(o)
          /\ CreateOnlySlave(o, n, k, thr[t].val)
          /\ IF o = "ok" THEN Goto(t, "acquire") /\ UNCHANGED mutex ELSE Return(t, NoID)
    BY <1>6 DEF RecreateSlave
  <2>2. k \in Key /\ thr[t].val \in ID /\ thr[t].pc # "idle"
    BY <1>6, <1>k, <1>v DEF RecreateSlave
  <2>3. SlaveT'
    BY <1>n, <2>1, <2>2, CreateOnlySlaveType
  <2>4. ThrT' /\ MutexT'
    BY <2>1, <2>2, GotoType, ReturnType, TypeFrame DEF ThreadPC, MaybeID
  <2>5. FaultsT'
    BY <2>1, AnswerType
  <2> QED
    BY <1>6, <2>3, <2>4, <2>5, TypeFrame DEF RecreateSlave
<1>7. CASE GetNoCache(t)
  <2>1. PICK o \in ReadOutcome :
          /\ Answer(o)
          /\ IF o = "ok" /\ Found(k) = {NoID}
             THEN Goto(t, "create") /\ UNCHANGED <<local, pool, mutex>>
             ELSE Undo(t)
    BY <1>7 DEF GetNoCache
  <2>2. k \in Key /\ thr[t].val \in ID /\ thr[t].pc # "idle"
    BY <1>7, <1>k, <1>v DEF GetNoCache
  <2>3. ThrT' /\ MutexT' /\ LocalT' /\ PoolT'
    BY <2>1, <2>2, GotoType, UndoType, TypeFrame DEF ThreadPC
  <2>4. FaultsT'
    BY <2>1, AnswerType
  <2> QED
    BY <1>7, <2>3, <2>4, TypeFrame DEF GetNoCache, kvVars
<1>8. CASE AllocateID(t)
  <2> DEFINE ok == Holds(t) /\ master[thr[t].val] = NoKey
  <2>1. PICK o \in Outcome :
          /\ Answer(o)
          /\ IF ok THEN CreateOnlyMaster(o, thr[t].val, k)
                   ELSE UNCHANGED <<master, rev, events>>
          /\ IF o = "ok" /\ ok
             THEN /\ pool' = [pool EXCEPT ![n] = Pool!use(@, thr[t].val)]
                  /\ Goto(t, "acquire")
                  /\ UNCHANGED <<local, mutex>>
             ELSE Undo(t)
    BY <1>8 DEF AllocateID
  <2>2. k \in Key /\ thr[t].val \in ID /\ thr[t].pc # "idle"
    BY <1>8, <1>k, <1>v DEF AllocateID
  <2> HIDE DEF ok
  <2>3. MasterT'
    BY <2>1, <2>2, CreateOnlyMasterType, TypeFrame
  <2>4. ThrT' /\ MutexT' /\ LocalT' /\ PoolT'
    <3>1. CASE o = "ok" /\ ok
      <4>1. PoolT'
        BY <1>n, <2>1, <2>2, <3>1, SMT DEF PoolT, Pool!PoolType, Pool!use
      <4> QED
        BY <2>1, <2>2, <3>1, <4>1, GotoType, TypeFrame DEF ThreadPC
    <3>2. CASE ~ (o = "ok" /\ ok)
      BY <2>1, <2>2, <3>2, UndoType
    <3> QED
      BY <3>1, <3>2
  <2>5. FaultsT'
    BY <2>1, AnswerType
  <2> QED
    BY <1>8, <2>3, <2>4, <2>5, TypeFrame DEF AllocateID
<1>9. CASE AcquireReference(t)
  <2>1. PICK o \in Outcome :
          /\ Answer(o)
          /\ IF o # "fail" /\ Holds(t) THEN PutSlave(n, k, thr[t].val)
                                       ELSE UNCHANGED <<slave, orphan>>
          /\ IF o = "ok" /\ Holds(t)
             THEN /\ local' = [local EXCEPT ![n] = LK!verify(@, k)]
                  /\ Return(t, thr[t].val)
                  /\ UNCHANGED pool
             ELSE Undo(t)
    BY <1>9 DEF AcquireReference
  <2>2. k \in Key /\ thr[t].val \in ID /\ thr[t].pc # "idle"
    BY <1>9, <1>k, <1>v DEF AcquireReference
  <2>3. SlaveT'
    BY <1>n, <2>1, <2>2, PutSlaveType, TypeFrame
  <2>4. ThrT' /\ MutexT' /\ LocalT' /\ PoolT'
    <3>1. CASE o = "ok" /\ Holds(t)
      <4>1. LocalOK(LK!verify(local[n], k))
        BY <1>n, <2>2, VerifyOK DEF LocalT
      <4>2. LocalT'
        BY <1>n, <2>1, <3>1, <4>1, LocalUpdate
      <4> QED
        BY <2>1, <2>2, <3>1, <4>2, ReturnType, TypeFrame DEF MaybeID
    <3>2. CASE ~ (o = "ok" /\ Holds(t))
      BY <2>1, <2>2, <3>2, UndoType
    <3> QED
      BY <3>1, <3>2
  <2>5. FaultsT'
    BY <2>1, AnswerType
  <2> QED
    BY <1>9, <2>3, <2>4, <2>5, TypeFrame DEF AcquireReference
<1>10. CASE Unlock(t)
  <2>1. thr[t].pc = "unlock" /\ Goto(t, IF thr[t].val = NoID THEN "retry" ELSE "insert")
    BY <1>10 DEF Unlock
  <2>2. thr[t].val # NoID => thr[t].val \in ID
    BY <1>t DEF ThreadRec, MaybeID
  <2>3. ThrT'
    BY <2>1, <2>2, GotoType DEF ThreadPC
  <2>4. LockT'
    BY <1>10, <1>k, <2>1 DEF Unlock, LockT
  <2> QED
    BY <1>10, <2>3, <2>4, TypeFrame DEF Unlock
<1>11. CASE Insert(t)
  <2>1. k \in Key /\ thr[t].val \in ID
    BY <1>11, <1>k, <1>v DEF Insert
  <2>2. ThrT'
    BY <1>11, IdleThreadType, ThreadUpdate DEF Insert
  <2>3. CacheT'
    BY <1>11, <1>n, <2>1 DEF Insert, CacheT, Cache!CacheType, Cache!insertKey
  <2>4. RefsT'
    BY <1>11, <1>n, <2>1, SMT DEF Insert, RefsT
  <2> QED
    BY <1>11, <2>2, <2>3, <2>4, TypeFrame DEF Insert, kvVars
<1>12. CASE Retry(t)
  <2>1. k \in Key /\ thr[t].try + 1 \in Nat
    BY <1>12, <1>k, <1>t, SMT DEF Retry, ThreadRec
  <2>2. CASE Attempt(t, k, thr[t].try + 1)
    BY <1>12, <2>1, <2>2, AttemptType, TypeFrame DEF Retry, kvVars
  <2>3. CASE thr' = [thr EXCEPT ![t] = IdleThread] /\ UNCHANGED local
    BY <1>12, <2>3, IdleThreadType, ThreadUpdate, TypeFrame DEF Retry, kvVars
  <2> QED
    BY <1>12, <2>2, <2>3 DEF Retry
<1>13. CASE ReleaseSlave(t)
  <2>1. PICK o \in Outcome : Answer(o) /\ DeleteSlave(o, n, k)
    BY <1>13 DEF ReleaseSlave
  <2>2. k \in Key
    BY <1>13, <1>k DEF ReleaseSlave
  <2>3. SlaveT' /\ FaultsT'
    BY <1>n, <2>1, <2>2, DeleteSlaveType, AnswerType
  <2>4. ThrT' /\ MutexT'
    BY <1>13, <1>n, IdleThreadType, ThreadUpdate, MutexUpdate DEF ReleaseSlave
  <2> QED
    BY <1>13, <2>3, <2>4, TypeFrame DEF ReleaseSlave
<1>14. CASE ReleaseKey(t)
  <2>1. k \in Key
    BY <1>14, <1>k DEF ReleaseKey
  <2>2. LocalOK(LK!releaseKey(local[n], k))
    BY <1>n, <2>1, ReleaseOK DEF LocalT
  <2>3. LocalT'
    BY <1>14, <1>n, <2>2, LocalUpdate DEF ReleaseKey
  <2>4. CASE LK!lastUse(local[n], k)
    <3>1. Goto(t, "delslave") /\ mutex' = [mutex EXCEPT ![n] = t] /\ thr[t].pc = "release"
      BY <1>14, <2>4 DEF ReleaseKey, Goto
    <3>2. ThrT' /\ MutexT'
      BY <1>n, <3>1, GotoType, MutexUpdate DEF ThreadPC
    <3> QED
      BY <1>14, <2>3, <3>2, TypeFrame DEF ReleaseKey, kvVars
  <2>5. CASE ~ LK!lastUse(local[n], k)
    <3>1. thr' = [thr EXCEPT ![t] = IdleThread] /\ UNCHANGED mutex
      BY <1>14, <2>5 DEF ReleaseKey
    <3>2. ThrT'
      BY <3>1, IdleThreadType, ThreadUpdate
    <3> QED
      BY <1>14, <2>3, <3>1, <3>2, TypeFrame DEF ReleaseKey, kvVars
  <2> QED
    BY <2>4, <2>5
<1> QED
  BY <1>1, <1>2, <1>3, <1>4, <1>5, <1>6, <1>7, <1>8, <1>9, <1>10, <1>11, <1>12, <1>13, <1>14
     DEF ThreadStep

\* So is a call of Allocate or Release.
LEMMA CallType ==
  ASSUME TypeInv, NEW t \in Thread, NEW k \in Key, Allocate(t, k) \/ Release(t, k)
  PROVE  TypeInv'
<1> DEFINE n == NodeOf[t]
<1> USE DEF TypeInv
<1>n. n \in Node
  BY ConstantsAssumption
<1>1. CASE Allocate(t, k)
  <2>1. Attempt(t, k, 1)
    BY <1>1 DEF Allocate
  <2>2. ThrT' /\ LocalT'
    BY <2>1, AttemptType
  <2> QED
    BY <1>1, <2>2, TypeFrame DEF Allocate, kvVars
<1>2. CASE Release(t, k)
  <2>1. RefsT'
    BY <1>2, <1>n, SMT DEF Release, RefsT
  <2> DEFINE r == [IdleThread EXCEPT !.pc = "release", !.key = k]
  <2>2. r \in ThreadRec
    BY DEF IdleThread, ThreadRec, ThreadPC, MaybeKey, MaybeID
  <2>3. thr' = [thr EXCEPT ![t] = r]
    BY <1>2 DEF Release
  <2> HIDE DEF r
  <2>4. ThrT'
    BY <2>2, <2>3, ThreadUpdate
  <2> QED
    BY <1>2, <2>1, <2>4, TypeFrame DEF Release, kvVars
<1> QED
  BY <1>1, <1>2

\* So are the watch and the controllers of the master key protection.
LEMMA WatchType ==
  ASSUME TypeInv, NEW n \in Node, Watch(n) \/ ProtectStep(n)
  PROVE  TypeInv'
<1> USE DEF TypeInv
<1>1. CASE Watch(n)
  <2> DEFINE e == Head(events[n])
             mine == LK!lookupID(local[n], e.id)
  <2>1. e \in Event /\ Tail(events[n]) \in Seq(Event)
    BY <1>1, SMT DEF Watch, MasterT
  <2>2. mine \in MaybeKey
    BY <2>1, SMT DEF LocalT, LK!LocalKeysType, LK!lookupID, MaybeKey, Event
  <2>3. MasterT'
    BY <1>1, <2>1 DEF Watch, MasterT
  <2>4. CacheT' /\ PoolT' /\ ProtT'
    <3>e. e.id \in ID /\ e.key \in Key
      BY <2>1 DEF Event
    <3>c. cache[n] \in Cache!CacheType /\ pool[n] \in Pool!PoolType
      BY DEF CacheT, PoolT
    <3> HIDE DEF e, mine
    <3>1. CASE /\ cache' = [cache EXCEPT ![n] = Cache!onUpsert(@, e.id, e.key)]
               /\ pool' = [pool EXCEPT ![n] = Pool!remove(@, e.id)]
               /\ UNCHANGED prot
      <4>1. Cache!onUpsert(cache[n], e.id, e.key) \in Cache!CacheType
        BY <3>e, <3>c DEF Cache!CacheType, Cache!onUpsert, Cache!forgetKey
      <4>2. Pool!remove(pool[n], e.id) \in Pool!PoolType
        BY <3>c DEF Pool!PoolType, Pool!remove
      <4>3. CacheT' /\ PoolT'
        BY <3>1, <4>1, <4>2 DEF CacheT, PoolT
      <4> QED
        BY <3>1, <4>3, TypeFrame
    <3>2. CASE /\ mine # NoKey
               /\ prot' = [prot EXCEPT ![n][e.id] = [pc |-> "run", key |-> mine]]
               /\ UNCHANGED <<cache, pool>>
      <4>1. [pc |-> "run", key |-> mine] \in ProtRec
        BY <2>2, <3>2 DEF ProtRec, MaybeKey
      <4>2. ProtT'
        BY <3>e, <3>2, <4>1 DEF ProtT
      <4> QED
        BY <3>2, <4>2, TypeFrame
    <3>3. CASE /\ cache' = [cache EXCEPT ![n] = Cache!onDelete(@, e.id)]
               /\ pool' = [pool EXCEPT ![n] = Pool!insert(@, e.id)]
               /\ UNCHANGED prot
      <4>1. Cache!onDelete(cache[n], e.id) \in Cache!CacheType
        BY <3>e, <3>c DEF Cache!CacheType, Cache!onDelete, Cache!forgetKey
      <4>2. Pool!insert(pool[n], e.id) \in Pool!PoolType
        BY <3>e, <3>c DEF Pool!PoolType, Pool!insert
      <4>3. CacheT' /\ PoolT'
        BY <3>3, <4>1, <4>2 DEF CacheT, PoolT
      <4> QED
        BY <3>3, <4>3, TypeFrame
    <3> QED
      BY <1>1, <3>1, <3>2, <3>3 DEF Watch, e, mine
  <2> HIDE DEF e, mine
  <2>5. UNCHANGED <<slave, orphan, kvLock, local, mutex, thr, sync, refs, gc, faults>>
    BY <1>1 DEF Watch
  <2> QED
    BY <2>3, <2>4, <2>5, TypeFrame
<1>2. ASSUME NEW id \in ID, ProtectMaster(n, id)
      PROVE  TypeInv'
  <2>1. prot[n][id] \in ProtRec /\ prot[n][id].key \in Key
    BY <1>2 DEF ProtectMaster, ProtT, ProtRec
  <2>2. NoController \in ProtRec /\ [prot[n][id] EXCEPT !.pc = "slave"] \in ProtRec
    BY <2>1 DEF NoController, ProtRec, MaybeKey
  <2>3. CASE /\ prot' = [prot EXCEPT ![n][id] = NoController]
             /\ UNCHANGED <<master, rev, events, faults>>
    <3>1. ProtT'
      BY <2>2, <2>3 DEF ProtT
    <3> QED
      BY <1>2, <2>3, <3>1, TypeFrame DEF ProtectMaster
  <2>4. ASSUME NEW o \in Outcome, Answer(o), CreateOnlyMaster(o, id, prot[n][id].key),
               prot' = IF o = "ok" THEN [prot EXCEPT ![n][id].pc = "slave"] ELSE prot
        PROVE  TypeInv'
    <3>1. ProtT'
      <4>1. CASE o = "ok"
        <5>1. prot' = [prot EXCEPT ![n][id] = [prot[n][id] EXCEPT !.pc = "slave"]]
          BY <2>4, <4>1 DEF ProtT
        <5> QED
          BY <2>2, <5>1 DEF ProtT
      <4>2. CASE o # "ok"
        BY <2>4, <4>2, TypeFrame
      <4> QED
        BY <4>1, <4>2
    <3>2. MasterT' /\ FaultsT'
      BY <2>1, <2>4, CreateOnlyMasterType, AnswerType
    <3> QED
      BY <1>2, <3>1, <3>2, TypeFrame DEF ProtectMaster
  <2> QED
    BY <1>2, <2>3, <2>4 DEF ProtectMaster
<1>3. ASSUME NEW id \in ID, ProtectSlave(n, id)
      PROVE  TypeInv'
  <2>1. prot[n][id] \in ProtRec /\ prot[n][id].key \in Key
    BY <1>3 DEF ProtectSlave, ProtT, ProtRec
  <2>2. NoController \in ProtRec /\ [prot[n][id] EXCEPT !.pc = "run"] \in ProtRec
    BY <2>1 DEF NoController, ProtRec, MaybeKey
  <2>3. PICK o \in Outcome :
           /\ Answer(o)
           /\ CreateOnlySlave(o, n, prot[n][id].key, id)
           /\ prot' = IF o = "ok" THEN [prot EXCEPT ![n][id] = NoController]
                                  ELSE [prot EXCEPT ![n][id].pc = "run"]
    BY <1>3 DEF ProtectSlave
  <2>4. SlaveT' /\ FaultsT'
    BY <2>1, <2>3, CreateOnlySlaveType, AnswerType
  <2>5. ProtT'
    <3>1. CASE o = "ok"
      BY <2>2, <2>3, <3>1 DEF ProtT
    <3>2. CASE o # "ok"
      <4>1. prot' = [prot EXCEPT ![n][id] = [prot[n][id] EXCEPT !.pc = "run"]]
        BY <2>3, <3>2 DEF ProtT
      <4> QED
        BY <2>2, <4>1 DEF ProtT
    <3> QED
      BY <3>1, <3>2
  <2> QED
    BY <1>3, <2>4, <2>5, TypeFrame DEF ProtectSlave
<1> QED
  BY <1>1, <1>2, <1>3 DEF ProtectStep

\* So is the sync of the local keys.
LEMMA SyncUpdate ==
  ASSUME SyncT, NEW n \in Node, NEW r \in SyncRec, sync' = [sync EXCEPT ![n] = r]
  PROVE  SyncT'
  BY DEF SyncT

\* The update of the program counter of a syncer.
LEMMA SyncGoto ==
  ASSUME SyncT, NEW n \in Node,
         NEW pc \in {"idle", "next", "master", "slave", "check", "lock", "del"},
         sync[n].pc \notin {"idle", "next"} \/ pc \in {"idle", "next"},
         sync' = [sync EXCEPT ![n].pc = pc]
  PROVE  SyncT'
<1> DEFINE r == [sync[n] EXCEPT !.pc = pc]
<1>1. sync[n] \in SyncRec
  BY DEF SyncT
<1>2. r \in SyncRec
  BY <1>1 DEF SyncRec
<1>3. sync' = [sync EXCEPT ![n] = r]
  BY <1>1 DEF SyncT
<1> QED
  BY <1>2, <1>3, SyncUpdate

\* Every step of syncLocalKeys.
LEMMA SyncType ==
  ASSUME TypeInv, NEW n \in Node, SyncStep(n)
  PROVE  TypeInv'
<1> USE DEF TypeInv, SyncUnchanged
<1>s. sync[n] \in SyncRec
  BY DEF SyncT
<1>1. CASE SyncStart(n)
  <2> DEFINE todo == LK!getVerifiedIDs(local[n])
  <2>1. sync' = [sync EXCEPT ![n] = [sync[n] EXCEPT !.pc = "next", !.todo = todo]]
    BY <1>1, <1>s DEF SyncStart, SyncT
  <2>2. todo \subseteq ID \X Key
    BY DEF LK!getVerifiedIDs
  <2> HIDE DEF todo
  <2>3. [sync[n] EXCEPT !.pc = "next", !.todo = todo] \in SyncRec
    BY <1>s, <2>2 DEF SyncRec
  <2>4. SyncT'
    BY <2>1, <2>3, SyncUpdate
  <2> QED
    BY <1>1, <2>4, TypeFrame DEF SyncStart
<1>2. CASE SyncNext(n)
  <2>1. SyncT'
    <3>1. CASE sync' = [sync EXCEPT ![n] = IdleSync]
      <4>1. IdleSync \in SyncRec
        BY DEF IdleSync, SyncRec, MaybeID, MaybeKey
      <4> QED
        BY <3>1, <4>1, SyncUpdate
    <3>2. ASSUME NEW p \in sync[n].todo,
                 sync' = [sync EXCEPT ![n] =
                         [pc |-> IF LK!lookupKey(local[n], p[2]) = p[1] THEN "master"
                                                                       ELSE "next",
                          id |-> p[1], key |-> p[2], todo |-> sync[n].todo \ {p}]]
          PROVE  SyncT'
      <4>1. p[1] \in ID /\ p[2] \in Key
        BY <1>s DEF SyncRec
      <4>2. [pc |-> IF LK!lookupKey(local[n], p[2]) = p[1] THEN "master" ELSE "next",
             id |-> p[1], key |-> p[2], todo |-> sync[n].todo \ {p}] \in SyncRec
        BY <1>s, <4>1 DEF SyncRec, MaybeID, MaybeKey
      <4> QED
        BY <3>2, <4>2, SyncUpdate
    <3> QED
      BY <1>2, <1>s, <3>1, <3>2 DEF SyncNext, SyncT
  <2> QED
    BY <1>2, <2>1, TypeFrame DEF SyncNext
<1>3. CASE SyncMaster(n)
  <2>1. PICK o \in Outcome :
           /\ Answer(o)
           /\ CreateOnlyMaster(o, sync[n].id, sync[n].key)
           /\ sync' = [sync EXCEPT ![n].pc = IF o = "ok" THEN "slave" ELSE "check"]
    BY <1>3 DEF SyncMaster
  <2>2. sync[n].id \in ID /\ sync[n].key \in Key
    BY <1>3, <1>s DEF SyncMaster, SyncRec
  <2>3. MasterT' /\ FaultsT'
    BY <2>1, <2>2, CreateOnlyMasterType, AnswerType
  <2>4. SyncT'
    BY <1>3, <2>1, SyncGoto DEF SyncMaster
  <2> QED
    BY <1>3, <2>3, <2>4, TypeFrame DEF SyncMaster
<1>4. CASE SyncSlave(n)
  <2>1. PICK o \in Outcome :
           /\ Answer(o)
           /\ IF o = "fail" THEN UNCHANGED <<slave, orphan>>
                            ELSE PutSlave(n, sync[n].key, sync[n].id)
    BY <1>4 DEF SyncSlave
  <2>2. sync[n].id \in ID /\ sync[n].key \in Key
    BY <1>4, <1>s DEF SyncSlave, SyncRec
  <2>3. SlaveT' /\ FaultsT'
    BY <2>1, <2>2, PutSlaveType, AnswerType, TypeFrame
  <2>4. SyncT'
    BY <1>4, SyncGoto DEF SyncSlave
  <2> QED
    BY <1>4, <2>3, <2>4, TypeFrame DEF SyncSlave
<1>5. CASE SyncCheck(n)
  <2>1. SyncT'
    BY <1>5, SyncGoto DEF SyncCheck
  <2> QED
    BY <1>5, <2>1, TypeFrame DEF SyncCheck
<1>6. CASE SyncLock(n)
  <2>1. SyncT'
    BY <1>6, SyncGoto DEF SyncLock
  <2>2. MutexT'
    BY <1>6, MutexUpdate, TypeFrame DEF SyncLock
  <2> QED
    BY <1>6, <2>1, <2>2, TypeFrame DEF SyncLock
<1>7. CASE SyncRelease(n)
  <2>1. PICK o \in Outcome : Answer(o) /\ DeleteSlave(o, n, sync[n].key)
    BY <1>7 DEF SyncRelease
  <2>2. sync[n].key \in Key
    BY <1>7, <1>s DEF SyncRelease, SyncRec
  <2>3. SlaveT' /\ FaultsT'
    BY <2>1, <2>2, DeleteSlaveType, AnswerType
  <2>4. SyncT'
    BY <1>7, SyncGoto DEF SyncRelease
  <2>5. MutexT'
    BY <1>7, MutexUpdate DEF SyncRelease
  <2> QED
    BY <1>7, <2>3, <2>4, <2>5, TypeFrame DEF SyncRelease
<1> QED
  BY <1>1, <1>2, <1>3, <1>4, <1>5, <1>6, <1>7 DEF SyncStep

\* So is the collector.
LEMMA GCType ==
  ASSUME TypeInv, GCStep
  PROVE  TypeInv'
<1> USE DEF TypeInv, GCUnchanged
<1>1. CASE GCStart
  <2>1. \A i \in ID : master[i] # NoKey => [id |-> i, key |-> master[i], rev |-> rev[i]] \in GCEntry
    BY DEF MasterT, MaybeKey, GCEntry
  <2> DEFINE todo == {[id |-> i, key |-> master[i], rev |-> rev[i]] :
                         i \in {j \in ID : master[j] # NoKey}}
  <2>2. todo \subseteq GCEntry
    BY <2>1
  <2>3. gc' = [gc EXCEPT !.pc = "next", !.stale = NoMarks, !.todo = todo]
    BY <1>1 DEF GCStart
  <2> HIDE DEF todo
  <2>4. GcT'
    BY <2>2, <2>3 DEF GcT, NoMarks
  <2> QED
    BY <1>1, <2>4, TypeFrame DEF GCStart
<1>2. CASE GCList
  <2>1. PICK e \in gc.todo, o \in ReadOutcome :
         LET unused == o = "ok" /\ \A n \in Node : slave[n][e.key] # e.id
             marked == gc.prev[e.id]
             rest == [gc EXCEPT !.todo = @ \ {e}]
         IN  /\ Answer(o)
             /\ gc' = CASE unused /\ marked = e.rev ->
                             [rest EXCEPT !.pc = "del", !.cur = {e}]
                        [] unused /\ marked = 0 -> [rest EXCEPT !.stale[e.id] = e.rev]
                        [] OTHER -> rest
    BY <1>2 DEF GCList
  <2> DEFINE rest == [gc EXCEPT !.todo = @ \ {e}]
  <2>2. e \in GCEntry /\ e.id \in ID /\ e.rev \in Nat
    BY DEF GcT, GCEntry
  <2>3. \/ gc' = [rest EXCEPT !.pc = "del", !.cur = {e}]
        \/ gc' = [rest EXCEPT !.stale[e.id] = e.rev]
        \/ gc' = rest
    BY <2>1, SMT
  <2>4. GcT'
    <3>1. CASE gc' = [rest EXCEPT !.pc = "del", !.cur = {e}]
      BY <2>2, <3>1 DEF GcT
    <3>2. CASE gc' = [rest EXCEPT !.stale[e.id] = e.rev]
      BY <2>2, <3>2 DEF GcT
    <3>3. CASE gc' = rest
      BY <2>2, <3>3 DEF GcT
    <3> QED
      BY <2>3, <3>1, <3>2, <3>3
  <2>5. FaultsT'
    BY <2>1, AnswerType
  <2> QED
    BY <1>2, <2>4, <2>5, TypeFrame DEF GCList
<1>3. CASE GCDelete
  <2>1. PICK e \in gc.cur, o \in Outcome :
         /\ Answer(o)
         /\ IF o # "fail" /\ master[e.id] # NoKey
            THEN /\ rev[e.id] < MaxRev
                 /\ master' = [master EXCEPT ![e.id] = NoKey]
                 /\ Notify([typ |-> "delete", id |-> e.id, key |-> master[e.id]])
            ELSE UNCHANGED <<master, events>>
    BY <1>3 DEF GCDelete
  <2>2. e.id \in ID
    BY DEF GcT, GCEntry
  <2>3. MasterT'
    <3>1. CASE o # "fail" /\ master[e.id] # NoKey
      <4> DEFINE ev == [typ |-> "delete", id |-> e.id, key |-> master[e.id]]
      <4>1. ev \in Event
        BY <2>2, <3>1 DEF MasterT, MaybeKey, Event
      <4>2. events' = [n \in Node |-> Append(events[n], ev)]
        BY <2>1, <3>1 DEF Notify
      <4> HIDE DEF ev
      <4>3. events' \in [Node -> Seq(Event)]
        BY <4>1, <4>2, SMT DEF MasterT
      <4>4. master' \in [ID -> MaybeKey] /\ rev' = rev
        BY <1>3, <2>1, <2>2, <3>1 DEF MasterT, MaybeKey, GCDelete
      <4> QED
        BY <4>3, <4>4 DEF MasterT
    <3>2. CASE ~ (o # "fail" /\ master[e.id] # NoKey)
      BY <1>3, <2>1, <3>2, TypeFrame DEF GCDelete
    <3> QED
      BY <3>1, <3>2
  <2>4. GcT'
    BY <1>3 DEF GCDelete, GcT
  <2>5. FaultsT'
    BY <2>1, AnswerType
  <2> QED
    BY <1>3, <2>3, <2>4, <2>5, TypeFrame DEF GCDelete
<1>4. CASE GCEnd
  <2>1. GcT'
    BY <1>4 DEF GCEnd, GcT, NoMarks
  <2> QED
    BY <1>4, <2>1, TypeFrame DEF GCEnd
<1> QED
  BY <1>1, <1>2, <1>3, <1>4 DEF GCStep

\* So are expiries and restarts.
LEMMA FaultType ==
  ASSUME FaultsT, Fault
  PROVE  FaultsT'
  BY ConstantsAssumption, SMT DEF FaultsT, Fault

\* Every expiry and every restart.
LEMMA FailureType ==
  ASSUME TypeInv, Failure
  PROVE  TypeInv'
<1> USE DEF TypeInv, AllocatorUnchanged
<1>1. ASSUME NEW n \in Node, ExpireLease(n)
      PROVE  TypeInv'
  <2>1. SlaveT'
    BY <1>1 DEF ExpireLease, SlaveT, MaybeID
  <2> QED
    BY <1>1, <2>1, FaultType, TypeFrame DEF ExpireLease
<1>2. ASSUME NEW n \in Node, ExpireOrphans(n)
      PROVE  TypeInv'
  <2>1. SlaveT'
    BY <1>2 DEF ExpireOrphans, SlaveT, MaybeID
  <2> QED
    BY <1>2, <2>1, TypeFrame DEF ExpireOrphans
<1>3. ASSUME NEW n \in Node, Restart(n)
      PROVE  TypeInv'
  <2>1. MasterT'
    <3>1. << >> \in Seq(Event)
      BY SMT
    <3> QED
      BY <1>3, <3>1 DEF Restart, MasterT
  <2>2. SlaveT' /\ LockT'
    BY <1>3 DEF Restart, SlaveT, LockT
  <2>3. CacheT'
    <3>1. PICK c \in Cache!listed(master) : cache' = [cache EXCEPT ![n] = c]
      BY <1>3 DEF Restart
    <3>2. c \in Cache!CacheType
      BY SMT DEF Cache!listed, Cache!CacheType, MasterT, MaybeKey
    <3> QED
      BY <3>1, <3>2 DEF CacheT
  <2>4. PoolT'
    BY <1>3 DEF Restart, PoolT, Pool!PoolType
  <2>5. LocalT'
    BY <1>3, NewLocalKeysOK, LocalUpdate DEF Restart
  <2>6. MutexT'
    BY <1>3, MutexUpdate DEF Restart
  <2>7. ThrT'
    BY <1>3, IdleThreadType DEF Restart, ThrT
  <2>8. SyncT'
    <3>1. IdleSync \in SyncRec
      BY DEF IdleSync, SyncRec, MaybeID, MaybeKey
    <3> QED
      BY <1>3, <3>1, SyncUpdate DEF Restart
  <2>9. ProtT'
    <3>1. NoController \in ProtRec
      BY DEF NoController, ProtRec, MaybeKey
    <3> QED
      BY <1>3, <3>1 DEF Restart, ProtT
  <2>10. RefsT'
    BY <1>3 DEF Restart, RefsT
  <2> QED
    BY <1>3, <2>1, <2>2, <2>3, <2>4, <2>5, <2>6, <2>7, <2>8, <2>9, <2>10, FaultType,
       TypeFrame DEF Restart
<1>4. ASSUME NEW k \in Key, ExpireLock(k) \/ ExpireOrphanLock(k)
      PROVE  TypeInv'
  <2>1. LockT'
    BY <1>4 DEF ExpireLock, ExpireOrphanLock, LockT
  <2> QED
    BY <1>4, <2>1, FaultType, TypeFrame DEF ExpireLock, ExpireOrphanLock
<1> QED
  BY <1>1, <1>2, <1>3, <1>4 DEF Failure

\* Every step is type correct.
LEMMA TypeStep == TypeInv /\ [Next]_vars => TypeInv'
<1> SUFFICES ASSUME TypeInv, [Next]_vars PROVE TypeInv'
  OBVIOUS
<1>1. CASE UNCHANGED vars
  BY <1>1, TypeFrame DEF vars, TypeInv
<1>2. CASE Next
  BY <1>2, CallType, ThreadType, WatchType, SyncType, GCType, FailureType DEF Next
<1> QED
  BY <1>1, <1>2

\* Every reachable state of the allocator is well typed: requests, callbacks,
\* expiries and restarts never leave a record half filled, whatever the bounds.
THEOREM TypeCorrect == Spec => []TypeOK
<1>1. Spec => []TypeInv
  BY TypeInit, TypeStep, PTL DEF Spec
<1> QED
  BY <1>1, TypeInvTypeOK, PTL

=============================================================================
