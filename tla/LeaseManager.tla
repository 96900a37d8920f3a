---------------------------- MODULE LeaseManager ----------------------------
(***************************************************************************)
(* The lease manager of the etcd client, pkg/kvstore/etcd_lease.go: keys   *)
(* are attached to leases, at most Limit keys to each, and a new lease is  *)
(* acquired, by one goroutine at a time, when every known lease is full.   *)
(* The manager's mutex is released while etcd grants the lease.  A step is *)
(* what a goroutine does while it holds the mutex.                         *)
(*                                                                         *)
(* The etcd server and the keepalive sessions of its client library are    *)
(* external: the server may let a lease expire, and a session ends when    *)
(* the client finds out, when it is orphaned, or when the client gives up  *)
(* on a lease that the server still has.                                   *)
(***************************************************************************)
EXTENDS Integers, FiniteSets

CONSTANTS Paths,       \* the kvstore keys that are written with a lease
          Threads,     \* the goroutines that call the etcd client
          MaxLeases,   \* how many leases etcd grants in a behaviour
          Limit        \* etcdMaxKeysPerLease

ASSUME LimitPositive == Limit \in Nat \ {0}
ASSUME LeasesNatural == MaxLeases \in Nat
ASSUME PathsFinite == IsFiniteSet(Paths)

NoLease == 0
LeaseIDs == 1..MaxLeases
NoPath == "no path"

VARIABLES
    leases,     \* the leases the manager knows
    count,      \* leaseInfo.count, 0 for a lease it does not know
    keys,       \* the lease a key is attached to, NoLease if none
    current,    \* the lease to try first
    acquiring,  \* the channel acquiring is not nil
    granted,    \* external: number of leases the server has granted
    alive,      \* external: the leases the server has
    done,       \* external: the known leases whose session has ended
    expiring,   \* per lease, the keys waitForExpiration has yet to report
    pc,         \* where each goroutine is
    path,       \* the key it works on
    lease       \* the lease GetSession returned to it

elmVars == <<leases, count, keys, current, acquiring>>
sessionVars == <<granted, alive, done, expiring>>
callVars == <<pc, path, lease>>

LeaseInit ==
    /\ leases = {} /\ count = [l \in LeaseIDs |-> 0]
    /\ keys = [k \in Paths |-> NoLease] /\ current = NoLease
    /\ acquiring = FALSE
    /\ granted = 0 /\ alive = {} /\ done = {}
    /\ expiring = [l \in LeaseIDs |-> {}]
    /\ pc = [t \in Threads |-> "idle"]
    /\ path = [t \in Threads |-> NoPath]
    /\ lease = [t \in Threads |-> NoLease]

-----------------------------------------------------------------------------
(* GetSession *)

Return(t, l) ==
    /\ pc' = [pc EXCEPT ![t] = "leased"]
    /\ lease' = [lease EXCEPT ![t] = l]

\* The key is already attached to a lease.
GetAttached(t) ==
    /\ pc[t] = "lookup" /\ keys[path[t]] # NoLease
    /\ Return(t, keys[path[t]])
    /\ UNCHANGED <<elmVars, path>>

Attach(t, l) ==
    /\ count' = [count EXCEPT ![l] = @ + 1]
    /\ keys' = [keys EXCEPT ![path[t]] = l]
    /\ current' = l
    /\ Return(t, l)
    /\ UNCHANGED <<leases, acquiring, path>>

HasRoom(l) == l \in leases /\ count[l] < Limit

\* The current lease if it has room, otherwise any other lease that has.
GetKnown(t) ==
    /\ pc[t] = "lookup" /\ keys[path[t]] = NoLease
    /\ \E l \in LeaseIDs : /\ HasRoom(l)
                           /\ l = current \/ ~HasRoom(current)
                           /\ Attach(t, l)

\* Every lease is full: acquire one, or wait for the goroutine that does.
GetNoneAgain(t) ==
    /\ pc[t] = "lookup" /\ keys[path[t]] = NoLease
    /\ \A l \in LeaseIDs : ~HasRoom(l)
    /\ pc' = [pc EXCEPT ![t] = "acquiring"]
    /\ acquiring' = TRUE
    /\ UNCHANGED <<leases, count, keys, current, path, lease>>
GetNone(t) ==
    /\ pc[t] = "lookup" /\ keys[path[t]] = NoLease
    /\ \A l \in LeaseIDs : ~HasRoom(l)
    /\ pc' = [pc EXCEPT ![t] = IF acquiring THEN "waiting" ELSE "acquiring"]
    /\ acquiring' = TRUE
    /\ UNCHANGED <<leases, count, keys, current, path, lease>>

\* The acquisition is over: the channel is closed and its waiters start again.
AcquiredSilently(t, next) ==
    /\ acquiring' = FALSE
    /\ pc' = [pc EXCEPT ![t] = next]
Acquired(t, next) ==
    /\ acquiring' = FALSE
    /\ pc' = [u \in Threads |-> IF u = t THEN next
                                ELSE IF pc[u] = "waiting" THEN "lookup"
                                ELSE pc[u]]

NewSession(t) ==
    /\ pc[t] = "acquiring" /\ granted < MaxLeases
    /\ granted' = granted + 1
    /\ alive' = alive \cup {granted'}
    /\ leases' = leases \cup {granted'}
    /\ current' = granted'
    /\ Acquired(t, "lookup")
    /\ UNCHANGED <<count, keys, done, expiring, path, lease>>

NewSessionFails(t) ==
    /\ pc[t] = "acquiring"
    /\ Acquired(t, "failed")
    /\ UNCHANGED <<leases, count, keys, current, path, lease>>

\* The context of the request ends while it waits.
WaitCancelled(t) ==
    /\ pc[t] = "waiting"
    /\ pc' = [pc EXCEPT ![t] = "failed"]
    /\ UNCHANGED <<elmVars, path, lease>>

GetSession(t) == GetAttached(t) \/ GetKnown(t) \/ GetNone(t)

-----------------------------------------------------------------------------
(* Release, ReleasePrefix, CancelIfExpired *)

\* Detach the keys of K (one key for Release, the keys with the prefix for
\* ReleasePrefix).
ReleaseKeysUnchecked(K) ==
    /\ keys' = [k \in Paths |-> IF k \in K THEN NoLease ELSE keys[k]]
    /\ count' = [l \in LeaseIDs |-> IF l = current THEN count[l] - Cardinality(K) ELSE count[l]]
    /\ UNCHANGED <<leases, current, acquiring>>
ReleaseKeys(K) ==
    /\ keys' = [k \in Paths |-> IF k \in K THEN NoLease ELSE keys[k]]
    /\ count' = [l \in LeaseIDs |->
                    LET n == Cardinality({k \in K : keys[k] = l})
                    IN  IF count[l] >= n THEN count[l] - n ELSE 0]
    /\ UNCHANGED <<leases, current, acquiring>>

\* etcd answered that lease l does not exist: orphan its session.
CancelIfExpired(l) == done' = IF l \in leases THEN done \cup {l} ELSE done

-----------------------------------------------------------------------------
(* Expiry *)

\* External: the session of a lease ends.
SessionDone(l) ==
    /\ l \in leases \ done
    /\ done' = done \cup {l}
    /\ UNCHANGED <<elmVars, granted, alive, expiring, callVars>>

\* The keys that are attached to lease l.
Attached(l) == {k \in Paths : keys[k] = l}

\* waitForExpiration forgets the lease and its keys under the mutex; the keys
\* are reported afterwards, one by one, without it.
ForgetNoKey(l) == keys
ForgetKeys(l) == [k \in Paths |-> IF keys[k] = l THEN NoLease ELSE keys[k]]
ExpiredUnseen(l) == {}
ExpiredKeys(l) == Attached(l)

WaitForExpiration(l) ==
    /\ l \in leases \cap done
    /\ leases' = leases \ {l}
    /\ keys' = ForgetKeys(l)
    /\ count' = [count EXCEPT ![l] = 0]
    /\ done' = done \ {l}
    /\ expiring' = [expiring EXCEPT ![l] = ExpiredKeys(l)]
    /\ UNCHANGED <<current, acquiring, granted, alive, callVars>>

Reported(l, k) ==
    /\ k \in expiring[l]
    /\ expiring' = [expiring EXCEPT ![l] = @ \ {k}]
    /\ UNCHANGED <<elmVars, granted, alive, done>>

-----------------------------------------------------------------------------

\* A lease counts exactly the keys attached to it, never more than the limit,
\* and a key is attached only to a lease the manager knows: what GetSession
\* relies on when it reads the lease of an attached key, although the mutex is
\* released while a lease is acquired and leases expire meanwhile.
LeaseCounts ==
    /\ \A l \in leases : count[l] = Cardinality(Attached(l)) /\ count[l] <= Limit
    /\ \A k \in Paths : keys[k] # NoLease => keys[k] \in leases

\* At most one goroutine acquires a lease, and goroutines wait only while one
\* does.
OneAcquisition ==
    /\ \A t, u \in Threads : pc[t] = "acquiring" /\ pc[u] = "acquiring" => t = u
    /\ acquiring <=> \E t \in Threads : pc[t] = "acquiring"
    /\ (\E t \in Threads : pc[t] = "waiting") => acquiring
=============================================================================
