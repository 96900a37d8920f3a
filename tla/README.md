# Cilium: specifications of the control plane

TLA+ specifications of parts of this repository, kept beside the code:

- the distributed allocator of security identities over etcd;
- the synchronised kvstore store and its lease manager;
- the agent's xDS server and the Envoy it feeds;
- policy imports, policy computation and the regeneration of endpoints.

Contents:

- [The system and its parts](#the-system-and-its-parts)
- [Modules](#modules)
- [The identity allocator](#the-identity-allocator)
- [The synchronised store](#the-synchronised-store)
- [The xDS server](#the-xds-server)
- [Policy and endpoints](#policy-and-endpoints)
- [Runs](#runs)
- [Where code and documentation differ](#where-code-and-documentation-differ)
- [Proofs](#proofs)
- [What is not modelled](#what-is-not-modelled)
- [Plan](#plan)

## The system and its parts

Cilium runs an agent on every node, an operator per cluster, and keeps shared
state in etcd (the kvstore) or in Kubernetes objects. The parts with a state of
their own, what they do, and what makes them correct:

| Part | State | Operations | What must hold |
|---|---|---|---|
| identity allocator (`pkg/allocator`) | local keys with reference counts, pool of numbers, cache of master keys | Allocate, Release, local key sync, master key protection | one number never stands for two keys; every use is recorded in etcd |
| kvstore backend (`pkg/kvstore/allocator`) | master and slave keys in etcd | transactions under a lock, garbage collection | a collected identity has no users |
| kvstore client (`pkg/kvstore`) | sessions, leases, path locks, watchers | Create, Update, Delete, LockPath, ListAndWatch | lock holders exclude each other or find out; leases are shared within their limit |
| synchronised and watched stores (`pkg/kvstore/store`) | desired keys, work queue, synced marker | UpsertKey, DeleteKey, Synced, lease expiry | the store converges; the marker does not come before the keys |
| local identities (`pkg/identity/cache`) | numbers of CIDR and node identities, withheld ones | lookupOrCreate, release, withhold | numbers are unique and wrap around |
| ipcache (`pkg/ipcache`) | prefix metadata, injected labels | upsert and remove metadata, label injection | the cache agrees with the metadata |
| endpoints (`pkg/endpoint`, `pkg/endpointmanager`, `pkg/eventqueue`) | endpoint state machine, event queue | regenerate, resolve the identity, delete, enqueue, stop | no request is lost; nothing runs after deletion; the newest policy is realized |
| controllers and triggers (`pkg/controller`, `pkg/trigger`) | named goroutines, pending triggers | update, remove, trigger, shutdown | one instance at a time; no trigger lost |
| policy (`pkg/policy`) | rules and their revision, computed policies, selector cache, map state | import, compute, advance, supersede, incremental updates | a policy is right at the revision it claims; incremental equals full computation |
| IPAM (`pkg/ipam`, cloud back ends) | pools, release handshake | allocate, release, resync | an address has one owner |
| proxy and xDS (`pkg/proxy`, `pkg/envoy`, `pkg/completion`) | redirects, versions, nonces, wait groups | upsert, delete, request, respond, acknowledge, wait | Envoy converges; acknowledgements match versions |
| DNS policy (`pkg/fqdn`) | DNS cache, zombies | update, expire, collect | addresses in use survive |
| cluster mesh, node manager, load balancer, BGP, L2, egress gateway, WireGuard | desired state of remote or kernel objects | reconcile | convergence |
| Hubble | ring of flows | write, read | readers see a consistent window |
| BPF programs, API, CLI | per packet state; none | | |

`PROJECT.json` lists all of them with their status, and the hazards of the
parts surveyed so far, each at its line.

How the modelled parts meet: an endpoint gets its identity from the allocator;
the identity selects the policy that the computer computes; a regeneration
installs it and pushes its proxy part through the xDS server, whose wait groups
it waits for. Each of the four specifications below models one of these and has
the others by what they answer: an identity is allocated or the call fails, a
build succeeds or fails.

## Modules

| Module | Models |
|---|---|
| `IDPool` | `pkg/idpool`: the pool of one agent, one operator per method |
| `LocalKeys` | `pkg/allocator/localkeys.go`: reference-counted keys of one agent |
| `AllocatorCache` | `pkg/allocator/cache.go`: the two maps of the watch-driven cache |
| `KVAllocator` | composition: agents, etcd with locks and leases, the collector; properties |
| `IdentityMap` | abstract specification: what the allocator promises while nothing is collected |
| `LeaseManager` | `pkg/kvstore/etcd_lease.go`: leases shared by keys |
| `SyncStore` | composition: `pkg/kvstore/store/syncstore.go` over the lease manager and etcd; properties |
| `XDSCache` | `pkg/envoy/xds/cache.go`: the versioned resources of the server |
| `AckingMutator` | `pkg/envoy/xds/ack.go` and `pkg/completion`: pending completions and wait groups |
| `XDSStream` | what both stream protocols share: connection, watch, client, restarts |
| `SotwStream`, `DeltaStream` | the two loops of `pkg/envoy/xds/server.go`, their watches, and Envoy's side |
| `XDS` | composition of the server with one Envoy; properties |
| `PolicyComputer` | `pkg/policy/compute/compute.go`: requests, advances, the table of results |
| `EventQueue` | `pkg/eventqueue`: bounded channel, stop, drain |
| `Endpoint` | `pkg/endpoint`: state machine, regeneration, identity resolution, deletion |
| `PolicyImport` | composition: importer, full recomputations, computer, one endpoint; properties |
| `MCKVAllocator`, `MCSyncStore`, `MCXDS`, `MCPolicyImport` | instances for TLC |
| `KVAllocatorProofs` | type correctness |
| `KVAllocatorBound` | the inductive invariant `Bound`, and what a step must do to preserve it |
| `KVAllocatorSteps` | the steps of threads, watches and syncers preserve `Bound` |
| `KVAllocatorRefinement` | the refinement of `IdentityMap`, and `NoAliasing` |
| `SyncStoreProofs` | types, lease counts and the single acquisition of the synchronised store |
| `SyncStoreDelivery` | no update and no expiry is lost |
| `XDSWaitProofs` | `Wait` leaves no completion behind |
| `XDSAckProofs` | acknowledged versions are real, nonces are valid |

Data modules such as `IDPool` and `XDSCache` are operators from a state to the
next one where a method runs under one mutex.

## The identity allocator

An identity is a number for a set of labels (the *key*). In etcd it is a
*master key* `id/<ID> -> key`, and one *slave key* `value/<key>/<node> -> ID`
for every node that uses it, attached to the lease of that node. To allocate, an
agent takes a kvstore lock of the key, looks the key up in its cache and then
in the slave keys, reuses the number it finds or leases one from its own pool,
creates the master key if the number is free cluster wide, and writes its slave
key. Every agent watches the master keys to fill its cache and to take numbers
out of its pool. The operator lists the master keys periodically and deletes
those without a slave key in two successive rounds. An agent that sees a number
it uses deleted recreates it, and syncs all its keys every few minutes.

What is hard: the lock can be lost without its holder knowing; answers get
lost after the request took effect; the cache lags; agents restart while their
slave keys and locks live on; three goroutines of an agent (callers, sync,
protection) write the same slave key; and the lock of the collector is not the
lock of the agents.

### State and actions

Granularity: one step per kvstore request. What the code does between two
requests happens in the step of the first, unless it waits for a mutex another
goroutine can hold across a request (`slaveKeysMutex`, the mutex of the cache);
then it is a step of its own. `UpdateIfDifferent` is a get and a put and still
one step: without a difference it takes effect at the get, else at the put,
which checks the lock again. `Release` waits for `slaveKeysMutex` in a state of
its own, so that an allocation or the sync can come between its call and its
effect.

| Variable | Code |
|---|---|
| `master`, `rev` | keys `id/<ID>`, their ModRevision (counted per key) |
| `slave`, `orphan` | keys `value/<key>/<node>`; those attached to the lease of a previous run |
| `kvLock` | the etcd lock of a key |
| `events` | watch events not yet handled, per node |
| `cache`, `pool`, `local` | `mainCache`, `idPool`, `localKeys` |
| `mutex` | holder of `slaveKeysMutex` |
| `thr` | goroutines in Allocate or Release: program counter and locals |
| `sync`, `prot` | `syncLocalKeys`; the `sync-identity` controllers |
| `refs` | references held by the callers (ghost) |
| `gc` | the round of `RunGC` and the marks of the previous one |
| `faults` | how many failures have happened (bound) |

| Actions | Code |
|---|---|
| `Allocate` ... `Retry` | `Allocate`, `lockedAllocate` and the requests it makes, with all error paths |
| `Release`, `ReleaseKey`, `ReleaseSlave` | `Allocator.Release`: the call, its part under the mutex, `kvstoreBackend.Release` |
| `Watch` | `OnUpsert`, `OnDelete` |
| `ProtectMaster`, `ProtectSlave` | the controller of `onDeleteLocked`, `UpdateKey` |
| `SyncStart` ... `SyncRelease` | `syncLocalKeys`, `syncLocalKey` |
| `GCStart` ... `GCEnd` | `RunGC`, `runKVStoreModeGC` |
| `ExpireLease`, `ExpireOrphans`, `ExpireLock`, `ExpireOrphanLock`, `Restart` | lease expiry, lost locks (`RunLocksGC` included), agent restarts |

A request is answered, fails without effect, or takes effect with its answer
lost. Keys and identifiers are opaque. etcd is linearizable and delivers watch
events in order; the relist after a compaction is not modelled.

## The synchronised store

A caller changes the state of a key (`UpsertKey`, `DeleteKey`) and queues the
key; workers write to etcd what the state holds when they get to the key, and
queue it again, with a delay, after an error. `Synced` queues a *canary*, which
writes the synced marker once no key of before is pending. Keys are attached to
leases of a limited size by the lease manager, one goroutine at a time acquiring
a new one while the others wait. When a lease expires its keys are queued again.

What is hard: `UpsertKey` changes the state, reads the synced flag, marks the key
pending and queues it in four steps that others interleave with; a worker may
have a lease that expires before its request; a request may take effect and its
answer be lost; the server's expiry, the client's notice of it and the callbacks
are three moments.

| Variable | Code |
|---|---|
| `leases`, `count`, `current`, `keys`, `acquiring` | the fields of `leaseManager` |
| `granted`, `alive`, `done` | external: leases the etcd server granted, has, and whose session has ended |
| `state`, `synced`, `pendingSync` | fields of `wqSyncStore` |
| `queue`, `dirty`, `processing`, `delayed` | external: client-go's work queue |
| `store` | external: etcd's keys with the lease they are written under |
| `caller`, `expiring` | calls under way; the keys of an expired lease yet to be reported |
| `pc`, `path`, `lease`, `item`, `val` | the workers: program counter and locals |
| `canaries` | number of canaries made |
| `callbacks` | how often the synced callbacks ran |
| `due`, `ops`, `faults` | ghost: upserts issued before `Synced` and not yet written; bounds |

`CallerStep`, `WorkerStep` and `ExpiryStep` are the goroutines;
`ServerExpire` and `ClientExpire` are etcd's part of an expiry. A failing
request fails before or after it took effect.

## The xDS server

The cache gives every change a new version. A client (Envoy) subscribes by
requests; the server keeps one *watch* per type, a goroutine that answers
when the cache has something newer. The client accepts (ACK) or refuses (NACK) a
response. The mutator that wraps the cache attaches completions to changes, which
end when the client has acknowledged the version, and callers wait for groups of
them with a deadline. The two protocols differ: a state-of-the-world (SotW)
response holds all requested resources; a Delta response what changed, was
removed or was newly asked for, with one response in flight at a time.

What is hard: requests, responses, cache changes, disconnections and restarts of
either side cross each other; a restarted agent numbers versions from the start
while Envoy still names those of the previous run; a completion ends by an
acknowledgement, a refusal, a cancellation, the failure of another of its group,
or the deadline.

| Variable | Code |
|---|---|
| `version`, `resources`, `restoring` | `Cache`; `restoring` of the mutator |
| `ackedVersion`, `ackedNode`, `pendingComps` | `ackedVersions`, the gate of `WaitForFirstAck`, `pendingCompletions` |
| `comp`, `group` | completions and wait groups |
| `up`, `proto`, `st`, `watch` | the stream, the loop's state for the type, the watch goroutine |
| `requests`, `responses` | the two directions of the gRPC stream, in order |
| `client` | external: Envoy's interest and what it has installed |
| `hist` | ghost: what the client accepted and refused, by version and resource; `dropped`, the names whose answer a cancelled watch took with it |
| `used` | bounds |

A request is handled in one step, as the loop does; a watch reads the cache
version, sleeps, reads the resources and hands over its response in separate
steps. One type of resource and one node are modelled: types have separate state,
and the code has one Envoy per agent.

A request that follows an expansion of interest cancels the watch that was to
answer it (see `interest` below). `Converged` and `Served` leave out the names in
`hist.dropped`, and no others: a name is in it from the cancellation until a
response with the name is sent, or until the stream ends. On a SotW stream these are
all names, on a Delta stream those the cancelled watch was to force.

## Policy and endpoints

An import changes rules and bumps the repository's revision once per update; it
tells the computer which identities to recompute and, for the others, that their
policies remain right up to the new revision (an *advance*). It then calls
`UpdatePolicy` of every endpoint, which regenerates the ones selected and moves
the revision of the others. Other paths bump the revision and recompute
everything. The computer works in batches: it takes the requests, computes
without locks, and commits to a table, superseding what it replaces. An endpoint
goes through a state machine; requests to regenerate are events on its queue, or
buffered while one waits already. A regeneration reads the identity, waits for a
result that is current at the wanted revision, creates redirects, installs the
policy, builds, writes the policy map and records what it realized. Labels may
change, waits time out, and the endpoint may be deleted at any point. A
regeneration can fail before the policy is fetched (`PrepareBuildFails`), in the
build, in the write of the map, and after it (`SynchronizeDirectoriesFails`); an
allocation of an identity can fail and is tried again (`AllocateIdentityFails`).
The importer and the full recomputation look the identities up before they take
the computer's mutex (`ImportLookup`, `LookupAll`), so an identity may come or go in
between. The computer retries an identity on its own after a failure, and the
retries are not coalesced with requests.

| Variable | Code |
|---|---|
| `revision`, `changed` | the repository's revision; which revisions changed the rules of an identity |
| `local` | identities with a local endpoint |
| `reqs`, `advances`, `trigger`, `table`, `comp` | the computer: requests, advances, trigger, result table, the batch under way |
| `users`, `woken` | users of a policy; a `RegenerateIfAlive` goroutine of `supersede` or `insertUser` |
| `call`, `queue`, `drain`, `closed` | callers of `Enqueue`; the event queue |
| `ep` | the endpoint: state, identity, revision, buffered request, desired and realized policy, policy map, redirects |
| `h`, `build` | the event being handled: program counter and locals; `buildMutex` |
| `alive`, `failed`, `resolver` | `aliveCtx`; `regenFailedChan`; the identity resolver |
| `imp`, `full`, `events` | the importer, `TriggerPolicyUpdates`, the bound |

Abstractions: a policy is the pair of its identity and the revision it was
computed at, and its contents are the last change of the identity's rules up to
that revision; redirects are one per content; a row's StateDB revision is
whether the row is there; the goroutine that `Regenerate` leaves behind
reports in the step of the result. A timeout of a fetch is one of the counted
events while the computer is busy. The endpoint's identity is the only local one.

## Runs

Bounds are constants of the models (`MaxRefs`, `MaxAttempts`, `MaxRev`,
`MaxFaults`, `MaxOps`, `MaxEvents`, ...).

| Run | Instance | Shows |
|---|---|---|
| `nogc` | allocator: 2 nodes, 2 keys competing for 1 number, 2 failures (164 thousand states) | the allocator implements `IdentityMap`; `NoAliasing`; the pool loses no number |
| `shared` | 2 goroutines of 1 node, its sync, the protection and the collector, 1 key, 1 number, 2 references, 2 failures (1.6 million states) | leased numbers belong to the holder of `slaveKeysMutex`; reference counts stay within the references; uses stay recorded, and no slave key is deleted in use or left behind; cache and pool converge |
| `live` | the same without failures, fairness (128 thousand states) | calls return, those that wait for `slaveKeysMutex` included; a master key deleted under a user comes back |
| `store` | 1 key with 2 values and the marker, 2 callers, 2 calls, 2 workers, leases of one key, 1 fault, fairness (780 thousand states) | lease counts and acquisitions; no update or expiry is lost; etcd converges to the state and the marker, and the callbacks run once |
| `xds` | 2 resources, a wait group of 2 completions, both protocols, 2 mutations, 2 events of the environment (2.4 million states) | Envoy converges; completions and acknowledged versions are real; no nonce is refused; `Wait` leaves nothing behind; nobody waits for what was acknowledged |
| `regen` | 2 identities, 3 revisions, 2 events of the environment, a queue of 1, fairness (208 thousand states) | `CurrentAtRevision` is right without a re-added identity; no request or superseded policy is forgotten; deletion leaves nothing; the endpoint settles; imports and deletions return |

Why the bounds are enough. Two threads, workers or callers are the smallest
number with every race of interest; a second key, number, resource or identity is
there where a property tells them apart. Two failures of the allocator allow a
lost lock together with a lost answer or a restart. A lease of one key makes every
second write acquire one. Two events let an Envoy disconnect and come back to
a restarted agent, and let an import overlap another change, a failure or the
deletion. `live` has no failures so that two references to one key fit;
`KVAllocator_live_errors` checks the same properties with a failure and one
reference (98 thousand states).

Deadlock is not checked where the bounds let the system stop.

Fairness (`FairSpec`). Allocator: weak fairness of every goroutine, since
goroutines are scheduled and requests have timeouts; strong fairness of the
threads and the syncer, which wait for `slaveKeysMutex` and the mutex of the cache,
since a Go mutex hands itself to a starved waiter. Store: weak fairness of every worker, of the calls under way, of the
queue's delays, and of the notice of an expiry by the client, whose keepalive then
fails. Endpoint: weak fairness of the importer, the computer, the handler of the
queue, the resolver, the failure handler, a deletion that has begun, and every
blocked caller: all are goroutines of their own, or controllers that retry.
Callers of the APIs, the operator, label changes, failures and expiries are free.
The xDS properties are stated of states at rest and need no fairness.
The store's conditions name the variable that every step of the goroutine
changes (`pc`, `caller`, `delayed`), which says the same as all variables.
`MasterRestored` needs the sync: the protection alone gives up once the identifier
is out of local use. `Settles` does not need the periodic regeneration of
endpoints, which is left out.

Two properties hold with a condition that a difference below makes necessary.
`CurrentAtHonest`, and the part of `Settles` that the realized policy has the
contents of the repository's revision, are stated of an identity that was not
given up and taken again (`ep.idRev < 2`), because a row left from the first time
can be taken for current (`readded`). The rest of `Settles` (the endpoint is ready
with the identity of its labels, its map is what it realized, its redirects are
there) holds always.

Each property is shown able to fail: `PROJECT.json` names for each a change of
the model (a dropped guard, a missing reset, a swapped order) under which
TLC refutes it. The changed operators stand before the ones they replace.

## Where code and documentation differ

Six runs have the expected outcome *violation*: they check what a comment in
the repository says, and TLC finds an execution of the code that does not obey
it. `PROJECT.json` quotes the comments.

| Run | Comment | What happens |
|---|---|---|
| `gc_alias` | the identity remains in use with any reference | a reference is taken between the collector's listing and its deletion, and another agent takes the number |
| `interest` | an expansion of interest requires an immediate response | a following request cancels the watch before the response is sent; the same happens on Delta streams, to the names to be forced (`XDS_interest_delta`) |
| `revision` | an import does not advance past a change of another path | the computer's advance is collapsed, but `UpdatePolicy` of endpoints moves their revision |
| `redirects` | finalization runs in case of success | the deferred call has evaluated its error early, and removes redirects of a policy map not yet replaced |
| `readded` | a failed compare-and-swap tells of a raced removal | the first result of an identity is an insertion that succeeds after the removal, and its row is later advanced (`LabelsAndRules` leaves out the deletion, full recomputations and failures) |
| `marker` | the synced key is inserted once all upsertions already issued have completed | a worker's success clears the pending mark although the key was upserted again while it wrote, and the marker precedes the second value |

The collector window needs a reference to be taken between two adjacent
requests of the operator after two rounds without one; the protection and the
sync repair the master key, and `MasterRestored` says so. After `marker`, the second
value is still queued, and `Converges` says that it is written. `Settles` holds with
the behaviours of `revision` and `redirects` in the model: the full recomputation
that bumped the revision, and the retry after the failure, repair them.

Five more statements about the allocator, and the Delta form of `interest`, are
kept as properties with a configuration of their own, to be run by hand; TLC
refutes each:

| Configuration | Comment | What happens |
|---|---|---|
| `KVAllocator_same_id` | users get the same ID for an identical key | a cached number is reused while a lagging agent has allocated a new one |
| `KVAllocator_slave_master` | creation of the slave key is conditional on the master key | it is conditional on the lock only |
| `KVAllocator_gc_released` | after the last release Get does not find the key | the protection recreates the slave key after the release |
| `KVAllocator_held` | the key is removed after the last user released it | the recreation of a lost key takes no reference |
| `KVAllocator_lost_lock` | a lost lock is reported (case D) | an existing key hides it |
| `XDS_interest_delta` | deferred names must be force-sent in the next response | those of a cancelled watch are not kept |

## Proofs

TLAPS proves of the allocator, for any number of nodes, threads, keys and
identifiers, and any bounds:

- `TypeCorrect`: `Spec => []TypeOK`, from `TypeInv`, the type invariant split
  by variable and strengthened by two facts of `localKeys` (an entry has a
  positive count; a verified one has an identifier).
- `Refinement`: without garbage collection, `Spec => ImplementsIdentityMap`.
- `NoAliasingWithoutGC`: without garbage collection, `Spec => []NoAliasing`.

The last two rest on the invariant `Bound`. `NoAliasing` is not inductive: a
number read from a slave key, a cache, an event or a sync copy may be used
later. `Bound` says that each of these places only holds pairs bound by a master
key. The exception is the pair a thread has leased and put in `localKeys`
before its master key exists; this entry is not verified, has one reference, and
its thread holds `slaveKeysMutex`, so no one else can use it. The steps of
threads are proved in two groups: those without the mutex, which disturb no
other thread, and those with it, which the mutex makes exclusive. The kvstore
lock plays no part in it: the proof goes through with every lock lost.

They assume only `ConstantsAssumption` (distinct model values, natural
bounds). With the collector the last two do not hold, as `gc_alias` shows.

Of the synchronised store, for any keys, values, callers, workers, leases, lease
limit and number of failures:

- `TypesHold`: `Spec => []TypeOK`, a count never negative included;
- `LeaseCountsHold`: `Spec => []LeaseCounts`;
- `OneAcquisitionHolds`: `Spec => []OneAcquisition`;
- `NoUpdateIsLost`: `Spec => []NoLostUpdate`;
- `ExpiryIsNoticed`: `Spec => []ExpiryNoticed`.

The first three follow from `StoreInvariant`, which ties program counters to what
the goroutine holds: who acquires, which lease a worker was given, which item
it processes. `NoLostUpdate` alone is not inductive: a worker that has read the
state may write it after a newer update. `DeliveryInv` adds that such a worker
processes the key, so that an update meanwhile leaves the key dirty and it is
handled again, and that a key written under a lease is attached to it, is
attached to another by somebody on the way to write it, or is queued because the
lease expired. They assume a positive limit, finitely many keys and that the marker
is not the name of one.

Of the xDS server, for any resources, groups, interests and bounds, on streams of
both variants and through disconnections and restarts of either side:

- `WaitSoundHolds`: `Spec => []WaitSound`;
- `AckedRealHolds`: `Spec => []AckedReal`;
- `NonceValidHolds`: `Spec => []NonceValid`.

`WaitInv` adds to `WaitSound` that the mutator holds only completions that wait or
that `Wait` itself has completed, and that the latter have a group whose context
is done: so a `Wait` that returns with a live context has none of them in the map.
`AckInv` has a part for each variant. A SotW client holds either a version it
accepted from this agent (`Known`) or a foreign one, from an agent before
(`Foreign`); as long as it is foreign, the stream has not been acknowledged and
everything it carries is newer, because the first round of the watch moves the cache
past the client. On a Delta stream one response is outstanding at a time under a
nonce nobody has used, and the first request in flight with that nonce is the
client's answer, so a repeated nonce cannot be taken for an acknowledgement. They
assume `Nil` is no group and the variants are these two.

Only model-checked: the liveness properties, which TLAPS does not reach;
`RefcountBounded`, `SlaveBacksUse`, `SlaveKept`, `LeaseOwned`, `PoolConverges`,
`CacheConverges` and `ReleasedNotFound` of the allocator;
`Converged`, `AckHonest`, `NackHonest`, `Served` and the types of the xDS server; the
properties of endpoints.

## What is not modelled

Of the allocator: remote caches, operator-managed identities, the change event
channel, the relist of a watch, the local path lock collector, restarts of the
operator. Of the kvstore stores: the shared and watched ones. Of xDS:
`Cache.Clear`, several nodes, the order among types of resources. Of policy: the
contents of policies, the selector cache and incremental updates. Of endpoints:
restoration, the periodic regeneration, several endpoints with one identity. Of
the system: everything `PROJECT.json` lists as `not_modelled`, with the reason;
most of the repository is the datapath, generated clients, command line tools and
reconcilers of kernel state.

## Plan

1. Proofs of `NothingAfterDelete` and `RequestPending` of endpoints, and of
   `AckHonest` of the xDS server.
2. `KVLock`: local path locks with their collector over etcd mutexes and
   sessions; restarts of the operator in `KVAllocator`.
3. `WatchStore`: deletions missed during a disconnection are found; composition
   with `SyncStore` as the writer.
4. Two endpoints with one identity in `PolicyImport`, and restoration.
5. `IDPool` on its own: the life cycle table of `idpool.go` as an abstract
   specification, concurrent lessees, a stale `Release`.
6. `Trigger`, `LocalIdentityCache`, ipcache label injection, IPAM release
   handshake, CRD identity collector.
