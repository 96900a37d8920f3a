------------------------------- MODULE IDPool -------------------------------
(***************************************************************************)
(* The pool of numeric identifiers of one agent (pkg/idpool/idpool.go).    *)
(*                                                                         *)
(* A pool is a record: ids is the set of available identifiers, leased the *)
(* set of identifiers handed out by LeaseAvailableID and neither Use()d    *)
(* nor Release()d yet.  Every exported method takes the pool's mutex, so   *)
(* each one is a single operator from a pool to the pool it leaves behind. *)
(* The order in which Go iterates over the map ids is unspecified: the     *)
(* identifier that is leased is a parameter, any member of ids.            *)
(***************************************************************************)
CONSTANT ID   \* the identifiers minID .. maxID

PoolType == [ids : SUBSET ID, leased : SUBSET ID]

\* newIDCache: every identifier starts out available.
newIDCache == [ids |-> ID, leased |-> {}]

\* allocateID, for the available identifier id the iteration yields first.
allocateID(p, id) == [p EXCEPT !.ids = @ \ {id}]

\* leaseAvailableID: as allocateID, and the identifier is marked as leased.
leaseAvailableID(p, id) == [allocateID(p, id) EXCEPT !.leased = @ \cup {id}]

\* insert: only an identifier that is neither available nor leased is added.
insert(p, id) ==
    IF id \in p.ids \cup p.leased THEN p ELSE [p EXCEPT !.ids = @ \cup {id}]

\* Mutant of release: the identifier is not made available again.
releaseForgotten(p, id) == [p EXCEPT !.leased = @ \ {id}]

\* release: a leased identifier goes back through insert.
release(p, id) ==
    IF id \in p.leased THEN insert([p EXCEPT !.leased = @ \ {id}], id) ELSE p

\* use: a leased identifier becomes unavailable.
use(p, id) == [p EXCEPT !.leased = @ \ {id}]

\* Mutant of remove: a leased identifier stays leased.
removeAvailable(p, id) == [p EXCEPT !.ids = @ \ {id}]

\* remove: the identifier is unavailable afterwards, whatever it was before.
remove(p, id) == [ids |-> p.ids \ {id}, leased |-> p.leased \ {id}]

=============================================================================
