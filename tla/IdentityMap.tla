---------------------------- MODULE IdentityMap -----------------------------
(***************************************************************************)
(* What the identity allocator promises its users while no identity is     *)
(* collected: an identifier, once bound to a key, is never bound to        *)
(* another one, and a node uses an identifier only for the key it is bound *)
(* to (the doc comment of Allocator in pkg/allocator/allocator.go).        *)
(***************************************************************************)
CONSTANTS Node, Key, ID, NoKey

VARIABLES bound,   \* [ID -> Key or NoKey]
          using    \* the triples <<node, key, identifier>> in use

TypeOK ==
    /\ bound \in [ID -> Key \cup {NoKey}]
    /\ using \subseteq Node \X Key \X ID

Init == bound = [id \in ID |-> NoKey] /\ using = {}

\* A new identity.
Bind(id, k) ==
    /\ bound[id] = NoKey
    /\ bound' = [bound EXCEPT ![id] = k]
    /\ UNCHANGED using

\* A node starts to use an identity.
Acquire(n, k, id) ==
    /\ bound[id] = k
    /\ using' = using \cup {<<n, k, id>>}
    /\ UNCHANGED bound

\* Uses end: the last reference is released, or an agent restarts.
Forget ==
    /\ using' \subseteq using
    /\ UNCHANGED bound

Next ==
    \/ \E id \in ID, k \in Key : Bind(id, k)
    \/ \E n \in Node, k \in Key, id \in ID : Acquire(n, k, id)
    \/ Forget

Spec == Init /\ [][Next]_<<bound, using>>

=============================================================================
