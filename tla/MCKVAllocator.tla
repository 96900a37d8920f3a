--------------------------- MODULE MCKVAllocator ----------------------------
(* Instances of KVAllocator for TLC. *)
EXTENDS KVAllocator, TLC

CONSTANTS n1, n2, t1, t2

\* One thread per node.
Spread == t1 :> n1 @@ t2 :> n2

\* Both threads on the same node.
Shared == t1 :> n1 @@ t2 :> n1

\* Identifiers are chosen at random and keys are opaque.
Symmetry == Permutations(ID) \cup Permutations(Key)

=============================================================================
