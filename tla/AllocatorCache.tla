--------------------------- MODULE AllocatorCache ---------------------------
(***************************************************************************)
(* The watch-driven cache of master keys of one agent                      *)
(* (pkg/allocator/cache.go).                                               *)
(*                                                                         *)
(* c.ids is the map nextCache (identifier to key) and c.keys the map       *)
(* nextKeyCache (key to identifier) that shadows it.  From the first       *)
(* OnListDone on, cache and keyCache are the very same maps, and no        *)
(* allocation starts before that, so the model keeps one pair.  Absent     *)
(* entries are NoKey and NoID.                                             *)
(***************************************************************************)
CONSTANTS Key, ID, NoKey, NoID

CacheType == [ids : [ID -> Key \cup {NoKey}], keys : [Key -> ID \cup {NoID}]]

\* The maps start() and the initial list of the master keys m may leave: the
\* list calls OnUpsert once per master key, so of two identifiers with the same
\* key the one listed last stays in the key map.
listed(m) ==
    {[ids |-> m, keys |-> f] : f \in {g \in [Key -> ID \cup {NoID}] :
        \A k \in Key : IF \E i \in ID : m[i] = k
                       THEN g[k] \in ID /\ m[g[k]] = k
                       ELSE g[k] = NoID}}

\* delete(nextKeyCache, key)
forgetKey(keys, k) == IF k = NoKey THEN keys ELSE [keys EXCEPT ![k] = NoID]

\* Mutant of onUpsert: a key that is cached already is skipped.
onUpsertIfNew(c, id, k) ==
    IF c.keys[k] # NoID THEN c
    ELSE [ids |-> [c.ids EXCEPT ![id] = k], keys |-> [c.keys EXCEPT ![k] = id]]

\* OnUpsert: the key the identifier had before is forgotten, if any.
onUpsert(c, id, k) ==
    [ids  |-> [c.ids EXCEPT ![id] = k],
     keys |-> [forgetKey(c.keys, c.ids[id]) EXCEPT ![k] = id]]

\* The tail of onDeleteLocked, when the identifier is not in local use.
onDelete(c, id) ==
    [ids  |-> [c.ids EXCEPT ![id] = NoKey],
     keys |-> forgetKey(c.keys, c.ids[id])]

\* insert, called by Allocate with what it is about to return.
insertKey(c, k, id) ==
    [ids |-> [c.ids EXCEPT ![id] = k], keys |-> [c.keys EXCEPT ![k] = id]]

=============================================================================
