----------------------------- MODULE LocalKeys ------------------------------
(***************************************************************************)
(* The reference-counted keys in use on one agent                          *)
(* (pkg/allocator/localkeys.go).                                           *)
(*                                                                         *)
(* lk.keys maps a key to its entry and lk.ids maps an identifier to the    *)
(* key of the entry registered under it; the two maps of the code share    *)
(* their entries by pointer, which is why ids holds only the key.  A key   *)
(* that is not in the map has the entry NoEntry, an identifier that is not *)
(* in the map has NoKey.  Every method runs under the lock of localKeys.   *)
(***************************************************************************)
EXTENDS Naturals

CONSTANTS Key, ID, NoKey, NoID

NoEntry == [val |-> NoID, refcnt |-> 0, verified |-> FALSE]

LocalKeysType ==
    [keys : [Key -> [val : ID \cup {NoID}, refcnt : Nat, verified : BOOLEAN]],
     ids  : [ID -> Key \cup {NoKey}]]

newLocalKeys == [keys |-> [k \in Key |-> NoEntry], ids |-> [i \in ID |-> NoKey]]

lookupKey(lk, k) == lk.keys[k].val

lookupID(lk, id) == lk.ids[id]

\* The error of allocate: the key is in use with another identifier.
allocateConflict(lk, k, id) == lookupKey(lk, k) \notin {NoID, id}

allocate(lk, k, id) ==
    IF lookupKey(lk, k) = NoID
    THEN [keys |-> [lk.keys EXCEPT ![k] =
                      [val |-> id, refcnt |-> 1, verified |-> FALSE]],
          ids  |-> [lk.ids EXCEPT ![id] = k]]
    ELSE [lk EXCEPT !.keys[k].refcnt = @ + 1]

verify(lk, k) ==
    IF lookupKey(lk, k) = NoID THEN lk ELSE [lk EXCEPT !.keys[k].verified = TRUE]

\* use: an entry that is not verified behaves as if it did not exist.
useHit(lk, k) == lk.keys[k].verified

useKey(lk, k) == [lk EXCEPT !.keys[k].refcnt = @ + 1]

\* The lastUse result of release.
lastUse(lk, k) == lk.keys[k].refcnt = 1

releaseKey(lk, k) ==
    CASE lookupKey(lk, k) = NoID -> lk
      [] lookupKey(lk, k) # NoID /\ lastUse(lk, k) ->
           [keys |-> [lk.keys EXCEPT ![k] = NoEntry],
            ids  |-> [lk.ids EXCEPT ![lookupKey(lk, k)] = NoKey]]
      [] OTHER -> [lk EXCEPT !.keys[k].refcnt = @ - 1]

\* The pairs returned by getVerifiedIDs.
getVerifiedIDs(lk) ==
    {p \in ID \X Key : lk.ids[p[1]] = p[2] /\ lk.keys[p[2]].verified}

=============================================================================
