------------------------------ MODULE XDSCache ------------------------------
(***************************************************************************)
(* The versioned resource cache of the xDS server, pkg/envoy/xds/cache.go. *)
(* The agent makes one cache per resource type                             *)
(* (pkg/envoy/xds_server.go:initializeXdsConfigs), so the type URL of the  *)
(* keys is left out.  A resource is a model value; what matters is whether *)
(* it changed and at which version.  The change channel of the code is the *)
(* guard "version > v" of whoever waits for it.                            *)
(***************************************************************************)
EXTENDS Integers, FiniteSets

CONSTANTS
    Names,      \* resource names
    Values,     \* resource contents
    Star,       \* the wildcard "*" of Delta subscriptions
    NoValue,    \* a name that is not in the cache
    Nil         \* no response, no watch, no completion group

VARIABLES
    version,    \* Cache.version
    resources   \* Cache.resources: name -> [val, mod], mod = lastModifiedVersion

cacheVars == <<version, resources>>

Absent == [val |-> NoValue, mod |-> 0]

CacheInit == version = 1 /\ resources = [n \in Names |-> Absent]

Present == {n \in Names : resources[n].val # NoValue}

\* HasAny
HasAny == Present # {}

\* TX with one name: v is the upserted content, NoValue deletes.  Unchanged
\* content leaves the entry and the version alone.
Changes(n, v) == resources[n].val # v

\* Mutant of TX: the version is not advanced.
TXKeepsVersion(n, v) ==
    /\ resources' = [resources EXCEPT ![n] =
           IF v = NoValue THEN Absent ELSE [val |-> v, mod |-> version + 1]]
    /\ UNCHANGED version

TX(n, v) ==
    IF Changes(n, v)
    THEN /\ version' = version + 1
         /\ resources' = [resources EXCEPT ![n] =
                IF v = NoValue THEN Absent ELSE [val |-> v, mod |-> version + 1]]
    ELSE UNCHANGED cacheVars

\* Mutant of EnsureVersion: the cache keeps its version.
EnsureVersionNever(v) == UNCHANGED cacheVars

\* EnsureVersion: jump to v and mark everything modified, to force a full update.
EnsureVersion(v) ==
    IF version < v
    THEN /\ version' = v
         /\ resources' = [n \in Names |-> IF n \in Present
                                          THEN [resources[n] EXCEPT !.mod = v]
                                          ELSE Absent]
    ELSE UNCHANGED cacheVars

Contents(ns) == [n \in ns |-> resources[n].val]

Response(res, gone) == [version |-> version, res |-> res, gone |-> gone]

\* GetResources: every resource for an empty name list; otherwise the named
\* ones, unless all are there and none was modified after lastVersion.
GetResources(last, names) ==
    LET found   == names \cap Present
        updated == \E n \in found : last = 0 \/ last < resources[n].mod
    IN  IF last > 0 /\ version <= last THEN Nil
        ELSE IF names = {} THEN Response(Contents(Present), {})
        ELSE IF found = names /\ ~updated THEN Nil
        ELSE Response(Contents(found), {})

\* Mutant of GetDeltaResources: acknowledged names that are gone are not reported.
GetDeltaForgets(lastAcked, subs, ackedNames, force, forceEmpty) ==
    LET covered == {n \in Names : Star \in subs \/ n \in subs}
        needed  == {n \in covered \cap Present :
                       resources[n].mod > lastAcked \/ n \in force \/ Star \in force}
        removed == (force \cap covered) \ Present
    IN  IF needed = {} /\ removed = {} /\ ~forceEmpty THEN Nil
        ELSE Response(Contents(needed), removed)

\* GetDeltaResources: what changed after the acknowledged version or is forced,
\* and the acknowledged or forced names that are subscribed and gone.
GetDeltaResources(lastAcked, subs, ackedNames, force, forceEmpty) ==
    LET covered == {n \in Names : Star \in subs \/ n \in subs}
        needed  == {n \in covered \cap Present :
                       \/ resources[n].mod > lastAcked
                       \/ n \in force \/ Star \in force}
        removed == ((ackedNames \cup force) \cap covered) \ Present
    IN  IF needed = {} /\ removed = {} /\ ~forceEmpty THEN Nil
        ELSE Response(Contents(needed), removed)
=============================================================================
