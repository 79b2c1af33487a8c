------------------------------- MODULE KVStore -------------------------------
(***************************************************************************)
(* The key/value buckets of internal/storage/boltdb.go.                    *)
(*                                                                         *)
(* Each public method runs in one bbolt transaction.  Update transactions  *)
(* exclude each other and commit durably or not at all, so every method is *)
(* one atomic step, and a crash between two of them changes nothing here.  *)
(***************************************************************************)
EXTENDS Names, FiniteSets

CONSTANTS
    Values,         \* what a version may hold: stored value, type, metadata
    MaxVersion,     \* bound on the version numbers of one key
    NoEntry,        \* "no such key" in kv_data
    NoVersion       \* "no such key" in kv_versions

ASSUME MaxVersionIsPositive == MaxVersion \in Nat \ {0}

ASSUME SentinelsAreNoData ==
    /\ NoVersion \notin Values
    /\ NoEntry \notin
         [value : Values, version : 1 .. MaxVersion, isDeleted : BOOLEAN]

VARIABLES
    namespaces,     \* bucket namespaces: the names it holds
    kvData,         \* bucket kv_data: the entry at each location
    kvVersions,     \* bucket kv_versions: the record at each "ns/key#version"
    meta            \* bucket meta: the last version given out, 0 if absent

vars == <<namespaces, kvData, kvVersions, meta>>

Entry == [value : Values, version : 1 .. MaxVersion, isDeleted : BOOLEAN]

TypeOK ==
    /\ namespaces \subseteq Namespaces
    /\ kvData \in [Loc -> Entry \cup {NoEntry}]
    /\ kvVersions \in [Loc -> [1 .. MaxVersion -> Values \cup {NoVersion}]]
    /\ meta \in [Loc -> 0 .. MaxVersion]

----------------------------------------------------------------------------
(* Read operations: one View transaction each.                             *)

\* Get: the locations it finds (a soft-deleted entry is "key not found").
IsLive(l) == kvData[l] # NoEntry /\ ~kvData[l].isDeleted

\* GetVersions: the version numbers a prefix scan of kv_versions meets.
RecordedVersions(l) == {v \in 1 .. MaxVersion : kvVersions[l][v] # NoVersion}

\* The entries a cursor meets under the prefix  name + "/".
ScannedUnder(name) ==
    {l \in Loc : IsUnder(name, l[1]) /\ kvData[l] # NoEntry}

\* List: every live entry under that prefix.
List(name) == {l \in ScannedUnder(name) : IsLive(l)}

----------------------------------------------------------------------------
Init ==
    /\ namespaces = {}
    /\ kvData = [l \in Loc |-> NoEntry]
    /\ kvVersions = [l \in Loc |-> [v \in 1 .. MaxVersion |-> NoVersion]]
    /\ meta = [l \in Loc |-> 0]

\* Mutants: numbering that skips one, and numbering restarted by a delete.
NextVersionSkipping(l) == meta[l] + 2
NextVersionAfterDelete(l) == IF IsLive(l) THEN meta[l] + 1 ELSE 1

\* getNextVersionTx: an absent counter gives version 1.
NextVersion(l) == meta[l] + 1

\* saveNamespace: creates the record or refreshes it.
SaveNamespace(ns) == namespaces' = namespaces \cup {ns}

\* Mutant: the namespace record is left to CreateNamespace.
SetWithoutNamespace(ns, key, value) ==
    LET l == <<ns, key>>
        version == NextVersion(l)
    IN  /\ ValidateNamespace(ns)
        /\ version <= MaxVersion
        /\ meta' = [meta EXCEPT ![l] = version]
        /\ kvData' = [kvData EXCEPT ![l] =
               [value |-> value, version |-> version, isDeleted |-> FALSE]]
        /\ kvVersions' = [kvVersions EXCEPT ![l][version] = value]
        /\ UNCHANGED namespaces

\* Set: namespace, counter, head and history record in one transaction.
Set(ns, key, value) ==
    LET l == <<ns, key>>
        version == NextVersion(l)
    IN  /\ ValidateNamespace(ns)
        /\ version <= MaxVersion
        /\ SaveNamespace(ns)
        /\ meta' = [meta EXCEPT ![l] = version]
        /\ kvData' = [kvData EXCEPT ![l] =
               [value |-> value, version |-> version, isDeleted |-> FALSE]]
        /\ kvVersions' = [kvVersions EXCEPT ![l][version] = value]

\* Mutant: a hard delete that forgets the counter.
HardDelete(ns, key) ==
    LET l == <<ns, key>>
    IN  /\ l \in Loc
        /\ kvData[l] # NoEntry
        /\ kvData' = [kvData EXCEPT ![l] = NoEntry]
        /\ UNCHANGED <<namespaces, kvVersions, meta>>

\* Delete: marks the head, and succeeds again on a key already deleted.
Delete(ns, key) ==
    LET l == <<ns, key>>
    IN  /\ l \in Loc
        /\ kvData[l] # NoEntry
        /\ kvData' = [kvData EXCEPT ![l].isDeleted = TRUE]
        /\ UNCHANGED <<namespaces, kvVersions, meta>>

\* CreateNamespace of the storage interface (no handler calls it).
CreateNamespace(ns) ==
    /\ ValidateNamespace(ns)
    /\ SaveNamespace(ns)
    /\ UNCHANGED <<kvData, kvVersions, meta>>

(***************************************************************************)
(* DeleteNamespace deletes the records of each key with bucket.Delete      *)
(* while a cursor of the same bucket walks them.  bbolt leaves the result  *)
(* of changing a bucket under a cursor open: the cursor reads the stored   *)
(* page until the transaction has turned that leaf into an in-memory node, *)
(* and from then on a deletion shifts the node's items under the cursor,   *)
(* which then steps over the next one.  The records of one key are in byte *)
(* order and the scan only moves forward, so the ones at risk are a prefix *)
(* of them (n items, on a leaf an earlier key already changed): of those   *)
(* every second one is stepped over.  The outer cursor over kv_data reads  *)
(* each leaf before anything on it is deleted, so it meets every entry.    *)
(***************************************************************************)
SteppedOver(l, n) ==
    LET position(v) == Cardinality({u \in RecordedVersions(l) : u <= v})
    IN  {v \in RecordedVersions(l) : position(v) <= n /\ position(v) % 2 = 0}

\* Mutant: the scan trusts its prefix.
OwnedByPrefix(name) == ScannedUnder(name)

\* The entries whose recorded namespace is the one being deleted.
Owned(name) == {l \in ScannedUnder(name) : l[1] = name}

\* The first key of the scan meets no changed leaf: its n is 0.
ChangedLeafPrefixes(owned) ==
    {n \in [owned -> 0 .. MaxVersion] :
        owned # {} => \E l \in owned : n[l] = 0}

\* Mutant: the version counters survive.
DeleteNamespaceKeepingCounters(name) ==
    /\ name \in namespaces
    /\ kvVersions' = [l \in Loc |->
           IF l \in Owned(name) THEN [v \in 1 .. MaxVersion |-> NoVersion]
                                ELSE kvVersions[l]]
    /\ kvData' = [l \in Loc |-> IF l \in Owned(name) THEN NoEntry ELSE kvData[l]]
    /\ namespaces' = namespaces \ {name}
    /\ UNCHANGED meta

DeleteNamespace(name) ==
    /\ name \in namespaces
    /\ \E n \in ChangedLeafPrefixes(Owned(name)) :
         kvVersions' = [l \in Loc |->
             IF l \in Owned(name)
             THEN [v \in 1 .. MaxVersion |->
                      IF v \in SteppedOver(l, n[l]) THEN kvVersions[l][v]
                                                    ELSE NoVersion]
             ELSE kvVersions[l]]
    /\ kvData' = [l \in Loc |-> IF l \in Owned(name) THEN NoEntry ELSE kvData[l]]
    /\ meta' = [l \in Loc |-> IF l \in Owned(name) THEN 0 ELSE meta[l]]
    /\ namespaces' = namespaces \ {name}

Next ==
    \/ \E ns \in Names, key \in Keys :
         Delete(ns, key) \/ \E value \in Values : Set(ns, key, value)
    \/ \E ns \in Names : CreateNamespace(ns) \/ DeleteNamespace(ns)

Spec == Init /\ [][Next]_vars

----------------------------------------------------------------------------
(* Safety.                                                                 *)

\* The head of a key (even a soft-deleted one) is the newest of its numbered
\* versions: Set writes the counter, the head and the record in one
\* transaction, and Delete keeps all three in step.
HeadMatchesHistory ==
    \A l \in Loc :
        IF kvData[l] = NoEntry
        THEN meta[l] = 0
        ELSE /\ kvData[l].version = meta[l]
             /\ kvVersions[l][meta[l]] = kvData[l].value

\* A client may walk the versions 1, 2, ... of a key with ?version=n: no
\* number handed out since the namespace was last dropped is missing.
HistoryHasNoGaps ==
    \A l \in Loc : \A v \in 1 .. meta[l] : kvVersions[l][v] # NoVersion

\* Every stored entry is reachable through ListNamespaces, so the namespace
\* deletion that cleans it up can be asked for.
EntriesHaveNamespace ==
    \A l \in Loc : kvData[l] # NoEntry => l[1] \in namespaces

\* A record written under a version number is never rewritten or lost, and the
\* counter never falls, except when the namespace of that very key is dropped.
\* In particular a delete followed by a set continues the numbering.
KeepsVersions ==
    \A l \in Loc :
        \/ /\ meta[l] <= meta'[l]
           /\ \A v \in 1 .. meta[l] : kvVersions'[l][v] = kvVersions[l][v]
        \/ l[1] \in namespaces /\ l[1] \notin namespaces'

VersionsArePermanent == [][KeepsVersions]_vars

\* Dropping a namespace disturbs no key of another one, nested ones included
\* (deleting "a" keeps everything under "a/b"): the scan meets their entries
\* and must leave them alone.
DropsOnlyOwnKeys ==
    \A ns \in namespaces : ns \notin namespaces' =>
        \A l \in Loc : l[1] # ns =>
            /\ kvData'[l] = kvData[l]
            /\ kvVersions'[l] = kvVersions[l]
            /\ meta'[l] = meta[l]

DropIsLocal == [][DropsOnlyOwnKeys]_vars

\* The store implements the versioned map: a key's history is what its records
\* 1 .. counter hold, whatever else is left in kv_versions.
History == [l \in Loc |-> [v \in 1 .. meta[l] |-> kvVersions[l][v]]]
Live == {l \in Loc : IsLive(l)}

Promise == INSTANCE VersionedMap WITH
    known <- namespaces, history <- History, live <- Live

ImplementsVersionedMap == Promise!Spec

============================================================================
