---------------------------- MODULE KVStoreProofs ----------------------------
(***************************************************************************)
(* Proofs about KVStore, for every set of names, keys and values and every *)
(* bound on the version numbers.                                           *)
(***************************************************************************)
EXTENDS KVStore, SequenceTheorems, TLAPS

\* The inductive invariant: the checked invariants together are inductive.
IInv ==
    /\ TypeOK
    /\ HeadMatchesHistory
    /\ HistoryHasNoGaps
    /\ EntriesHaveNamespace

\* A namespace's own entries are always among those its scan meets.
LEMMA UnderItself ==
    ASSUME NEW ns \in Namespaces
    PROVE  IsUnder(ns, ns)
<1>1. ns \in Seq(STRING)
  BY NamesAreSegmentPaths DEF Namespaces
<1>2. SubSeq(ns, 1, Len(ns)) = ns
  BY <1>1
<1>3. QED
  BY <1>1, <1>2 DEF IsUnder

\* The keys DeleteNamespace removes are exactly the stored ones of its name.
LEMMA OwnedIsExact ==
    ASSUME TypeOK, NEW name \in namespaces
    PROVE  Owned(name) = {l \in Loc : l[1] = name /\ kvData[l] # NoEntry}
BY UnderItself DEF Owned, ScannedUnder, TypeOK

LEMMA InitIInv == Init => IInv
<1> SUFFICES ASSUME Init PROVE IInv
  OBVIOUS
<1>1. TypeOK
  BY MaxVersionIsPositive DEF Init, TypeOK
<1>2. HeadMatchesHistory /\ HistoryHasNoGaps /\ EntriesHaveNamespace
  BY MaxVersionIsPositive
     DEF Init, HeadMatchesHistory, HistoryHasNoGaps, EntriesHaveNamespace
<1>3. QED
  BY <1>1, <1>2 DEF IInv

\* What one Set does to each location.
LEMMA SetEffect ==
    ASSUME TypeOK, NEW ns \in Names, NEW key \in Keys, NEW value \in Values,
           Set(ns, key, value), NEW l, l = <<ns, key>>
    PROVE  /\ l \in Loc
           /\ l[1] = ns
           /\ meta[l] \in 0 .. MaxVersion - 1
           /\ meta'[l] = meta[l] + 1
           /\ kvVersions'[l][meta[l] + 1] = value
           /\ \A v \in 1 .. meta[l] : kvVersions'[l][v] = kvVersions[l][v]
           /\ kvData'[l] \in Entry
           /\ kvData'[l].value = value
           /\ kvData'[l].version = meta[l] + 1
           /\ ~kvData'[l].isDeleted
           /\ \A m \in Loc : m # l => /\ kvData'[m] = kvData[m]
                                     /\ kvVersions'[m] = kvVersions[m]
                                     /\ meta'[m] = meta[m]
           /\ namespaces' = namespaces \cup {ns}
           /\ TypeOK'
<1> DEFINE version == NextVersion(l)
<1> DEFINE entry == [value |-> value, version |-> version, isDeleted |-> FALSE]
<1> USE MaxVersionIsPositive
<1>1. /\ l \in Loc
      /\ l[1] = ns
      /\ ns \in Namespaces
  BY DEF Set, Loc, Namespaces
<1>2. /\ meta[l] \in 0 .. MaxVersion - 1
      /\ version = meta[l] + 1
      /\ version \in 1 .. MaxVersion
  BY <1>1 DEF Set, NextVersion, TypeOK
<1>3. /\ namespaces' = namespaces \cup {ns}
      /\ meta' = [meta EXCEPT ![l] = version]
      /\ kvData' = [kvData EXCEPT ![l] = entry]
      /\ kvVersions' = [kvVersions EXCEPT ![l][version] = value]
  BY DEF Set, SaveNamespace
<1> HIDE DEF version
<1>4. entry \in Entry
  BY <1>2 DEF Entry
<1>5. /\ entry.value = value
      /\ entry.version = meta[l] + 1
      /\ ~entry.isDeleted
  BY <1>2
<1> HIDE DEF entry
<1>6. TypeOK'
  <2>1. namespaces' \subseteq Namespaces
    BY <1>1, <1>3 DEF TypeOK
  <2>2. kvData' \in [Loc -> Entry \cup {NoEntry}]
    BY <1>3, <1>4 DEF TypeOK
  <2>3. kvVersions' \in [Loc -> [1 .. MaxVersion -> Values \cup {NoVersion}]]
    BY <1>3 DEF TypeOK
  <2>4. meta' \in [Loc -> 0 .. MaxVersion]
    <3>1. version \in 0 .. MaxVersion
      BY <1>2
    <3>2. QED
      BY <3>1, <1>3 DEF TypeOK
  <2>5. QED
    BY <2>1, <2>2, <2>3, <2>4 DEF TypeOK
<1>7. \A m \in Loc : m # l => /\ kvData'[m] = kvData[m]
                            /\ kvVersions'[m] = kvVersions[m]
                            /\ meta'[m] = meta[m]
  BY <1>3 DEF TypeOK
<1>8. /\ kvData'[l] = entry
      /\ meta'[l] = version
      /\ kvVersions'[l][version] = value
      /\ \A v \in 1 .. MaxVersion :
             v # version => kvVersions'[l][v] = kvVersions[l][v]
  BY <1>1, <1>2, <1>3 DEF TypeOK
<1>9. \A v \in 1 .. meta[l] : kvVersions'[l][v] = kvVersions[l][v]
  BY <1>2, <1>8
<1>10. QED
  BY <1>1, <1>2, <1>3, <1>4, <1>5, <1>6, <1>7, <1>8, <1>9

LEMMA SetKeepsIInv ==
    ASSUME IInv, NEW ns \in Names, NEW key \in Keys, NEW value \in Values,
           Set(ns, key, value)
    PROVE  IInv'
<1> DEFINE l == <<ns, key>>
<1>1. TypeOK
  BY DEF IInv
<1>2. /\ l \in Loc
      /\ l[1] = ns
      /\ meta[l] \in 0 .. MaxVersion - 1
      /\ meta'[l] = meta[l] + 1
      /\ kvVersions'[l][meta[l] + 1] = value
      /\ \A v \in 1 .. meta[l] : kvVersions'[l][v] = kvVersions[l][v]
      /\ kvData'[l] \in Entry
      /\ kvData'[l].value = value
      /\ kvData'[l].version = meta[l] + 1
      /\ ~kvData'[l].isDeleted
      /\ \A m \in Loc : m # l => /\ kvData'[m] = kvData[m]
                                /\ kvVersions'[m] = kvVersions[m]
                                /\ meta'[m] = meta[m]
      /\ namespaces' = namespaces \cup {ns}
      /\ TypeOK'
  BY <1>1, SetEffect
<1> HIDE DEF l
<1>3. NoEntry \notin Entry /\ NoVersion \notin Values
  BY SentinelsAreNoData DEF Entry
<1>4. HeadMatchesHistory'
  <2> SUFFICES ASSUME NEW m \in Loc
               PROVE  IF kvData'[m] = NoEntry
                      THEN meta'[m] = 0
                      ELSE /\ kvData'[m].version = meta'[m]
                           /\ kvVersions'[m][meta'[m]] = kvData'[m].value
    BY DEF HeadMatchesHistory
  <2>1. CASE m = l
    <3>1. kvData'[l] # NoEntry
      BY <1>2, <1>3
    <3>2. kvData'[l].version = meta'[l]
      BY <1>2
    <3>3. kvVersions'[l][meta'[l]] = kvData'[l].value
      BY <1>2
    <3>4. QED
      BY <2>1, <3>1, <3>2, <3>3
  <2>2. CASE m # l
    BY <2>2, <1>2 DEF IInv, HeadMatchesHistory
  <2>3. QED
    BY <2>1, <2>2
<1>5. HistoryHasNoGaps'
  <2> SUFFICES ASSUME NEW m \in Loc, NEW v \in 1 .. meta'[m]
               PROVE  kvVersions'[m][v] # NoVersion
    BY DEF HistoryHasNoGaps
  <2>1. CASE m = l /\ v = meta[l] + 1
    BY <2>1, <1>2, <1>3
  <2>2. CASE m = l /\ v # meta[l] + 1
    <3>1. v \in 1 .. meta[l]
      BY <2>2, <1>2
    <3>2. QED
      BY <3>1, <2>2, <1>2 DEF IInv, HistoryHasNoGaps
  <2>3. CASE m # l
    BY <2>3, <1>2 DEF IInv, HistoryHasNoGaps
  <2>4. QED
    BY <2>1, <2>2, <2>3
<1>6. EntriesHaveNamespace'
  BY <1>2 DEF IInv, EntriesHaveNamespace
<1>7. QED
  BY <1>2, <1>4, <1>5, <1>6 DEF IInv

LEMMA DeleteKeepsIInv ==
    ASSUME IInv, NEW ns \in Names, NEW key \in Keys, Delete(ns, key)
    PROVE  IInv'
<1> DEFINE l == <<ns, key>>
<1>1. /\ l \in Loc
      /\ kvData[l] \in Entry
      /\ kvData' = [kvData EXCEPT ![l].isDeleted = TRUE]
      /\ UNCHANGED <<namespaces, kvVersions, meta>>
  BY DEF Delete, IInv, TypeOK
<1> HIDE DEF l
<1>2. /\ kvData'[l] \in Entry
      /\ kvData'[l].version = kvData[l].version
      /\ kvData'[l].value = kvData[l].value
      /\ \A m \in Loc : m # l => kvData'[m] = kvData[m]
  BY <1>1 DEF IInv, TypeOK, Entry
<1>3. NoEntry \notin Entry
  BY SentinelsAreNoData DEF Entry
<1>4. TypeOK'
  BY <1>1, <1>2 DEF IInv, TypeOK
<1>5. HeadMatchesHistory'
  BY <1>1, <1>2, <1>3 DEF IInv, HeadMatchesHistory
<1>6. HistoryHasNoGaps'
  BY <1>1 DEF IInv, HistoryHasNoGaps
<1>7. EntriesHaveNamespace'
  BY <1>1, <1>2, <1>3 DEF IInv, EntriesHaveNamespace
<1>8. QED
  BY <1>4, <1>5, <1>6, <1>7 DEF IInv

LEMMA CreateNamespaceKeepsIInv ==
    ASSUME IInv, NEW ns \in Names, CreateNamespace(ns)
    PROVE  IInv'
BY DEF IInv, CreateNamespace, SaveNamespace, Namespaces, TypeOK,
       HeadMatchesHistory, HistoryHasNoGaps, EntriesHaveNamespace

\* What one DeleteNamespace does to each location.
LEMMA DeleteNamespaceEffect ==
    ASSUME TypeOK, NEW name \in Names, DeleteNamespace(name)
    PROVE  /\ name \in namespaces
           /\ namespaces' = namespaces \ {name}
           /\ \A l \in Loc :
                IF l[1] = name /\ kvData[l] # NoEntry
                THEN /\ kvData'[l] = NoEntry
                     /\ meta'[l] = 0
                     /\ kvVersions'[l] \in
                            [1 .. MaxVersion -> Values \cup {NoVersion}]
                ELSE /\ kvData'[l] = kvData[l]
                     /\ meta'[l] = meta[l]
                     /\ kvVersions'[l] = kvVersions[l]
           /\ TypeOK'
<1>1. /\ name \in namespaces
      /\ namespaces' = namespaces \ {name}
  BY DEF DeleteNamespace
<1>2. PICK n \in ChangedLeafPrefixes(Owned(name)) :
        kvVersions' = [l \in Loc |->
            IF l \in Owned(name)
            THEN [v \in 1 .. MaxVersion |->
                     IF v \in SteppedOver(l, n[l]) THEN kvVersions[l][v]
                                                   ELSE NoVersion]
            ELSE kvVersions[l]]
  BY DEF DeleteNamespace
<1>3. Owned(name) = {l \in Loc : l[1] = name /\ kvData[l] # NoEntry}
  BY <1>1, OwnedIsExact
<1>4. ASSUME NEW l \in Loc
      PROVE  /\ IF l \in Owned(name)
                THEN /\ kvData'[l] = NoEntry
                     /\ meta'[l] = 0
                     /\ kvVersions'[l] \in
                            [1 .. MaxVersion -> Values \cup {NoVersion}]
                ELSE /\ kvData'[l] = kvData[l]
                     /\ meta'[l] = meta[l]
                     /\ kvVersions'[l] = kvVersions[l]
  <2>1. /\ kvData'[l] = IF l \in Owned(name) THEN NoEntry ELSE kvData[l]
        /\ meta'[l] = IF l \in Owned(name) THEN 0 ELSE meta[l]
    BY DEF DeleteNamespace
  <2>2. CASE l \in Owned(name)
    <3> DEFINE left == [v \in 1 .. MaxVersion |->
                          IF v \in SteppedOver(l, n[l]) THEN kvVersions[l][v]
                                                        ELSE NoVersion]
    <3>1. kvVersions'[l] = left
      BY <1>2, <2>2
    <3>2. left \in [1 .. MaxVersion -> Values \cup {NoVersion}]
      BY DEF TypeOK
    <3>3. QED
      BY <2>1, <2>2, <3>1, <3>2
  <2>3. CASE l \notin Owned(name)
    BY <1>2, <2>1, <2>3
  <2>4. QED
    BY <2>2, <2>3
<1>5. TypeOK'
  <2>1. namespaces' \subseteq Namespaces
    BY <1>1 DEF TypeOK
  <2>2. kvData' \in [Loc -> Entry \cup {NoEntry}]
    BY DEF DeleteNamespace, TypeOK
  <2>3. meta' \in [Loc -> 0 .. MaxVersion]
    BY MaxVersionIsPositive DEF DeleteNamespace, TypeOK
  <2>4. kvVersions' \in [Loc -> [1 .. MaxVersion -> Values \cup {NoVersion}]]
    <3>1. \A l \in Loc : kvVersions'[l] \in
                            [1 .. MaxVersion -> Values \cup {NoVersion}]
      BY <1>4 DEF TypeOK
    <3>2. DOMAIN kvVersions' = Loc /\ kvVersions' = [l \in Loc |-> kvVersions'[l]]
      BY <1>2
    <3>3. QED
      BY <3>1, <3>2
  <2>5. QED
    BY <2>1, <2>2, <2>3, <2>4 DEF TypeOK
<1>6. QED
  BY <1>1, <1>3, <1>4, <1>5

LEMMA DeleteNamespaceKeepsIInv ==
    ASSUME IInv, NEW name \in Names, DeleteNamespace(name)
    PROVE  IInv'
<1>1. TypeOK
  BY DEF IInv
<1>2. /\ name \in namespaces
      /\ namespaces' = namespaces \ {name}
      /\ \A l \in Loc :
           IF l[1] = name /\ kvData[l] # NoEntry
           THEN kvData'[l] = NoEntry /\ meta'[l] = 0
           ELSE /\ kvData'[l] = kvData[l]
                /\ meta'[l] = meta[l]
                /\ kvVersions'[l] = kvVersions[l]
      /\ TypeOK'
  BY <1>1, DeleteNamespaceEffect
<1>3. HeadMatchesHistory'
  BY <1>2 DEF IInv, HeadMatchesHistory
<1>4. HistoryHasNoGaps'
  BY <1>2 DEF IInv, HistoryHasNoGaps
<1>5. EntriesHaveNamespace'
  BY <1>2 DEF IInv, EntriesHaveNamespace
<1>6. QED
  BY <1>2, <1>3, <1>4, <1>5 DEF IInv

LEMMA NextKeepsIInv == IInv /\ [Next]_vars => IInv'
<1> SUFFICES ASSUME IInv, [Next]_vars
             PROVE  IInv'
  OBVIOUS
<1>1. ASSUME NEW ns \in Names, NEW key \in Keys, NEW value \in Values,
             Set(ns, key, value)
      PROVE  IInv'
  BY <1>1, SetKeepsIInv
<1>2. ASSUME NEW ns \in Names, NEW key \in Keys, Delete(ns, key)
      PROVE  IInv'
  BY <1>2, DeleteKeepsIInv
<1>3. ASSUME NEW ns \in Names, CreateNamespace(ns)
      PROVE  IInv'
  BY <1>3, CreateNamespaceKeepsIInv
<1>4. ASSUME NEW ns \in Names, DeleteNamespace(ns)
      PROVE  IInv'
  BY <1>4, DeleteNamespaceKeepsIInv
<1>5. CASE UNCHANGED vars
  BY <1>5 DEF vars, IInv, TypeOK, HeadMatchesHistory, HistoryHasNoGaps,
              EntriesHaveNamespace
<1>6. QED
  BY <1>1, <1>2, <1>3, <1>4, <1>5 DEF Next

\* Every reachable state satisfies the inductive invariant.
THEOREM InvariantHolds == Spec => []IInv
<1>1. QED
  BY InitIInv, NextKeepsIInv, PTL DEF Spec

\* The buckets only ever hold what their types allow.
THEOREM TypeCorrect == Spec => []TypeOK
<1>1. IInv => TypeOK
  BY DEF IInv
<1>2. QED
  BY <1>1, InvariantHolds, PTL

\* The head of every key is its newest numbered version, whatever the mix of
\* sets, soft deletes and namespace deletions.
THEOREM HeadAgreesWithHistory == Spec => []HeadMatchesHistory
<1>1. IInv => HeadMatchesHistory
  BY DEF IInv
<1>2. QED
  BY <1>1, InvariantHolds, PTL

\* The versions 1 .. counter of every key are all there.
THEOREM HistoryIsComplete == Spec => []HistoryHasNoGaps
<1>1. IInv => HistoryHasNoGaps
  BY DEF IInv
<1>2. QED
  BY <1>1, InvariantHolds, PTL

\* No entry outlives the namespace record it is listed under.
THEOREM EntriesAreListed == Spec => []EntriesHaveNamespace
<1>1. IInv => EntriesHaveNamespace
  BY DEF IInv
<1>2. QED
  BY <1>1, InvariantHolds, PTL

----------------------------------------------------------------------------
(* Action properties.                                                      *)

LEMMA NextKeepsVersions == IInv /\ [Next]_vars => [KeepsVersions]_vars
<1> SUFFICES ASSUME IInv, Next
             PROVE  KeepsVersions
  BY DEF vars
<1> SUFFICES ASSUME NEW l \in Loc
             PROVE  \/ /\ meta[l] <= meta'[l]
                       /\ \A v \in 1 .. meta[l] :
                            kvVersions'[l][v] = kvVersions[l][v]
                    \/ l[1] \in namespaces /\ l[1] \notin namespaces'
  BY DEF KeepsVersions
<1>1. meta[l] \in Nat
  BY MaxVersionIsPositive DEF IInv, TypeOK
<1>2. ASSUME NEW ns \in Names, NEW key \in Keys, NEW value \in Values,
             Set(ns, key, value)
      PROVE  /\ meta[l] <= meta'[l]
             /\ \A v \in 1 .. meta[l] : kvVersions'[l][v] = kvVersions[l][v]
  <2> DEFINE at == <<ns, key>>
  <2>1. TypeOK
    BY DEF IInv
  <2>2. /\ meta'[at] = meta[at] + 1
        /\ \A v \in 1 .. meta[at] : kvVersions'[at][v] = kvVersions[at][v]
        /\ \A m \in Loc : m # at => /\ kvVersions'[m] = kvVersions[m]
                                   /\ meta'[m] = meta[m]
    BY <1>2, <2>1, SetEffect
  <2> HIDE DEF at
  <2>3. CASE l = at
    BY <1>1, <2>2, <2>3
  <2>4. CASE l # at
    BY <1>1, <2>2, <2>4
  <2>5. QED
    BY <2>3, <2>4
<1>3. ASSUME NEW ns \in Names, NEW key \in Keys, Delete(ns, key)
      PROVE  /\ meta[l] <= meta'[l]
             /\ \A v \in 1 .. meta[l] : kvVersions'[l][v] = kvVersions[l][v]
  BY <1>1, <1>3 DEF Delete
<1>4. ASSUME NEW ns \in Names, CreateNamespace(ns)
      PROVE  /\ meta[l] <= meta'[l]
             /\ \A v \in 1 .. meta[l] : kvVersions'[l][v] = kvVersions[l][v]
  BY <1>1, <1>4 DEF CreateNamespace
<1>5. ASSUME NEW ns \in Names, DeleteNamespace(ns)
      PROVE  \/ /\ meta[l] <= meta'[l]
                /\ \A v \in 1 .. meta[l] :
                     kvVersions'[l][v] = kvVersions[l][v]
             \/ l[1] \in namespaces /\ l[1] \notin namespaces'
  BY <1>1, <1>5, DeleteNamespaceEffect DEF IInv
<1>6. QED
  BY <1>2, <1>3, <1>4, <1>5 DEF Next

\* Version records are permanent and version numbers never go back, short of
\* dropping the namespace.
THEOREM VersionsStay == Spec => VersionsArePermanent
<1>1. QED
  BY InvariantHolds, NextKeepsVersions, PTL DEF Spec, VersionsArePermanent

LEMMA NextDropsOnlyOwnKeys == IInv /\ [Next]_vars => [DropsOnlyOwnKeys]_vars
<1> SUFFICES ASSUME IInv, Next, NEW ns \in namespaces, ns \notin namespaces',
                    NEW l \in Loc, l[1] # ns
             PROVE  /\ kvData'[l] = kvData[l]
                    /\ kvVersions'[l] = kvVersions[l]
                    /\ meta'[l] = meta[l]
  BY DEF vars, DropsOnlyOwnKeys
<1>1. ~ \E m \in Names, key \in Keys, value \in Values : Set(m, key, value)
  BY DEF Set, SaveNamespace
<1>2. ~ \E m \in Names, key \in Keys : Delete(m, key)
  BY DEF Delete
<1>3. ~ \E m \in Names : CreateNamespace(m)
  BY DEF CreateNamespace, SaveNamespace
<1>4. PICK m \in Names : DeleteNamespace(m)
  BY <1>1, <1>2, <1>3 DEF Next
<1>5. m = ns
  BY <1>4 DEF DeleteNamespace
<1>6. QED
  BY <1>4, <1>5, DeleteNamespaceEffect DEF IInv

\* Dropping a namespace leaves every key of every other namespace alone.
THEOREM DropStaysLocal == Spec => DropIsLocal
<1>1. QED
  BY InvariantHolds, NextDropsOnlyOwnKeys, PTL DEF Spec, DropIsLocal
----------------------------------------------------------------------------
(* Refinement: the store implements the versioned map.                     *)

Cell == Values \cup {NoVersion}

\* The history the refinement mapping gives a key is a sequence of counter
\* many cells.
LEMMA HistoryIsSeq ==
    ASSUME TypeOK, NEW l \in Loc
    PROVE  /\ History[l] \in Seq(Cell)
           /\ Len(History[l]) = meta[l]
           /\ meta[l] \in Nat
           /\ \A v \in 1 .. meta[l] : History[l][v] = kvVersions[l][v]
<1> DEFINE h == [v \in 1 .. meta[l] |-> kvVersions[l][v]]
<1>1. History[l] = h
  BY DEF History
<1>2. meta[l] \in Nat /\ 1 .. meta[l] \subseteq 1 .. MaxVersion
  BY MaxVersionIsPositive DEF TypeOK
<1>3. h \in [1 .. meta[l] -> Cell]
  BY <1>2 DEF TypeOK, Cell
<1>4. h \in Seq(Cell) /\ Len(h) = meta[l]
  <2>1. \A n \in Nat : \A f \in [1 .. n -> Cell] : f \in Seq(Cell) /\ Len(f) = n
    BY SeqDef
  <2>2. QED
    BY <1>2, <1>3, <2>1
<1>5. QED
  BY <1>1, <1>2, <1>4

\* A step that leaves a key's counter and its numbered records alone leaves
\* its history alone.
LEMMA SameHistory ==
    ASSUME TypeOK, TypeOK', NEW l \in Loc, meta'[l] = meta[l],
           \A v \in 1 .. meta[l] : kvVersions'[l][v] = kvVersions[l][v]
    PROVE  History'[l] = History[l]
BY DEF History

\* A key whose counter is absent has an empty history.
LEMMA EmptyHistory ==
    ASSUME TypeOK, NEW l \in Loc, meta[l] = 0
    PROVE  History[l] = << >>
BY HistoryIsSeq, EmptySeq

LEMMA InitRefines == Init => Promise!Init
<1> SUFFICES ASSUME Init PROVE Promise!Init
  OBVIOUS
<1>1. TypeOK
  BY InitIInv DEF IInv
<1>2. \A l \in Loc : History[l] = << >>
  BY <1>1, EmptyHistory DEF Init
<1>3. History = [l \in Loc |-> << >>]
  BY <1>2 DEF History
<1>4. Live = {}
  BY DEF Init, Live, IsLive
<1>5. QED
  BY <1>3, <1>4 DEF Init, Promise!Init, Loc, Promise!Loc, Namespaces,
     Promise!Namespaces, ValidateNamespace, Promise!ValidateNamespace

\* Set appends to one history and makes that key visible.
LEMMA SetRefines ==
    ASSUME IInv, NEW ns \in Names, NEW key \in Keys, NEW value \in Values,
           Set(ns, key, value)
    PROVE  \E l \in Loc : Promise!Put(l, value)
<1> DEFINE l == <<ns, key>>
<1>1. TypeOK
  BY DEF IInv
<1>2. /\ l \in Loc
      /\ l[1] = ns
      /\ meta[l] \in 0 .. MaxVersion - 1
      /\ meta'[l] = meta[l] + 1
      /\ kvVersions'[l][meta[l] + 1] = value
      /\ \A v \in 1 .. meta[l] : kvVersions'[l][v] = kvVersions[l][v]
      /\ kvData'[l] \in Entry
      /\ ~kvData'[l].isDeleted
      /\ \A m \in Loc : m # l => /\ kvData'[m] = kvData[m]
                                /\ kvVersions'[m] = kvVersions[m]
                                /\ meta'[m] = meta[m]
      /\ namespaces' = namespaces \cup {ns}
      /\ TypeOK'
  BY <1>1, SetEffect
<1> HIDE DEF l
<1>3. Len(History[l]) < MaxVersion
  BY <1>1, <1>2, HistoryIsSeq, MaxVersionIsPositive
<1>4. History' = [History EXCEPT ![l] = Append(@, value)]
  <2>1. History'[l] = Append(History[l], value)
    <3>1. /\ History[l] \in Seq(Cell)
          /\ Len(History[l]) = meta[l]
          /\ meta[l] \in Nat
          /\ \A v \in 1 .. meta[l] : History[l][v] = kvVersions[l][v]
      BY <1>1, <1>2, HistoryIsSeq
    <3>2. \A v \in 1 .. meta[l] + 1 : History'[l][v] = kvVersions'[l][v]
      BY <1>2 DEF History
    <3>3. History'[l] \in Seq(Cell) /\ Len(History'[l]) = meta[l] + 1
      <4>1. History'[l] = [v \in 1 .. meta[l] + 1 |-> kvVersions'[l][v]]
        BY <1>2 DEF History
      <4>2. [v \in 1 .. meta[l] + 1 |-> kvVersions'[l][v]]
               \in [1 .. meta[l] + 1 -> Cell]
        <5>1. 1 .. meta[l] + 1 \subseteq 1 .. MaxVersion
          BY <1>2, MaxVersionIsPositive
        <5>2. kvVersions'[l] \in [1 .. MaxVersion -> Cell]
          BY <1>2 DEF TypeOK, Cell
        <5>3. QED
          BY <5>1, <5>2
      <4>3. \A n \in Nat : \A f \in [1 .. n -> Cell] :
                f \in Seq(Cell) /\ Len(f) = n
        BY SeqDef
      <4>4. QED
        BY <3>1, <4>1, <4>2, <4>3
    <3>4. value \in Cell
      BY DEF Cell
    <3>5. /\ Append(History[l], value) \in Seq(Cell)
          /\ Len(Append(History[l], value)) = meta[l] + 1
          /\ \A v \in 1 .. meta[l] + 1 :
               Append(History[l], value)[v] =
                   IF v <= meta[l] THEN History[l][v] ELSE value
      BY <3>1, <3>4, AppendProperties
    <3>6. \A v \in 1 .. meta[l] + 1 :
              History'[l][v] = Append(History[l], value)[v]
      BY <1>2, <3>1, <3>2, <3>5
    <3>7. QED
      BY <3>3, <3>5, <3>6, SeqEqual
  <2>2. \A m \in Loc : m # l => History'[m] = History[m]
    BY <1>1, <1>2, SameHistory
  <2>3. DOMAIN History = Loc /\ DOMAIN History' = Loc
    BY DEF History
  <2>4. History = [m \in Loc |-> History[m]] /\ History' = [m \in Loc |-> History'[m]]
    BY DEF History
  <2>5. QED
    BY <1>2, <2>1, <2>2, <2>3, <2>4
<1>5. Live' = Live \cup {l}
  BY <1>2, SentinelsAreNoData DEF Live, IsLive, Entry
<1>6. QED
  BY <1>2, <1>3, <1>4, <1>5 DEF Promise!Put

\* Delete hides a key that has a history.
LEMMA DeleteRefines ==
    ASSUME IInv, NEW ns \in Names, NEW key \in Keys, Delete(ns, key)
    PROVE  \E l \in Loc : Promise!Hide(l)
<1> DEFINE l == <<ns, key>>
<1>1. TypeOK /\ TypeOK'
  BY DeleteKeepsIInv DEF IInv
<1>2. /\ l \in Loc
      /\ kvData[l] # NoEntry
      /\ kvData[l] \in Entry
      /\ kvData' = [kvData EXCEPT ![l].isDeleted = TRUE]
      /\ UNCHANGED <<namespaces, kvVersions, meta>>
  BY <1>1 DEF Delete, TypeOK
<1> HIDE DEF l
<1>3. History[l] # << >>
  <2>1. meta[l] = kvData[l].version /\ kvData[l].version # 0
    BY <1>2 DEF IInv, HeadMatchesHistory, Entry
  <2>2. QED
    BY <1>1, <1>2, <2>1, HistoryIsSeq, EmptySeq
<1>4. History' = History
  BY <1>2 DEF History
<1>5. Live' = Live \ {l}
  <2>1. kvData'[l].isDeleted
    BY <1>1, <1>2 DEF TypeOK, Entry
  <2>2. \A m \in Loc : m # l => kvData'[m] = kvData[m]
    BY <1>2 DEF TypeOK
  <2>3. QED
    BY <2>1, <2>2 DEF Live, IsLive
<1>6. QED
  BY <1>2, <1>3, <1>4, <1>5 DEF Promise!Hide

LEMMA CreateNamespaceRefines ==
    ASSUME IInv, NEW ns \in Names, CreateNamespace(ns)
    PROVE  \E m \in Namespaces : Promise!Register(m)
BY DEF CreateNamespace, SaveNamespace, Namespaces, Promise!Register, History,
       Live, IsLive

\* DeleteNamespace forgets the histories of its own keys: whatever it leaves in
\* kv_versions is beyond the reset counters.
LEMMA DeleteNamespaceRefines ==
    ASSUME IInv, NEW name \in Names, DeleteNamespace(name)
    PROVE  \E ns \in Namespaces : Promise!Drop(ns)
<1>1. TypeOK
  BY DEF IInv
<1>2. /\ name \in namespaces
      /\ namespaces' = namespaces \ {name}
      /\ \A l \in Loc :
           IF l[1] = name /\ kvData[l] # NoEntry
           THEN kvData'[l] = NoEntry /\ meta'[l] = 0
           ELSE /\ kvData'[l] = kvData[l]
                /\ meta'[l] = meta[l]
                /\ kvVersions'[l] = kvVersions[l]
      /\ TypeOK'
  BY <1>1, DeleteNamespaceEffect
<1>3. name \in Namespaces
  BY <1>1, <1>2 DEF TypeOK
<1>4. ASSUME NEW l \in Loc
      PROVE  History'[l] = IF l[1] = name THEN << >> ELSE History[l]
  <2>1. CASE l[1] = name
    <3>1. meta'[l] = 0
      BY <1>2, <2>1 DEF IInv, HeadMatchesHistory
    <3>2. History'[l] \in Seq(Cell) /\ Len(History'[l]) = 0
      <4>1. History'[l] = [v \in 1 .. 0 |-> kvVersions'[l][v]]
        BY <3>1 DEF History
      <4>2. [v \in 1 .. 0 |-> kvVersions'[l][v]] \in [1 .. 0 -> Cell]
        OBVIOUS
      <4>3. \A n \in Nat : \A f \in [1 .. n -> Cell] :
                f \in Seq(Cell) /\ Len(f) = n
        BY SeqDef
      <4>4. QED
        BY <4>1, <4>2, <4>3
    <3>3. QED
      BY <2>1, <3>2, EmptySeq
  <2>2. CASE l[1] # name
    BY <1>1, <1>2, <2>2, SameHistory
  <2>3. QED
    BY <2>1, <2>2
<1>5. History' = [l \in Loc |-> IF l[1] = name THEN << >> ELSE History[l]]
  <2>1. History' = [l \in Loc |-> History'[l]]
    BY DEF History
  <2>2. QED
    BY <1>4, <2>1
<1>6. Live' = {l \in Live : l[1] # name}
  BY <1>2 DEF Live, IsLive
<1>7. Promise!Loc = Loc
  BY DEF Loc, Promise!Loc, Namespaces, Promise!Namespaces, ValidateNamespace,
         Promise!ValidateNamespace
<1>8. QED
  BY <1>2, <1>3, <1>5, <1>6, <1>7 DEF Promise!Drop

LEMMA NextRefines == IInv /\ [Next]_vars => [Promise!Next]_(Promise!vars)
<1> SUFFICES ASSUME IInv, [Next]_vars
             PROVE  Promise!Next \/ UNCHANGED Promise!vars
  OBVIOUS
<1>1. Promise!Loc = Loc /\ Promise!Namespaces = Namespaces
  BY DEF Loc, Promise!Loc, Namespaces, Promise!Namespaces, ValidateNamespace,
         Promise!ValidateNamespace
<1>2. ASSUME NEW ns \in Names, NEW key \in Keys, NEW value \in Values,
             Set(ns, key, value)
      PROVE  Promise!Next
  BY <1>1, <1>2, SetRefines DEF Promise!Next
<1>3. ASSUME NEW ns \in Names, NEW key \in Keys, Delete(ns, key)
      PROVE  Promise!Next
  BY <1>1, <1>3, DeleteRefines DEF Promise!Next
<1>4. ASSUME NEW ns \in Names, CreateNamespace(ns)
      PROVE  Promise!Next
  BY <1>1, <1>4, CreateNamespaceRefines DEF Promise!Next
<1>5. ASSUME NEW ns \in Names, DeleteNamespace(ns)
      PROVE  Promise!Next
  BY <1>1, <1>5, DeleteNamespaceRefines DEF Promise!Next
<1>6. CASE UNCHANGED vars
  BY <1>6 DEF vars, Promise!vars, History, Live, IsLive
<1>7. QED
  BY <1>2, <1>3, <1>4, <1>5, <1>6 DEF Next

\* The key/value buckets implement the versioned map.
THEOREM StoreImplementsMap == Spec => ImplementsVersionedMap
<1>1. QED
  BY InitRefines, InvariantHolds, NextRefines, PTL
     DEF Spec, ImplementsVersionedMap, Promise!Spec
============================================================================
