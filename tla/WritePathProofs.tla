-------------------------- MODULE WritePathProofs --------------------------
(***************************************************************************)
(* Proofs about WritePath, for any names, keys, values, versions and       *)
(* requests, whatever they do at the same time.                            *)
(***************************************************************************)
EXTENDS WritePath, TLAPS

\* The types that the proof needs.
Shapes ==
    /\ kvData \in [Loc -> Store!Entry \cup {NoEntry}]
    /\ meta \in [Loc -> Nat]
    /\ pc \in [Requests -> {"idle", "list", "drop", "notify", "audit"}]
    /\ DOMAIN dropping = Requests
    /\ todo \in [Requests -> SUBSET Loc]
    /\ stale \subseteq Loc
    /\ overtaken \subseteq Loc

----------------------------------------------------------------------------
(* What the store's operations do to what readers see.                     *)

\* The store and the handlers mean the same locations.
LEMMA SameLocations == Store!Loc = Loc
BY DEF Loc, Namespaces, ValidateNamespace,
       Store!Loc, Store!Namespaces, Store!ValidateNamespace

LEMMA SetShowsOneKey ==
    ASSUME Shapes, NEW ns \in Names, NEW key \in Keys, NEW value \in Values,
           Store!Set(ns, key, value)
    PROVE  /\ kvData' \in [Loc -> Store!Entry \cup {NoEntry}]
           /\ meta' \in [Loc -> Nat]
           /\ <<ns, key>> \in Loc
           /\ \A l \in Loc : l # <<ns, key>> => kvData'[l] = kvData[l]
<1> DEFINE m == <<ns, key>>
<1> DEFINE version == meta[m] + 1
<1> DEFINE entry == [value |-> value, version |-> version, isDeleted |-> FALSE]
<1>1. /\ m \in Loc
      /\ version <= MaxVersion
      /\ meta' = [meta EXCEPT ![m] = version]
      /\ kvData' = [kvData EXCEPT ![m] = entry]
  BY DEF Store!Set, Store!NextVersion, Store!ValidateNamespace,
         Loc, Namespaces, ValidateNamespace
<1>2. version \in 1 .. MaxVersion /\ version \in Nat
  BY <1>1, MaxVersionIsPositive DEF Shapes
<1> HIDE DEF version
<1>3. entry \in Store!Entry
  BY <1>2 DEF Store!Entry
<1> HIDE DEF entry
<1> QED
  BY <1>1, <1>2, <1>3 DEF Shapes

LEMMA DeleteHidesOneKey ==
    ASSUME Shapes, NEW ns, NEW key, Store!Delete(ns, key)
    PROVE  /\ kvData' \in [Loc -> Store!Entry \cup {NoEntry}]
           /\ meta' = meta
           /\ <<ns, key>> \in Loc
           /\ \A l \in Loc : l # <<ns, key>> => kvData'[l] = kvData[l]
           /\ ~Store!IsLive(<<ns, key>>)'
<1> DEFINE m == <<ns, key>>
<1> DEFINE entry == [kvData[m] EXCEPT !.isDeleted = TRUE]
<1>1. /\ m \in Loc
      /\ kvData' = [kvData EXCEPT ![m] = entry]
      /\ kvData[m] # NoEntry
      /\ meta' = meta
  BY SameLocations DEF Store!Delete
<1>2. kvData[m] \in Store!Entry
  BY <1>1 DEF Shapes
<1>3. entry \in Store!Entry /\ entry.isDeleted
  BY <1>2 DEF Store!Entry
<1> HIDE DEF entry
<1>4. kvData' \in [Loc -> Store!Entry \cup {NoEntry}] /\ kvData'[m] = entry
  BY <1>1, <1>3 DEF Shapes
<1>5. ~Store!IsLive(m)'
  BY <1>3, <1>4 DEF Store!IsLive
<1> QED
  BY <1>1, <1>4, <1>5 DEF Shapes

LEMMA DropHidesOwnKeys ==
    ASSUME Shapes, NEW name, Store!DeleteNamespace(name)
    PROVE  /\ kvData' \in [Loc -> Store!Entry \cup {NoEntry}]
           /\ meta' \in [Loc -> Nat]
           /\ \A l \in Loc : \/ kvData'[l] = kvData[l]
                             \/ l[1] = name /\ kvData'[l] = NoEntry
<1>1. /\ kvData' = [l \in Loc |-> IF l \in Store!Owned(name) THEN NoEntry ELSE kvData[l]]
      /\ meta' = [l \in Loc |-> IF l \in Store!Owned(name) THEN 0 ELSE meta[l]]
  BY SameLocations DEF Store!DeleteNamespace
<1>2. \A l \in Store!Owned(name) : l[1] = name
  BY DEF Store!Owned
<1>3. meta' \in [Loc -> Nat]
  BY <1>1 DEF Shapes
<1> QED
  BY <1>1, <1>2, <1>3 DEF Shapes

\* A listing names every live key of its namespace.
LEMMA ListingIsComplete ==
    ASSUME NEW l \in Loc, Store!IsLive(l)
    PROVE  l \in OwnListed(l[1])
<1>1. l[1] \in Seq(STRING)
  BY NamesAreSegmentPaths DEF Loc, Namespaces
<1>2. SubSeq(l[1], 1, Len(l[1])) = l[1]
  BY <1>1
<1>3. Store!IsUnder(l[1], l[1])
  BY <1>1, <1>2 DEF Store!IsUnder
<1> QED
  BY <1>3, SameLocations DEF OwnListed, Store!List, Store!ScannedUnder, Store!IsLive

\* A key whose entry stays as it was stays visible or hidden as it was.
LEMMA SameEntryIsSameView ==
    ASSUME NEW l, kvData'[l] = kvData[l]
    PROVE  Visible(l)' = Visible(l) /\ (Store!IsLive(l)' <=> Store!IsLive(l))
BY DEF Visible, Store!IsLive

----------------------------------------------------------------------------
(* What each step that changes the store does.                             *)

LEMMA SetKeyEffect ==
    ASSUME Shapes, NEW r \in Requests, NEW ns \in Names, NEW key \in Keys,
           NEW value \in Values, SetKey(r, ns, key, value), NEW m, m = <<ns, key>>
    PROVE  /\ pc[r] = "idle"
           /\ m \in Loc
           /\ overtaken' = IF IsBeingDropped(m[1]) THEN overtaken \cup {m}
                                                  ELSE overtaken \ {m}
           /\ stale' = stale \cup {l \in Loc : Visible(l)' # Visible(l)}
           /\ todo' = [todo EXCEPT ![r] = {m}]
           /\ pc' = [pc EXCEPT ![r] = "notify"]
           /\ dropping' = dropping
           /\ \A l \in Loc : l # m => Visible(l)' = Visible(l)
           /\ \A l \in Loc : l # m => (Store!IsLive(l)' <=> Store!IsLive(l))
           /\ Shapes'
<1>1. /\ pc[r] = "idle"
      /\ stale' = stale \cup {l \in Loc : Visible(l)' # Visible(l)}
      /\ todo' = [todo EXCEPT ![r] = {m}]
      /\ pc' = [pc EXCEPT ![r] = "notify"]
      /\ dropping' = dropping
      /\ overtaken' = IF IsBeingDropped(m[1]) THEN overtaken \cup {m}
                                             ELSE overtaken \ {m}
  BY DEF SetKey, MarkStale, MarkOvertaken, Goto
<1>2. Store!Set(ns, key, value)
  BY DEF SetKey
<1>3. /\ kvData' \in [Loc -> Store!Entry \cup {NoEntry}]
      /\ meta' \in [Loc -> Nat]
      /\ m \in Loc
      /\ \A l \in Loc : l # m => kvData'[l] = kvData[l]
  BY <1>2, SetShowsOneKey
<1>4. /\ \A l \in Loc : l # m => Visible(l)' = Visible(l)
      /\ \A l \in Loc : l # m => (Store!IsLive(l)' <=> Store!IsLive(l))
  BY <1>3, SameEntryIsSameView
<1>5. Shapes'
  BY <1>1, <1>3 DEF Shapes
<1> QED
  BY <1>1, <1>3, <1>4, <1>5

LEMMA DeleteKeyEffect ==
    ASSUME Shapes, NEW r \in Requests, NEW ns, NEW key, DeleteKey(r, ns, key),
           NEW m, m = <<ns, key>>
    PROVE  /\ pc[r] = "idle"
           /\ m \in Loc
           /\ stale' = stale \cup {l \in Loc : Visible(l)' # Visible(l)}
           /\ todo' = [todo EXCEPT ![r] = {m}]
           /\ pc' = [pc EXCEPT ![r] = "notify"]
           /\ UNCHANGED <<dropping, overtaken>>
           /\ \A l \in Loc : l # m => Visible(l)' = Visible(l)
           /\ \A l \in Loc : Store!IsLive(l)' => Store!IsLive(l)
           /\ Shapes'
<1>1. /\ pc[r] = "idle"
      /\ stale' = stale \cup {l \in Loc : Visible(l)' # Visible(l)}
      /\ todo' = [todo EXCEPT ![r] = {m}]
      /\ pc' = [pc EXCEPT ![r] = "notify"]
      /\ UNCHANGED <<dropping, overtaken>>
  BY DEF DeleteKey, MarkStale, Goto
<1>2. Store!Delete(ns, key)
  BY DEF DeleteKey
<1>3. /\ kvData' \in [Loc -> Store!Entry \cup {NoEntry}]
      /\ meta' = meta
      /\ m \in Loc
      /\ \A l \in Loc : l # m => kvData'[l] = kvData[l]
      /\ ~Store!IsLive(m)'
  BY <1>2, DeleteHidesOneKey
<1>4. \A l \in Loc : l # m => Visible(l)' = Visible(l)
  BY <1>3, SameEntryIsSameView
<1>5. \A l \in Loc : Store!IsLive(l)' => Store!IsLive(l)
  BY <1>3, SameEntryIsSameView
<1>6. Shapes'
  BY <1>1, <1>3 DEF Shapes
<1> QED
  BY <1>1, <1>3, <1>4, <1>5, <1>6

\* The third transaction of a namespace deletion, when it succeeds.
Committed(r) ==
    /\ Store!DeleteNamespace(dropping[r])
    /\ MarkStale
    /\ Goto(r, "notify")
    /\ UNCHANGED todo

LEMMA CommitEffect ==
    ASSUME Shapes, NEW r \in Requests, DropCommit(r), Committed(r)
    PROVE  /\ pc[r] = "drop"
           /\ stale' = stale \cup {l \in Loc : Visible(l)' # Visible(l)}
           /\ pc' = [pc EXCEPT ![r] = "notify"]
           /\ UNCHANGED <<todo, overtaken>>
           /\ dropping' = [dropping EXCEPT ![r] = None]
           /\ \A l \in Loc : Store!IsLive(l)' =>
                  Store!IsLive(l) /\ Visible(l)' = Visible(l)
           /\ Shapes'
<1>1. /\ pc[r] = "drop"
      /\ stale' = stale \cup {l \in Loc : Visible(l)' # Visible(l)}
      /\ pc' = [pc EXCEPT ![r] = "notify"]
      /\ UNCHANGED <<todo, overtaken>>
      /\ dropping' = [dropping EXCEPT ![r] = None]
  BY DEF DropCommit, Committed, MarkStale, Goto
<1>2. Store!DeleteNamespace(dropping[r])
  BY DEF Committed
<1>3. /\ kvData' \in [Loc -> Store!Entry \cup {NoEntry}]
      /\ meta' \in [Loc -> Nat]
      /\ \A l \in Loc : \/ kvData'[l] = kvData[l]
                        \/ l[1] = dropping[r] /\ kvData'[l] = NoEntry
  BY <1>2, DropHidesOwnKeys
<1>4. \A l \in Loc : Store!IsLive(l)' => Store!IsLive(l) /\ Visible(l)' = Visible(l)
  BY <1>3 DEF Visible, Store!IsLive
<1>5. Shapes'
  BY <1>1, <1>3 DEF Shapes
<1> QED
  BY <1>1, <1>4, <1>5

\* The steps that leave the store alone.
Quiet(r) ==
    \/ Refuse(r) \/ Audit(r) \/ DropList(r)
    \/ \E l \in Loc : Notify(r, l)
    \/ \E ns \in Names : DropLookup(r, ns)
    \/ DropCommit(r) /\ ~Committed(r)

LEMMA QuietEffect ==
    ASSUME Shapes, NEW r \in Requests, Quiet(r)
    PROVE  UNCHANGED <<kvData, meta>> /\ Shapes'
<1> USE DEF Goto, storeVars
<1>1. UNCHANGED <<kvData, meta>>
  BY DEF Quiet, Refuse, Audit, DropList, Notify, DropLookup, DropCommit, Committed
<1>2. OwnListed(dropping[r]) \subseteq Loc
  BY SameLocations DEF OwnListed, Store!List, Store!ScannedUnder
<1>3. CASE DropList(r)
  BY <1>1, <1>2, <1>3 DEF DropList, Shapes
<1>4. CASE Refuse(r)
  BY <1>1, <1>4 DEF Refuse, Shapes
<1>5. CASE Audit(r)
  BY <1>1, <1>5 DEF Audit, Shapes
<1>6. CASE \E l \in Loc : Notify(r, l)
  BY <1>1, <1>6 DEF Notify, Shapes
<1>7. CASE \E ns \in Names : DropLookup(r, ns)
  BY <1>1, <1>7 DEF DropLookup, Shapes
<1>8. CASE DropCommit(r) /\ ~Committed(r)
  BY <1>1, <1>8 DEF DropCommit, Committed, Shapes
<1> QED
  BY <1>1, <1>3, <1>4, <1>5, <1>6, <1>7, <1>8 DEF Quiet

----------------------------------------------------------------------------
(* A key that exists is announced, whoever writes.                         *)

LiveInv == Shapes /\ LiveChangesAreAnnounced

LEMMA InitShapes == Init => Shapes
BY SameLocations DEF Init, Shapes, Store!Init

LEMMA StepKeepsLiveInv == LiveInv /\ [Next]_vars => LiveInv'
<1> SUFFICES ASSUME LiveInv, [Next]_vars PROVE LiveInv'
  OBVIOUS
<1>1. CASE \E r \in Requests : \E ns \in Names, key \in Keys :
               \E v \in Values : SetKey(r, ns, key, v)
  <2>1. PICK r \in Requests, ns \in Names, key \in Keys, v \in Values :
            SetKey(r, ns, key, v)
    BY <1>1
  <2>2. PICK m : m = <<ns, key>>
    OBVIOUS
  <2>3. /\ pc[r] = "idle"
        /\ m \in Loc
        /\ stale' = stale \cup {l \in Loc : Visible(l)' # Visible(l)}
        /\ todo' = [todo EXCEPT ![r] = {m}]
        /\ pc' = [pc EXCEPT ![r] = "notify"]
        /\ \A l \in Loc : l # m => Visible(l)' = Visible(l)
        /\ \A l \in Loc : l # m => (Store!IsLive(l)' <=> Store!IsLive(l))
        /\ Shapes'
    BY <2>1, <2>2, SetKeyEffect DEF LiveInv
  <2> QED
    BY <2>3 DEF LiveInv, Shapes, LiveChangesAreAnnounced
<1>2. CASE \E r \in Requests : \E ns \in Names, key \in Keys : DeleteKey(r, ns, key)
  <2>1. PICK r \in Requests, ns \in Names, key \in Keys : DeleteKey(r, ns, key)
    BY <1>2
  <2>2. PICK m : m = <<ns, key>>
    OBVIOUS
  <2>3. /\ pc[r] = "idle"
        /\ m \in Loc
        /\ stale' = stale \cup {l \in Loc : Visible(l)' # Visible(l)}
        /\ todo' = [todo EXCEPT ![r] = {m}]
        /\ pc' = [pc EXCEPT ![r] = "notify"]
        /\ \A l \in Loc : l # m => Visible(l)' = Visible(l)
        /\ \A l \in Loc : Store!IsLive(l)' => Store!IsLive(l)
        /\ Shapes'
    BY <2>1, <2>2, DeleteKeyEffect DEF LiveInv
  <2> QED
    BY <2>3 DEF LiveInv, Shapes, LiveChangesAreAnnounced
<1>3. CASE \E r \in Requests : DropCommit(r) /\ Committed(r)
  <2>1. PICK r \in Requests : DropCommit(r) /\ Committed(r)
    BY <1>3
  <2>2. /\ pc[r] = "drop"
        /\ stale' = stale \cup {l \in Loc : Visible(l)' # Visible(l)}
        /\ pc' = [pc EXCEPT ![r] = "notify"]
        /\ todo' = todo
        /\ \A l \in Loc : Store!IsLive(l)' =>
               Store!IsLive(l) /\ Visible(l)' = Visible(l)
        /\ Shapes'
    BY <2>1, CommitEffect DEF LiveInv
  <2> QED
    BY <2>2 DEF LiveInv, Shapes, LiveChangesAreAnnounced
<1>4. CASE \E r \in Requests : Quiet(r)
  <2>1. PICK r \in Requests : Quiet(r)
    BY <1>4
  <2>2. UNCHANGED <<kvData, meta>> /\ Shapes'
    BY <2>1, QuietEffect DEF LiveInv
  <2>3. \A l \in stale' : l \in stale /\ (Store!IsLive(l)' <=> Store!IsLive(l))
    BY <2>1, <2>2 DEF Quiet, Refuse, Audit, DropList, Notify, DropLookup, DropCommit,
                      Committed, Store!IsLive
  <2>4. \A l \in stale', q \in Requests :
            pc[q] = "notify" /\ l \in todo[q] => pc'[q] = "notify" /\ l \in todo'[q]
    <3>1. CASE \E l \in Loc : Notify(r, l)
      BY <3>1 DEF Notify, LiveInv, Shapes
    <3>2. CASE Audit(r)
      BY <3>2 DEF Audit, Goto, LiveInv, Shapes
    <3>3. CASE pc[r] # "notify" /\ ~\E l \in Loc : Notify(r, l)
      BY <2>1, <3>3 DEF Quiet, Refuse, Audit, DropList, DropLookup, DropCommit,
                        Committed, Goto, LiveInv, Shapes
    <3> QED
      BY <2>1, <3>1, <3>2, <3>3 DEF Quiet, Refuse, DropList, DropLookup, DropCommit
  <2> QED
    BY <2>2, <2>3, <2>4 DEF LiveInv, LiveChangesAreAnnounced
<1>5. CASE Restart
  BY <1>5 DEF Restart, storeVars, LiveInv, Shapes, LiveChangesAreAnnounced
<1>6. CASE UNCHANGED vars
  BY <1>6 DEF vars, storeVars, LiveInv, Shapes, LiveChangesAreAnnounced, Store!IsLive
<1> QED
  BY <1>1, <1>2, <1>3, <1>4, <1>5, <1>6 DEF Next, Quiet

\* Every live key whose watchers are out of date still has an event coming, also
\* when sets race with deletions of their namespace.
THEOREM LiveKeysAreAnnounced == Spec => []LiveChangesAreAnnounced
<1>1. Init => LiveInv
  BY InitShapes DEF Init, LiveInv, LiveChangesAreAnnounced
<1>2. LiveInv => LiveChangesAreAnnounced
  BY DEF LiveInv
<1> QED
  BY <1>1, <1>2, StepKeepsLiveInv, PTL DEF Spec

----------------------------------------------------------------------------
(* A change goes unsaid only where a set overtook a namespace deletion.    *)

\* What a namespace deletion has listed still includes every live key of the
\* namespace, but those set since.
ListingCovers ==
    \A r \in Requests : pc[r] = "drop" =>
        \A l \in Loc : l[1] = dropping[r] /\ Store!IsLive(l) =>
            l \in todo[r] \cup overtaken

IInv == Shapes /\ ListingCovers /\ NoSilentChange

\* Every key that a namespace deletion makes invisible is in its listing, or was
\* set after it.
LEMMA ListingNamesWhatVanishes ==
    ASSUME IInv, NEW r \in Requests, pc[r] = "drop",
           Store!DeleteNamespace(dropping[r]),
           NEW l \in Loc, Visible(l)' # Visible(l)
    PROVE  l \in todo[r] \cup overtaken
<1>1. l[1] = dropping[r] /\ kvData'[l] = NoEntry
  <2>1. \/ kvData'[l] = kvData[l]
        \/ l[1] = dropping[r] /\ kvData'[l] = NoEntry
    BY DropHidesOwnKeys DEF IInv
  <2> QED
    BY <2>1, SameEntryIsSameView
<1>2. Visible(l)' = 0
  BY <1>1 DEF Visible, Store!IsLive
<1>3. Store!IsLive(l)
  BY <1>2 DEF Visible
<1> QED
  BY <1>1, <1>3 DEF IInv, ListingCovers

LEMMA SetKeyKeepsIInv ==
    ASSUME IInv, NEW r \in Requests, NEW ns \in Names, NEW key \in Keys,
           NEW value \in Values, SetKey(r, ns, key, value)
    PROVE  IInv'
<1>1. PICK m : m = <<ns, key>>
  OBVIOUS
<1>2. /\ pc[r] = "idle"
      /\ m \in Loc
      /\ overtaken' = IF IsBeingDropped(m[1]) THEN overtaken \cup {m}
                                             ELSE overtaken \ {m}
      /\ stale' = stale \cup {l \in Loc : Visible(l)' # Visible(l)}
      /\ todo' = [todo EXCEPT ![r] = {m}]
      /\ pc' = [pc EXCEPT ![r] = "notify"]
      /\ dropping' = dropping
      /\ \A l \in Loc : l # m => Visible(l)' = Visible(l)
      /\ \A l \in Loc : l # m => (Store!IsLive(l)' <=> Store!IsLive(l))
      /\ Shapes'
  BY <1>1, SetKeyEffect DEF IInv
<1>3. ListingCovers'
  <2>1. SUFFICES ASSUME NEW q \in Requests, pc'[q] = "drop", NEW l \in Loc,
                        l[1] = dropping'[q], Store!IsLive(l)'
                 PROVE  l \in todo'[q] \cup overtaken'
    BY DEF ListingCovers
  <2>2. q # r /\ pc[q] = "drop" /\ dropping[q] = l[1] /\ todo'[q] = todo[q]
    BY <1>2, <2>1 DEF IInv, Shapes
  <2>3. CASE l = m
    BY <1>2, <2>2, <2>3 DEF IsBeingDropped
  <2>4. CASE l # m
    <3>1. l \in todo[q] \cup overtaken
      BY <1>2, <2>1, <2>2, <2>4 DEF IInv, ListingCovers
    <3> QED
      BY <1>2, <2>2, <2>4, <3>1
  <2> QED
    BY <2>3, <2>4
<1>4. NoSilentChange'
  BY <1>2 DEF IInv, Shapes, NoSilentChange
<1> QED
  BY <1>2, <1>3, <1>4 DEF IInv

LEMMA DeleteKeyKeepsIInv ==
    ASSUME IInv, NEW r \in Requests, NEW ns, NEW key, DeleteKey(r, ns, key)
    PROVE  IInv'
<1>1. PICK m : m = <<ns, key>>
  OBVIOUS
<1>2. /\ pc[r] = "idle"
      /\ m \in Loc
      /\ stale' = stale \cup {l \in Loc : Visible(l)' # Visible(l)}
      /\ todo' = [todo EXCEPT ![r] = {m}]
      /\ pc' = [pc EXCEPT ![r] = "notify"]
      /\ UNCHANGED <<dropping, overtaken>>
      /\ \A l \in Loc : l # m => Visible(l)' = Visible(l)
      /\ \A l \in Loc : Store!IsLive(l)' => Store!IsLive(l)
      /\ Shapes'
  BY <1>1, DeleteKeyEffect DEF IInv
<1>4. ListingCovers'
  <2>1. \A q \in Requests : pc'[q] = "drop" => pc[q] = "drop" /\ todo'[q] = todo[q]
    BY <1>2 DEF IInv, Shapes
  <2> QED
    BY <1>2, <2>1 DEF IInv, ListingCovers
<1>5. NoSilentChange'
  BY <1>2 DEF IInv, Shapes, NoSilentChange
<1> QED
  BY <1>2, <1>4, <1>5 DEF IInv

LEMMA CommitKeepsIInv ==
    ASSUME IInv, NEW r \in Requests, DropCommit(r), Committed(r)
    PROVE  IInv'
<1>1. /\ pc[r] = "drop"
      /\ stale' = stale \cup {l \in Loc : Visible(l)' # Visible(l)}
      /\ pc' = [pc EXCEPT ![r] = "notify"]
      /\ UNCHANGED <<todo, overtaken>>
      /\ dropping' = [dropping EXCEPT ![r] = None]
      /\ \A l \in Loc : Store!IsLive(l)' => Store!IsLive(l)
      /\ Shapes'
  BY CommitEffect DEF IInv
<1>3. ListingCovers'
  <2>1. \A q \in Requests : pc'[q] = "drop" =>
            pc[q] = "drop" /\ dropping'[q] = dropping[q]
    BY <1>1 DEF IInv, Shapes
  <2> QED
    BY <1>1, <2>1 DEF IInv, ListingCovers
<1>4. NoSilentChange'
  <2>1. \A l \in Loc : Visible(l)' # Visible(l) => l \in todo[r] \cup overtaken
    BY <1>1, ListingNamesWhatVanishes DEF Committed
  <2>2. pc'[r] = "notify" /\ \A q \in Requests : pc[q] = "notify" => pc'[q] = "notify"
    BY <1>1 DEF IInv, Shapes
  <2> QED
    BY <1>1, <2>1, <2>2 DEF IInv, NoSilentChange
<1> QED
  BY <1>1, <1>3, <1>4 DEF IInv

LEMMA QuietKeepsIInv ==
    ASSUME IInv, NEW r \in Requests, Quiet(r)
    PROVE  IInv'
<1>1. UNCHANGED <<kvData, meta>> /\ Shapes'
  BY QuietEffect DEF IInv
<1>3. ListingCovers'
  <2>1. SUFFICES ASSUME NEW q \in Requests, pc'[q] = "drop", NEW l \in Loc,
                        l[1] = dropping'[q], Store!IsLive(l)'
                 PROVE  l \in todo'[q] \cup overtaken'
    BY DEF ListingCovers
  <2>2. Store!IsLive(l)
    BY <1>1, <2>1 DEF Store!IsLive
  <2>3. CASE q = r /\ DropList(r)
    <3>1. l[1] = dropping[r] /\ todo'[r] = OwnListed(dropping[r])
      BY <2>1, <2>3 DEF DropList, IInv, Shapes
    <3> QED
      BY <2>2, <2>3, <3>1, ListingIsComplete
  <2>4. CASE ~(q = r /\ DropList(r))
    <3>1. /\ pc[q] = "drop" /\ dropping'[q] = dropping[q] /\ todo'[q] = todo[q]
          /\ overtaken' = overtaken
      BY <2>1, <2>4 DEF Quiet, Refuse, Audit, DropList, Notify, DropLookup, DropCommit,
                        Committed, Goto, IInv, Shapes
    <3> QED
      BY <2>1, <2>2, <3>1 DEF IInv, ListingCovers
  <2> QED
    BY <2>3, <2>4
<1>4. NoSilentChange'
  <2>1. CASE \E l \in Loc : Notify(r, l)
    BY <2>1 DEF Notify, IInv, Shapes, NoSilentChange
  <2>2. CASE Audit(r)
    BY <2>2 DEF Audit, Goto, IInv, Shapes, NoSilentChange
  <2>3. CASE pc[r] # "notify" /\ ~\E l \in Loc : Notify(r, l)
    BY <2>3 DEF Quiet, Refuse, Audit, DropList, DropLookup, DropCommit,
                Committed, Goto, IInv, Shapes, NoSilentChange
  <2> QED
    BY <2>1, <2>2, <2>3 DEF Quiet, Refuse, DropList, DropLookup, DropCommit
<1> QED
  BY <1>1, <1>3, <1>4 DEF IInv

LEMMA InitIInv == Init => IInv
BY InitShapes DEF Init, IInv, ListingCovers, NoSilentChange

LEMMA StepKeepsIInv ==
    ASSUME IInv, [Next]_vars
    PROVE  IInv'
<1>1. CASE Restart
  BY <1>1 DEF Restart, storeVars, IInv, Shapes, ListingCovers,
              NoSilentChange
<1>2. CASE \E r \in Requests : Quiet(r)
  BY <1>2, QuietKeepsIInv
<1>3. CASE \E r \in Requests : DropCommit(r) /\ Committed(r)
  BY <1>3, CommitKeepsIInv
<1>4. CASE \E r \in Requests : \E ns \in Names, key \in Keys : DeleteKey(r, ns, key)
  BY <1>4, DeleteKeyKeepsIInv
<1>5. CASE \E r \in Requests : \E ns \in Names, key \in Keys :
               \E v \in Values : SetKey(r, ns, key, v)
  BY <1>5, SetKeyKeepsIInv
<1>6. CASE UNCHANGED vars
  BY <1>6 DEF vars, storeVars, IInv, Shapes, ListingCovers,
              NoSilentChange, Store!IsLive
<1> QED
  BY <1>1, <1>2, <1>3, <1>4, <1>5, <1>6 DEF Next, Quiet

\* While what was announced of a key is out of date, a request still has an
\* event about it to publish: what handlers.go promises by publishing after
\* every committed change.  The only exception is a key whose last set came
\* between the listing and the deletion of its namespace.
THEOREM ChangesAreNeverSilent == Spec => []NoSilentChange
<1>1. Init => IInv
  BY InitIInv
<1>2. IInv /\ [Next]_vars => IInv'
  BY StepKeepsIInv
<1>3. IInv => NoSilentChange
  BY DEF IInv
<1> QED
  BY <1>1, <1>2, <1>3, PTL DEF Spec

\* DeleteNamespace returns the names of all the keys that it deletes, with the
\* same exception.
THEOREM DropsReportTheirKeys == Spec => DropsAreReported
<1>1. Init => IInv
  BY InitIInv
<1>2. IInv /\ [Next]_vars => IInv'
  BY StepKeepsIInv
<1>3. IInv /\ [Next]_vars => [ReportsDeletedKeys]_vars
  <2> SUFFICES ASSUME IInv, Next,
                      NEW r \in Requests, pc[r] = "drop", pc'[r] = "notify",
                      NEW l \in Loc, Visible(l)' # Visible(l)
               PROVE  l \in todo'[r] \cup overtaken
    BY DEF ReportsDeletedKeys
  <2>1. Store!DeleteNamespace(dropping[r]) /\ todo' = todo
    BY DEF Next, Restart, Refuse, DropList, DropCommit, Audit, Notify, DropLookup,
           DeleteKey, SetKey, Goto, IInv, Shapes
  <2> QED
    BY <2>1, ListingNamesWhatVanishes
<1> QED
  BY <1>1, <1>2, <1>3, PTL DEF Spec, DropsAreReported

----------------------------------------------------------------------------
(* The handlers change the store through its own operations only.          *)

\* KVStore and what is proved of it, about the buckets of this module.
Proved == INSTANCE KVStoreProofs

LEMMA SameStore ==
    /\ Store!Init => Proved!Init
    /\ [Store!Next]_(Store!vars) => [Proved!Next]_(Proved!vars)
<1>1. Proved!Loc = Store!Loc /\ Proved!Entry = Store!Entry
  BY DEF Proved!Loc, Proved!Namespaces, Proved!ValidateNamespace, Proved!Entry,
         Store!Loc, Store!Namespaces, Store!ValidateNamespace, Store!Entry
<1>2. Store!Init => Proved!Init
  BY <1>1 DEF Store!Init, Proved!Init
<1>3. ASSUME NEW ns \in Names, NEW key \in Keys, NEW value \in Values,
             Store!Set(ns, key, value)
      PROVE  Proved!Set(ns, key, value)
  BY <1>3 DEF Store!Set, Store!ValidateNamespace, Store!NextVersion, Store!SaveNamespace,
              Proved!Set, Proved!ValidateNamespace, Proved!NextVersion, Proved!SaveNamespace
<1>4. ASSUME NEW ns \in Names, NEW key \in Keys, Store!Delete(ns, key)
      PROVE  Proved!Delete(ns, key)
  BY <1>1, <1>4 DEF Store!Delete, Proved!Delete
<1>5. ASSUME NEW ns \in Names, Store!CreateNamespace(ns) PROVE Proved!CreateNamespace(ns)
  BY <1>5 DEF Store!CreateNamespace, Store!ValidateNamespace, Store!SaveNamespace,
              Proved!CreateNamespace, Proved!ValidateNamespace, Proved!SaveNamespace
<1>6. ASSUME NEW ns \in Names, Store!DeleteNamespace(ns) PROVE Proved!DeleteNamespace(ns)
  <2>1. Proved!Owned(ns) = Store!Owned(ns)
    BY <1>1 DEF Proved!Owned, Proved!ScannedUnder, Proved!IsUnder,
                Store!Owned, Store!ScannedUnder, Store!IsUnder
  <2>2. \A l, n : Proved!SteppedOver(l, n) = Store!SteppedOver(l, n)
    <3>1. \A S : Proved!Cardinality(S) = Store!Cardinality(S)
      BY DEF Proved!Cardinality, Store!Cardinality
    <3>2. \A l : Proved!RecordedVersions(l) = Store!RecordedVersions(l)
      BY DEF Proved!RecordedVersions, Store!RecordedVersions
    <3> QED
      BY <3>1, <3>2 DEF Proved!SteppedOver, Store!SteppedOver
  <2>3. Proved!ChangedLeafPrefixes(Proved!Owned(ns)) = Store!ChangedLeafPrefixes(Store!Owned(ns))
    BY <2>1 DEF Proved!ChangedLeafPrefixes, Store!ChangedLeafPrefixes
  <2>4. PICK n \in Proved!ChangedLeafPrefixes(Proved!Owned(ns)) :
            kvVersions' = [l \in Store!Loc |->
                IF l \in Store!Owned(ns)
                THEN [v \in 1 .. MaxVersion |->
                         IF v \in Store!SteppedOver(l, n[l]) THEN kvVersions[l][v]
                                                             ELSE NoVersion]
                ELSE kvVersions[l]]
    BY <1>6, <2>3, Zenon DEF Store!DeleteNamespace
  <2>5. kvVersions' = [l \in Proved!Loc |->
                IF l \in Proved!Owned(ns)
                THEN [v \in 1 .. MaxVersion |->
                         IF v \in Proved!SteppedOver(l, n[l]) THEN kvVersions[l][v]
                                                              ELSE NoVersion]
                ELSE kvVersions[l]]
    BY <1>1, <2>1, <2>2, <2>4
  <2>6. /\ ns \in namespaces
        /\ kvData' = [l \in Proved!Loc |->
               IF l \in Proved!Owned(ns) THEN NoEntry ELSE kvData[l]]
        /\ meta' = [l \in Proved!Loc |-> IF l \in Proved!Owned(ns) THEN 0 ELSE meta[l]]
        /\ namespaces' = namespaces \ {ns}
    BY <1>1, <1>6, <2>1 DEF Store!DeleteNamespace
  <2> QED
    BY <2>5, <2>6, Zenon DEF Proved!DeleteNamespace
<1>7. [Store!Next]_(Store!vars) => [Proved!Next]_(Proved!vars)
  BY <1>3, <1>4, <1>5, <1>6 DEF Store!Next, Store!vars, Proved!Next, Proved!vars
<1> QED
  BY <1>2, <1>7

\* What is dropped is the name of a namespace, as GetNamespace has found it.
NamesAreValid ==
    /\ namespaces \subseteq Namespaces
    /\ dropping \in [Requests -> Namespaces \cup {None}]

LEMMA InitNamesAreValid == Init => NamesAreValid
BY DEF Init, Store!Init, NamesAreValid

LEMMA StepsAreStoreSteps ==
    ASSUME NamesAreValid, [Next]_vars
    PROVE  /\ [Store!Next]_(Store!vars)
           /\ NamesAreValid'
<1> USE DEF Store!vars, storeVars, NamesAreValid
<1>1. ASSUME NEW r \in Requests, NEW ns \in Names, NEW key \in Keys, NEW v \in Values,
             SetKey(r, ns, key, v)
      PROVE  Store!Next /\ NamesAreValid'
  <2>1. Store!Set(ns, key, v) /\ UNCHANGED dropping
    BY <1>1 DEF SetKey
  <2>2. Store!Next
    BY <2>1 DEF Store!Next
  <2>3. namespaces' = namespaces \cup {ns} /\ ns \in Namespaces
    BY <2>1 DEF Store!Set, Store!SaveNamespace, Store!ValidateNamespace,
                Namespaces, ValidateNamespace
  <2> QED
    BY <2>1, <2>2, <2>3
<1>2. ASSUME NEW r \in Requests, NEW ns \in Names, NEW key \in Keys, DeleteKey(r, ns, key)
      PROVE  Store!Next /\ NamesAreValid'
  <2>1. Store!Delete(ns, key) /\ UNCHANGED dropping
    BY <1>2 DEF DeleteKey
  <2>2. Store!Next
    BY <2>1 DEF Store!Next
  <2> QED
    BY <2>1, <2>2 DEF Store!Delete
<1>3. ASSUME NEW r \in Requests, DropCommit(r)
      PROVE  [Store!Next]_(Store!vars) /\ NamesAreValid'
  <2>1. dropping' = [dropping EXCEPT ![r] = None]
    BY <1>3 DEF DropCommit
  <2>2. CASE Store!DeleteNamespace(dropping[r])
    <3>1. dropping[r] \in Names /\ namespaces' \subseteq namespaces
      BY <2>2 DEF Store!DeleteNamespace, Namespaces
    <3>2. Store!Next
      BY <2>2, <3>1 DEF Store!Next
    <3> QED
      BY <2>1, <3>1, <3>2
  <2>3. CASE UNCHANGED storeVars
    BY <2>1, <2>3
  <2> QED
    BY <1>3, <2>2, <2>3 DEF DropCommit
<1>4. ASSUME NEW r \in Requests,
             \/ Refuse(r) \/ DropList(r) \/ Audit(r)
             \/ \E l \in Loc : Notify(r, l)
             \/ \E ns \in Names : DropLookup(r, ns)
      PROVE  UNCHANGED storeVars /\ NamesAreValid'
  <2>1. UNCHANGED storeVars
    BY <1>4 DEF Refuse, DropList, Audit, Notify, DropLookup
  <2>2. \/ UNCHANGED dropping
        \/ \E n \in Namespaces \cup {None} : dropping' = [dropping EXCEPT ![r] = n]
    BY <1>4 DEF Refuse, DropList, Audit, Notify, DropLookup, Namespaces
  <2> QED
    BY <2>1, <2>2
<1>5. CASE Restart \/ UNCHANGED vars
  BY <1>5 DEF Restart, vars
<1> QED
  BY <1>1, <1>2, <1>3, <1>4, <1>5 DEF Next

\* Whatever the handlers do at the same time, the store sees only transactions of
\* its own, one at a time: a namespace deletion in three of them, and crashes in
\* between, are to the store what KVStore allows.
THEOREM HandlersKeepToTheStore == Spec => Store!Spec
<1>1. Init => Store!Init /\ NamesAreValid
  BY InitNamesAreValid DEF Init
<1>2. NamesAreValid /\ [Next]_vars => [Store!Next]_(Store!vars) /\ NamesAreValid'
  BY StepsAreStoreSteps
<1> QED
  BY <1>1, <1>2, PTL DEF Spec, Store!Spec

\* So all that is proved of the store alone holds of the store behind the
\* handlers.
LEMMA StoreTheoremsApply == Spec => Proved!Spec
<1>1. Spec => Store!Spec
  BY HandlersKeepToTheStore
<1> QED
  BY <1>1, SameStore, PTL DEF Store!Spec, Proved!Spec

\* Every request is where a handler can be, what it deletes is a valid
\* namespace, what it announces are keys that can exist, and the buckets hold
\* what the store puts there.
THEOREM TypeCorrect == Spec => []TypeOK
<1>1. Init => Shapes /\ NamesAreValid
  BY InitShapes, InitNamesAreValid
<1>2. LiveInv /\ [Next]_vars => LiveInv'
  BY StepKeepsLiveInv
<1>3. NamesAreValid /\ [Next]_vars => NamesAreValid'
  BY StepsAreStoreSteps
<1>4. Init => LiveInv
  BY <1>1 DEF Init, LiveInv, LiveChangesAreAnnounced
<1>5. Proved!Spec => []Proved!TypeOK
  BY Proved!TypeCorrect, NamesAreSegmentPaths, MaxVersionIsPositive, SentinelsAreNoData
<1>6. Proved!TypeOK /\ LiveInv /\ NamesAreValid => TypeOK
  <2> SUFFICES ASSUME Proved!TypeOK, LiveInv, NamesAreValid PROVE TypeOK
    OBVIOUS
  <2>1. Store!TypeOK
    BY DEF Proved!TypeOK, Proved!Entry, Proved!Loc, Proved!Namespaces,
           Proved!ValidateNamespace, Store!TypeOK, Store!Entry, Store!Loc,
           Store!Namespaces, Store!ValidateNamespace
  <2> QED
    BY <2>1 DEF TypeOK, LiveInv, Shapes, NamesAreValid
<1> QED
  BY <1>1, <1>2, <1>3, <1>4, <1>5, <1>6, StoreTheoremsApply, PTL DEF Spec

\* In particular, while handlers and crashes interleave, no version that was
\* answered to a client is rewritten or given out again before its namespace is
\* dropped, a drop touches no other namespace, and what the handlers do to the
\* store is a versioned map.
THEOREM HandlersImplementTheMap ==
    Spec => /\ Proved!VersionsArePermanent
            /\ Proved!DropIsLocal
            /\ Proved!ImplementsVersionedMap
<1> USE NamesAreSegmentPaths, MaxVersionIsPositive, SentinelsAreNoData
<1>1. Proved!Spec => Proved!VersionsArePermanent
  BY Proved!VersionsStay
<1>2. Proved!Spec => Proved!DropIsLocal
  BY Proved!DropStaysLocal
<1>3. Proved!Spec => Proved!ImplementsVersionedMap
  BY Proved!StoreImplementsMap
<1> QED
  BY <1>1, <1>2, <1>3, StoreTheoremsApply, PTL

============================================================================
