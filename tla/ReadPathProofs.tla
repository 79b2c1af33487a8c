--------------------------- MODULE ReadPathProofs ---------------------------
(***************************************************************************)
(* Proofs about ReadPath, for any number of requests and writers, any      *)
(* paths, tokens and master keys.                                          *)
(***************************************************************************)
EXTENDS ReadPath, TLAPS

\* What a request that goes on has seen there all along is there.
SteadyIsThere ==
    \A r \in Requests : pc[r] # "idle" =>
        /\ steady[r] \subseteq Readable
        /\ exists[r] => path[r] \in namespaces
        /\ pc[r] = "version" => version[r] # 0

\* Who is past Get has looked for the key, and it has not been there all along.
KeyIsNotSteady ==
    \A r \in Requests :
        /\ pc[r] = "namespace" => Key(r) \notin steady[r]
        /\ pc[r] = "list" /\ Len(path[r]) >= 2 /\ HasAccess(token[r], Front(path[r])) =>
             Key(r) \notin steady[r]

IInv ==
    /\ TypeOK
    /\ SteadyIsThere
    /\ KeyIsNotSteady
    /\ FoundIfThere
    /\ ValuesArePlain

\* Store has the names of this module.
LEMMA SameNames ==
    /\ Store!Loc = Loc
    /\ Store!Namespaces = Namespaces
    /\ \A ns, other \in Seq(STRING) : Store!IsUnder(ns, other) <=> IsUnder(ns, other)
<1>1. Store!Namespaces = Namespaces
  BY DEF Store!Namespaces, Namespaces, Store!ValidateNamespace, ValidateNamespace
<1>2. Store!Loc = Loc
  BY <1>1 DEF Store!Loc, Loc
<1>3. \A ns, other \in Seq(STRING) : Store!IsUnder(ns, other) <=> IsUnder(ns, other)
  BY DEF Store!IsUnder, IsUnder
<1> QED
  BY <1>1, <1>2, <1>3

LEMMA IInit == Init => IInv
<1> SUFFICES ASSUME Init PROVE IInv
  OBVIOUS
<1>1. TypeOK
  <2>1. Store!TypeOK
    BY StoreConstants DEF Init, Store!Init, Store!TypeOK, Store!Entry
  <2> QED
    BY <2>1, StoreConstants DEF Init, TypeOK
<1>2. SteadyIsThere /\ KeyIsNotSteady
  BY DEF Init, SteadyIsThere, KeyIsNotSteady
<1>3. FoundIfThere /\ ValuesArePlain
  BY DEF Init, FoundIfThere, ValuesArePlain
<1> QED
  BY <1>1, <1>2, <1>3 DEF IInv

----------------------------------------------------------------------------
(* The steps of others.                                                    *)

LEMMA StoreStaysTyped ==
    ASSUME Store!TypeOK, NEW ns \in Names, master \in MasterKeys,
           \/ Store!DeleteNamespace(ns)
           \/ \E key \in Keys :
                \/ Store!Delete(ns, key)
                \/ \E value \in {Config, master} : Store!Set(ns, key, value)
    PROVE  Store!TypeOK'
<1>1. CASE Store!DeleteNamespace(ns)
  <2>1. namespaces' \subseteq namespaces
    BY <1>1 DEF Store!DeleteNamespace
  <2>2. kvData' \in [Store!Loc -> Store!Entry \cup {NoEntry}]
    BY <1>1 DEF Store!DeleteNamespace, Store!TypeOK
  <2>3. kvVersions' \in
            [Store!Loc -> [1 .. MaxVersion -> (MasterKeys \cup {Config}) \cup {NoVersion}]]
    <3>1. PICK n : kvVersions' = [l \in Store!Loc |->
             IF l \in Store!Owned(ns)
             THEN [v \in 1 .. MaxVersion |->
                      IF v \in Store!SteppedOver(l, n[l]) THEN kvVersions[l][v]
                                                    ELSE NoVersion]
             ELSE kvVersions[l]]
      BY <1>1 DEF Store!DeleteNamespace
    <3> QED
      BY <3>1 DEF Store!TypeOK
  <2>4. meta' \in [Store!Loc -> 0 .. MaxVersion]
    BY <1>1, StoreConstants DEF Store!DeleteNamespace, Store!TypeOK
  <2> QED
    BY <2>1, <2>2, <2>3, <2>4 DEF Store!TypeOK
<1>2. ASSUME NEW key \in Keys, Store!Delete(ns, key) PROVE Store!TypeOK'
  BY <1>2 DEF Store!Delete, Store!TypeOK, Store!Entry
<1>3. ASSUME NEW key \in Keys, NEW value \in {Config, master}, Store!Set(ns, key, value)
      PROVE  Store!TypeOK'
  <2> DEFINE l == <<ns, key>>
  <2>1. /\ ns \in Store!Namespaces /\ l \in Store!Loc
        /\ Store!NextVersion(l) \in 1 .. MaxVersion
        /\ value \in MasterKeys \cup {Config}
    BY <1>3, StoreConstants DEF Store!Set, Store!Namespaces, Store!Loc, Store!NextVersion, Store!TypeOK
  <2>2. namespaces' \subseteq Store!Namespaces
    BY <1>3, <2>1 DEF Store!Set, Store!SaveNamespace, Store!TypeOK
  <2>3. kvData' \in [Store!Loc -> Store!Entry \cup {NoEntry}]
    BY <1>3, <2>1 DEF Store!Set, Store!TypeOK, Store!Entry
  <2>4. meta' \in [Store!Loc -> 0 .. MaxVersion]
    BY <1>3, <2>1, StoreConstants DEF Store!Set, Store!TypeOK
  <2>5. kvVersions' \in
            [Store!Loc -> [1 .. MaxVersion -> (MasterKeys \cup {Config}) \cup {NoVersion}]]
    BY <1>3, <2>1 DEF Store!Set, Store!TypeOK
  <2> QED
    BY <2>2, <2>3, <2>4, <2>5 DEF Store!TypeOK
<1> QED
  BY <1>1, <1>2, <1>3

LEMMA WriteKeeps == IInv /\ Write => IInv'
<1> SUFFICES ASSUME IInv, Write PROVE IInv'
  OBVIOUS
<1>1. UNCHANGED <<master, pc, token, path, version, status, shown>> /\ KeepHistory
  BY DEF Write, asks, answers
<1>2. TypeOK'
  <2>1. Store!TypeOK'
    BY StoreStaysTyped DEF Write, IInv, TypeOK
  <2> QED
    BY <1>1, <2>1 DEF IInv, TypeOK, KeepHistory
<1>3. \A r \in Requests : Key(r)' = Key(r)
  BY <1>1 DEF Key
<1>4. \A r \in Requests :
        /\ steady'[r] \subseteq steady[r]
        /\ pc[r] = "idle" => steady'[r] = steady[r] /\ exists'[r] = exists[r]
        /\ pc[r] # "idle" => steady'[r] \subseteq Readable'
                             /\ (exists'[r] => path[r] \in namespaces')
  BY <1>1 DEF KeepHistory
<1>5. SteadyIsThere'
  BY <1>1, <1>4 DEF IInv, SteadyIsThere
<1>6. KeyIsNotSteady'
  BY <1>1, <1>3, <1>4 DEF IInv, KeyIsNotSteady
<1>7. FoundIfThere'
  BY <1>1, <1>3, <1>4 DEF IInv, FoundIfThere
<1>8. ValuesArePlain'
  BY <1>1, <1>3 DEF IInv, ValuesArePlain
<1> QED
  BY <1>2, <1>5, <1>6, <1>7, <1>8 DEF IInv

LEMMA RestartKeeps == IInv /\ Restart => IInv'
<1> SUFFICES ASSUME IInv, Restart PROVE IInv'
  OBVIOUS
<1>1. TypeOK'
  <2>1. Store!TypeOK'
    BY DEF IInv, TypeOK, Restart, storeVars, Store!TypeOK
  <2> QED
    BY <2>1 DEF IInv, TypeOK, Restart, asks
<1>2. SteadyIsThere' /\ KeyIsNotSteady'
  BY DEF Restart, SteadyIsThere, KeyIsNotSteady
<1>3. FoundIfThere' /\ ValuesArePlain'
  BY DEF Restart, FoundIfThere, ValuesArePlain
<1> QED
  BY <1>1, <1>2, <1>3 DEF IInv
----------------------------------------------------------------------------
(* The steps of a request.                                                 *)

\* A request goes to where it has to wait for nothing, or asks for the key first.
LEMMA AskKeeps ==
    ASSUME IInv, NEW r \in Requests, NEW t \in Tokens, NEW p \in Asked,
           NEW v \in 0 .. MaxVersion, NEW place \in {"version", "get", "list", "versions"},
           place = "version" => v # 0,
           place = "list" => ~(Len(p) >= 2 /\ HasAccess(t, Front(p))),
           Ask(r, t, p, v, place)
    PROVE  IInv'
<1> USE DEF IInv, Ask
<1>1. TypeOK'
  <2>1. Store!TypeOK' /\ master' \in MasterKeys
    BY DEF TypeOK, storeVars, Store!TypeOK
  <2>2. /\ pc' \in [Requests -> {"idle", "version", "get", "namespace", "list", "versions"}]
        /\ token' \in [Requests -> Tokens]
        /\ path' \in [Requests -> Asked]
        /\ version' \in [Requests -> 0 .. MaxVersion]
    BY DEF TypeOK
  <2>3. status' \in [Requests -> {"none", "entry", "version", "list", "versions",
                                  "not found", "forbidden"}]
    BY DEF TypeOK
  <2>4. shown' \in [Requests -> SUBSET (Loc \X {"plain", "cipher", "empty"})]
    BY DEF TypeOK
  <2>5. steady' \in [Requests -> SUBSET Loc]
    <3>1. Readable \in SUBSET Loc
      BY DEF Readable
    <3> QED
      BY <3>1 DEF TypeOK
  <2>6. exists' \in [Requests -> BOOLEAN]
    <3>1. (p \in namespaces) \in BOOLEAN
      OBVIOUS
    <3> QED
      BY <3>1, Zenon DEF TypeOK
  <2> QED
    BY <2>1, <2>2, <2>3, <2>4, <2>5, <2>6 DEF TypeOK
<1>2. Readable' = Readable /\ namespaces' = namespaces
  BY DEF storeVars, Readable, Store!IsLive, Fails
<1>3. SteadyIsThere'
  BY <1>2 DEF TypeOK, SteadyIsThere
<1>4. \A q \in Requests : q # r => Key(q)' = Key(q)
  BY DEF TypeOK, Key
<1>5. KeyIsNotSteady'
  BY <1>4 DEF TypeOK, KeyIsNotSteady
<1>6. FoundIfThere'
  <2> SUFFICES ASSUME NEW q \in Requests, pc'[q] = "idle"
               PROVE  /\ status'[q] = "not found" /\ version'[q] = 0 =>
                           Key(q)' \notin steady'[q] /\ ~exists'[q]
                      /\ status'[q] = "list" =>
                           /\ Len(path'[q]) >= 2 /\ HasAccess(token'[q], Front(path'[q])) =>
                                Key(q)' \notin steady'[q]
                           /\ \A l \in steady'[q] :
                                IsUnder(path'[q], l[1]) => <<l, "plain">> \in shown'[q]
    BY DEF FoundIfThere
  <2>1. q # r
    BY DEF TypeOK
  <2>2. /\ pc'[q] = pc[q] /\ status'[q] = status[q] /\ version'[q] = version[q]
        /\ steady'[q] = steady[q] /\ exists'[q] = exists[q] /\ shown'[q] = shown[q]
        /\ path'[q] = path[q] /\ token'[q] = token[q]
    BY <2>1 DEF TypeOK
  <2> QED
    BY <1>4, <2>1, <2>2 DEF FoundIfThere
<1>7. ValuesArePlain'
  BY <1>4 DEF TypeOK, ValuesArePlain
<1> QED
  BY <1>1, <1>3, <1>5, <1>6, <1>7

\* What a step of the engine leaves alone.
LEMMA ReadsLeave ==
    ASSUME IInv, Reads
    PROVE  /\ Store!TypeOK' /\ UNCHANGED <<master, token, path, version, steady, exists>>
           /\ Readable' = Readable /\ namespaces' = namespaces
           /\ \A q \in Requests : Key(q)' = Key(q)
BY DEF IInv, TypeOK, Reads, storeVars, asks, Store!TypeOK, Readable, Store!IsLive, Fails, Key

\* An answer that is true of what was there all along keeps the invariant.
LEMMA AnswerKeeps ==
    ASSUME IInv, Reads, NEW r \in Requests,
           NEW s \in {"entry", "version", "list", "versions", "not found", "forbidden"},
           NEW what \in SUBSET (Loc \X {"plain", "cipher"}), Answer(r, s, what),
           s = "not found" /\ version[r] = 0 => Key(r) \notin steady[r] /\ ~exists[r],
           s = "list" =>
             /\ Len(path[r]) >= 2 /\ HasAccess(token[r], Front(path[r])) =>
                  Key(r) \notin steady[r]
             /\ \A l \in steady[r] : IsUnder(path[r], l[1]) => <<l, "plain">> \in what,
           s \in {"entry", "version"} => what = {<<Key(r), "plain">>}
    PROVE  IInv'
<1> USE ReadsLeave DEF IInv, Answer
<1>1. TypeOK'
  BY DEF TypeOK
<1>2. SteadyIsThere' /\ KeyIsNotSteady'
  BY DEF TypeOK, SteadyIsThere, KeyIsNotSteady
<1>3. FoundIfThere'
  <2> SUFFICES ASSUME NEW q \in Requests, pc'[q] = "idle"
               PROVE  /\ status'[q] = "not found" /\ version[q] = 0 =>
                           Key(q) \notin steady[q] /\ ~exists[q]
                      /\ status'[q] = "list" =>
                           /\ Len(path[q]) >= 2 /\ HasAccess(token[q], Front(path[q])) =>
                                Key(q) \notin steady[q]
                           /\ \A l \in steady[q] :
                                IsUnder(path[q], l[1]) => <<l, "plain">> \in shown'[q]
    BY DEF FoundIfThere
  <2>1. CASE q = r
    BY <2>1 DEF TypeOK
  <2>2. CASE q # r
    <3>1. pc'[q] = pc[q] /\ status'[q] = status[q] /\ shown'[q] = shown[q]
      BY <2>2 DEF TypeOK
    <3> QED
      BY <3>1 DEF FoundIfThere
  <2> QED
    BY <2>1, <2>2
<1>4. ValuesArePlain'
  BY DEF TypeOK, ValuesArePlain
<1> QED
  BY <1>1, <1>2, <1>3, <1>4

LEMMA GotoKeeps ==
    ASSUME IInv, Reads, NEW r \in Requests, NEW place \in {"namespace", "list"},
           Goto(r, place), pc[r] # "idle", Key(r) \notin steady[r]
    PROVE  IInv'
<1> USE ReadsLeave DEF IInv, Goto, answers
<1>1. TypeOK'
  BY DEF TypeOK
<1>2. SteadyIsThere' /\ KeyIsNotSteady'
  BY DEF TypeOK, SteadyIsThere, KeyIsNotSteady
<1>3. FoundIfThere'
  <2>1. \A q \in Requests : pc'[q] = "idle" => pc[q] = "idle"
    BY DEF TypeOK
  <2> QED
    BY <2>1 DEF FoundIfThere
<1>4. ValuesArePlain'
  BY DEF ValuesArePlain
<1> QED
  BY <1>1, <1>2, <1>3, <1>4

LEMMA GetVersionKeeps ==
    ASSUME IInv, NEW r \in Requests, GetVersion(r)
    PROVE  IInv'
<1>1. version[r] # 0
  BY DEF IInv, SteadyIsThere, GetVersion
<1> DEFINE value == kvVersions[Key(r)][version[r]]
<1>2. CASE version[r] \in Recorded(r) /\ ~Fails(value)
  <2>1. Answer(r, "version", {<<Key(r), "plain">>})
    BY <1>2 DEF GetVersion, Decrypted
  <2>2. {<<Key(r), "plain">>} \in SUBSET (Loc \X {"plain", "cipher"})
    BY <1>2 DEF Recorded
  <2> QED
    BY <2>1, <2>2, AnswerKeeps DEF GetVersion
<1>3. CASE Answer(r, "not found", {})
  BY <1>1, <1>3, AnswerKeeps DEF GetVersion
<1> QED
  BY <1>2, <1>3 DEF GetVersion

LEMMA GetKeeps ==
    ASSUME IInv, NEW r \in Requests, Get(r)
    PROVE  IInv'
<1>1. CASE Key(r) \in Readable
  <2>1. Answer(r, "entry", {<<Key(r), "plain">>})
    BY <1>1 DEF Get, Readable, Decrypted
  <2>2. {<<Key(r), "plain">>} \in SUBSET (Loc \X {"plain", "cipher"})
    BY <1>1 DEF Readable
  <2> QED
    BY <2>1, <2>2, AnswerKeeps DEF Get
<1>2. CASE Key(r) \notin Readable
  <2>1. Goto(r, "namespace") /\ Key(r) \notin steady[r] /\ pc[r] # "idle"
    BY <1>2 DEF Get, Readable, IInv, SteadyIsThere
  <2> QED
    BY <2>1, GotoKeeps DEF Get
<1> QED
  BY <1>1, <1>2

LEMMA GetNamespaceKeeps ==
    ASSUME IInv, NEW r \in Requests, GetNamespace(r)
    PROVE  IInv'
<1>1. Key(r) \notin steady[r] /\ (exists[r] => path[r] \in namespaces)
  BY DEF IInv, KeyIsNotSteady, SteadyIsThere, GetNamespace
<1>2. CASE path[r] \notin namespaces /\ Last(path[r]) \in KeyLike
  BY <1>1, <1>2, AnswerKeeps DEF GetNamespace
<1>3. CASE Goto(r, "list")
  BY <1>1, <1>3, GotoKeeps DEF GetNamespace
<1> QED
  BY <1>2, <1>3 DEF GetNamespace

\* A list has everything that can be read below its namespace.
LEMMA ListIsComplete ==
    ASSUME NEW ns \in Seq(STRING)
    PROVE  /\ ListedUnder(ns) \in SUBSET (Loc \X {"plain", "cipher"})
           /\ \A l \in Readable : IsUnder(ns, l[1]) => <<l, "plain">> \in ListedUnder(ns)
<1>1. \A l \in Store!List(ns) : l \in Loc
  BY SameNames DEF Store!List, Store!ScannedUnder
<1>2. \A value : DecryptedIfItCan(value) \in {"plain", "cipher"}
  BY DEF DecryptedIfItCan, Decrypted
<1>3. ASSUME NEW l \in Readable, IsUnder(ns, l[1])
      PROVE  <<l, "plain">> \in ListedUnder(ns)
  <2>1. l \in Loc /\ Store!IsLive(l) /\ ~Fails(kvData[l].value)
    BY DEF Readable
  <2>2. l[1] \in Seq(STRING)
    BY <2>1, NamesAreSegmentPaths DEF Loc, Namespaces
  <2>3. l \in Store!List(ns)
    BY <1>3, <2>1, <2>2, SameNames DEF Store!List, Store!ScannedUnder, Store!IsLive
  <2>4. DecryptedIfItCan(kvData[l].value) = "plain"
    BY <2>1 DEF DecryptedIfItCan, Decrypted
  <2> QED
    BY <2>3, <2>4 DEF ListedUnder
<1> QED
  BY <1>1, <1>2, <1>3 DEF ListedUnder

LEMMA ListKeeps ==
    ASSUME IInv, NEW r \in Requests, List(r)
    PROVE  IInv'
<1>1. path[r] \in Seq(STRING) /\ steady[r] \subseteq Readable
  BY PathsAreAsked DEF IInv, TypeOK, SteadyIsThere, List
<1>2. Len(path[r]) >= 2 /\ HasAccess(token[r], Front(path[r])) => Key(r) \notin steady[r]
  BY DEF IInv, KeyIsNotSteady, List
<1>3. CASE Answer(r, "list", ListedUnder(path[r]))
  <2>1. /\ ListedUnder(path[r]) \in SUBSET (Loc \X {"plain", "cipher"})
        /\ \A l \in steady[r] : IsUnder(path[r], l[1]) => <<l, "plain">> \in ListedUnder(path[r])
    BY <1>1, ListIsComplete
  <2> QED
    BY <1>2, <1>3, <2>1, AnswerKeeps DEF List
<1>4. CASE Answer(r, "forbidden", {})
  BY <1>4, AnswerKeeps DEF List
<1> QED
  BY <1>3, <1>4 DEF List

LEMMA GetVersionsKeeps ==
    ASSUME IInv, NEW r \in Requests, GetVersions(r)
    PROVE  IInv'
<1> DEFINE what ==
             {<<Key(r), DecryptedIfItCan(kvVersions[Key(r)][v])>> : v \in Recorded(r)}
<1>1. CASE Answer(r, "versions", what)
  <2>1. what \in SUBSET (Loc \X {"plain", "cipher"})
    BY DEF Recorded, DecryptedIfItCan, Decrypted
  <2> HIDE DEF what
  <2> QED
    BY <1>1, <2>1, AnswerKeeps DEF GetVersions
<1>2. CASE Answer(r, "forbidden", {})
  BY <1>2, AnswerKeeps DEF GetVersions
<1> QED
  BY <1>1, <1>2 DEF GetVersions

----------------------------------------------------------------------------
LEMMA NextKeepsIInv == IInv /\ [Next]_vars => IInv'
<1> SUFFICES ASSUME IInv, [Next]_vars PROVE IInv'
  OBVIOUS
<1>1. ASSUME NEW r \in Requests, NEW t \in Tokens, NEW p \in Asked, AskForVersions(r, t, p)
      PROVE  IInv'
  <2>1. 0 \in 0 .. MaxVersion /\ Ask(r, t, p, 0, "versions")
    BY <1>1, StoreConstants DEF AskForVersions
  <2> QED
    BY <2>1, AskKeeps
<1>2. ASSUME NEW r \in Requests, NEW t \in Tokens, NEW p \in Asked,
             NEW v \in 0 .. MaxVersion, AskForPath(r, t, p, v)
      PROVE  IInv'
  <2>1. CASE Len(p) >= 2 /\ HasAccess(t, Front(p)) /\ v # 0
    BY <1>2, <2>1, AskKeeps DEF AskForPath
  <2>2. CASE Len(p) >= 2 /\ HasAccess(t, Front(p)) /\ v = 0
    BY <1>2, <2>2, AskKeeps DEF AskForPath
  <2>3. CASE ~(Len(p) >= 2 /\ HasAccess(t, Front(p)))
    BY <1>2, <2>3, AskKeeps DEF AskForPath
  <2> QED
    BY <2>1, <2>2, <2>3
<1>3. CASE UNCHANGED vars
  <2>1. Reads /\ UNCHANGED <<pc, answers>>
    BY <1>3 DEF vars, Reads
  <2> QED
    BY <2>1, ReadsLeave DEF IInv, answers, TypeOK, SteadyIsThere, KeyIsNotSteady,
                            FoundIfThere, ValuesArePlain
<1> QED
  BY <1>1, <1>2, <1>3, WriteKeeps, RestartKeeps, GetVersionKeeps, GetKeeps,
     GetNamespaceKeeps, ListKeeps, GetVersionsKeeps
     DEF Next

LEMMA InvariantHolds == Spec => []IInv
BY IInit, NextKeepsIInv, PTL DEF Spec

\* The store and the requests keep their types, whoever reads and writes.
THEOREM TypeCorrect == Spec => []TypeOK
<1>1. IInv => TypeOK
  BY DEF IInv
<1> QED
  BY <1>1, InvariantHolds, PTL

\* A path that is a key or a namespace for the whole of a request is found as what it
\* is, and a list misses nothing that is there all along, though the handler takes up
\* to three transactions (handlers.go:217-247).
THEOREM NothingSteadyIsMissed == Spec => []FoundIfThere
<1>1. IInv => FoundIfThere
  BY DEF IInv
<1> QED
  BY <1>1, InvariantHolds, PTL

\* Who asks for one value never gets a ciphertext for it, and nobody an empty value
\* for a secret, after any restart with any key: where the engine uses what Decrypt
\* gives, it has looked at the error before.
THEOREM SingleValuesArePlain == Spec => []ValuesArePlain
<1>1. IInv => ValuesArePlain
  BY DEF IInv
<1> QED
  BY <1>1, InvariantHolds, PTL
=============================================================================
