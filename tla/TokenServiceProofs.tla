------------------------- MODULE TokenServiceProofs -------------------------
(***************************************************************************)
(* Proofs about TokenService, for every set of tokens, requests and bodies *)
(* and every bound on the clock.                                           *)
(***************************************************************************)
EXTENDS TokenService, FiniteSetTheorems, TLAPS

\* While a revocation is between its checks and its deletion, a root token
\* other than the one it deletes is stored.  This is what makes RootRemains
\* inductive; it breaks when a second revoker deletes that other token.
AnotherRootRemains ==
    \A r \in Requests : pc[r] = "delete" =>
        \E u \in RootIds : u # target[r]

RevocationsInFlight ==
    \A r \in Requests : pc[r] \in {"list", "delete"} =>
        r \in Revokers /\ target[r] \in TokenIds

\* No record without a generated token string.
StoredAreMinted == Stored \subseteq minted

\* Only a stored token gets a request past Middleware.
RequestsCameAfterInit ==
    \A r \in Requests : pc[r] # "idle" => minted # {}

IInv ==
    /\ TypeOK
    /\ StoredAreMinted
    /\ RequestsCameAfterInit
    /\ RevocationsInFlight
    /\ RootRemains
    /\ AnotherRootRemains

----------------------------------------------------------------------------
(* Type correctness, whatever the revokers.                                *)

LEMMA BodyGivesToken ==
    ASSUME clock \in Nat, NEW body \in Bodies, AcceptsBody(body)
    PROVE  TokenOf(body) \in Token
<1>1. /\ body.role \in Roles \cup {None}
      /\ body.scoped \in BOOLEAN
      /\ body.rootType \in BOOLEAN
      /\ body.lifetime \in Nat \cup {Never}
  BY BodiesAreBodies DEF AcceptsBody
<1> DEFINE e == IF body.lifetime = Never THEN Never ELSE clock + body.lifetime
<1>2. e \in Nat \cup {Never}
  BY <1>1
<1>3. TokenOf(body) = [role |-> body.role, scoped |-> body.scoped,
                       rootType |-> body.rootType, expiresAt |-> e]
  BY DEF TokenOf
<1> HIDE DEF e
<1>4. QED
  BY <1>1, <1>2, <1>3 DEF Token

\* What storing a new record does.
LEMMA SaveEffect ==
    ASSUME TypeOK, NEW token \in Token, SaveNewToken(token)
    PROVE  \E t \in TokenIds \ minted :
             /\ tokens' = [tokens EXCEPT ![t] = token]
             /\ tokens' \in [TokenIds -> Token \cup {NoToken}]
             /\ minted' = minted \cup {t}
             /\ minted' \subseteq TokenIds
             /\ Stored' = Stored \cup {t}
<1>1. PICK t \in TokenIds \ minted :
           /\ tokens' = [tokens EXCEPT ![t] = token]
           /\ minted' = minted \cup {t}
  BY DEF SaveNewToken
<1>2. tokens' \in [TokenIds -> Token \cup {NoToken}]
  BY <1>1 DEF TypeOK
<1>3. minted' \subseteq TokenIds
  BY <1>1 DEF TypeOK
<1>4. /\ tokens'[t] # NoToken
      /\ \A u \in TokenIds : u # t => tokens'[u] = tokens[u]
  BY <1>1, TokensAreFinite DEF TypeOK
<1>5. Stored' = Stored \cup {t}
  BY <1>4 DEF Stored
<1>6. QED
  BY <1>1, <1>2, <1>3, <1>5

LEMMA RootTokenIsToken ==
    [role |-> "admin", scoped |-> FALSE, rootType |-> TRUE,
     expiresAt |-> Never] \in Token
BY DEF Token, Roles

LEMMA FinishTypes ==
    ASSUME TypeOK, NEW r \in Requests, Finish(r)
    PROVE  /\ pc' \in [Requests -> {"idle", "authorized", "list", "delete"}]
           /\ caller' \in [Requests -> Token \cup {NoToken}]
           /\ target' \in [Requests -> TokenIds \cup {None}]
BY DEF Finish, TypeOK

LEMMA NextKeepsTypeOK == TypeOK /\ [Next]_vars => TypeOK'
<1> SUFFICES ASSUME TypeOK, [Next]_vars
             PROVE  TypeOK'
  OBVIOUS
<1> USE MaxTimeIsNat
<1>1. CASE InitializeRootToken
  <2>1. /\ tokens' \in [TokenIds -> Token \cup {NoToken}]
        /\ minted' \subseteq TokenIds
    BY <1>1, RootTokenIsToken, SaveEffect DEF InitializeRootToken
  <2>2. QED
    BY <1>1, <2>1 DEF InitializeRootToken, RequestVars, TypeOK
<1>2. CASE Start
  BY <1>2 DEF Start, RequestVars, TypeOK
<1>3. CASE Crash
  BY <1>3 DEF Crash, TypeOK
<1>4. CASE Tick
  BY <1>4 DEF Tick, RequestVars, TypeOK
<1>5. ASSUME NEW r \in Requests, NEW t \in TokenIds, Middleware(r, t)
      PROVE  TypeOK'
  <2>1. tokens[t] \in Token
    BY <1>5 DEF Middleware, IsValid, Stored, TypeOK
  <2>2. QED
    BY <1>5, <2>1 DEF Middleware, TypeOK
<1>6. ASSUME NEW r \in Requests, Respond(r)
      PROVE  TypeOK'
  BY <1>6, FinishTypes DEF Respond, TypeOK
<1>7. ASSUME NEW r \in Requests, NEW body \in Bodies, HandleCreateToken(r, body)
      PROVE  TypeOK'
  <2>1. TokenOf(body) \in Token
    BY <1>7, BodyGivesToken DEF HandleCreateToken, TypeOK
  <2>2. /\ tokens' \in [TokenIds -> Token \cup {NoToken}]
        /\ minted' \subseteq TokenIds
    BY <1>7, <2>1, SaveEffect DEF HandleCreateToken
  <2>3. QED
    BY <1>7, <2>2, FinishTypes DEF HandleCreateToken, TypeOK
<1>8. ASSUME NEW r \in Requests, NEW t \in TokenIds, RevokeGet(r, t)
      PROVE  TypeOK'
  BY <1>8 DEF RevokeGet, TypeOK
<1>9. ASSUME NEW r \in Requests, RevokeList(r)
      PROVE  TypeOK'
  <2>1. CASE EnoughRoots
    BY <1>9, <2>1 DEF RevokeList, TypeOK
  <2>2. CASE ~EnoughRoots
    BY <1>9, <2>2, FinishTypes DEF RevokeList, TypeOK
  <2>3. QED
    BY <2>1, <2>2
<1>10. ASSUME NEW r \in Requests, RevokeDelete(r)
       PROVE  TypeOK'
  <2>1. tokens' \in [TokenIds -> Token \cup {NoToken}]
    BY <1>10 DEF RevokeDelete, TypeOK
  <2>2. QED
    BY <1>10, <2>1, FinishTypes DEF RevokeDelete, TypeOK
<1>11. CASE UNCHANGED vars
  BY <1>11 DEF vars, TypeOK
<1>12. QED
  BY <1>1, <1>2, <1>3, <1>4, <1>5, <1>6, <1>7, <1>8, <1>9, <1>10, <1>11
     DEF Next

LEMMA InitTypeOK == Init => TypeOK
<1> SUFFICES ASSUME Init PROVE TypeOK
  OBVIOUS
<1>1. tokens \in [TokenIds -> Token \cup {NoToken}] /\ minted \subseteq TokenIds
  BY DEF Init
<1>2. clock \in 0 .. MaxTime
  BY MaxTimeIsNat DEF Init
<1>3. up \in BOOLEAN
  BY DEF Init
<1>4. pc \in [Requests -> {"idle", "authorized", "list", "delete"}]
  BY DEF Init
<1>5. /\ caller \in [Requests -> Token \cup {NoToken}]
      /\ target \in [Requests -> TokenIds \cup {None}]
  BY DEF Init
<1>6. QED
  BY <1>1, <1>2, <1>3, <1>4, <1>5 DEF TypeOK

\* The bucket and the request contexts hold what their types allow, however
\* many revokers there are.
THEOREM TypeCorrect == Spec => []TypeOK
<1>1. QED
  BY InitTypeOK, NextKeepsTypeOK, PTL DEF Spec

----------------------------------------------------------------------------
(* Write-once records.                                                     *)

LEMMA NextKeepsRecords ==
    TypeOK /\ StoredAreMinted /\ [Next]_vars =>
        StoredAreMinted' /\ [RecordsNeverChange]_vars
<1> SUFFICES ASSUME TypeOK, StoredAreMinted, [Next]_vars
             PROVE  StoredAreMinted' /\ RecordsNeverChange
  OBVIOUS
<1>1. ASSUME NEW token \in Token, SaveNewToken(token)
      PROVE  StoredAreMinted' /\ RecordsNeverChange
  <2>1. PICK t \in TokenIds \ minted :
             /\ tokens' = [tokens EXCEPT ![t] = token]
             /\ minted' = minted \cup {t}
             /\ Stored' = Stored \cup {t}
    BY <1>1, SaveEffect
  <2>2. t \notin Stored
    BY DEF StoredAreMinted
  <2>3. \A u \in Stored : tokens'[u] = tokens[u]
    BY <2>1, <2>2 DEF TypeOK, Stored
  <2>4. QED
    BY <2>1, <2>3 DEF StoredAreMinted, RecordsNeverChange
<1>2. ASSUME UNCHANGED <<tokens, minted>>
      PROVE  StoredAreMinted' /\ RecordsNeverChange
  BY <1>2 DEF StoredAreMinted, Stored, RecordsNeverChange
<1>3. CASE InitializeRootToken
  BY <1>1, <1>3, RootTokenIsToken DEF InitializeRootToken
<1>4. CASE Start \/ Crash \/ Tick
  BY <1>2, <1>4 DEF Start, Crash, Tick
<1>5. ASSUME NEW r \in Requests, NEW body \in Bodies, HandleCreateToken(r, body)
      PROVE  StoredAreMinted' /\ RecordsNeverChange
  <2>1. TokenOf(body) \in Token
    BY <1>5, BodyGivesToken, MaxTimeIsNat DEF HandleCreateToken, TypeOK
  <2>2. QED
    BY <1>1, <1>5, <2>1 DEF HandleCreateToken
<1>6. ASSUME NEW r \in Requests, RevokeDelete(r)
      PROVE  StoredAreMinted' /\ RecordsNeverChange
  <2>1. \A t \in TokenIds : tokens'[t] \in {tokens[t], NoToken}
    BY <1>6 DEF RevokeDelete, TypeOK
  <2>2. minted' = minted
    BY <1>6 DEF RevokeDelete
  <2>3. QED
    BY <2>1, <2>2 DEF StoredAreMinted, Stored, RecordsNeverChange
<1>7. ASSUME NEW r \in Requests, NEW t \in TokenIds,
             \/ Middleware(r, t) \/ RevokeGet(r, t)
             \/ Respond(r) \/ RevokeList(r)
      PROVE  StoredAreMinted' /\ RecordsNeverChange
  BY <1>2, <1>7 DEF Middleware, RevokeGet, Respond, RevokeList
<1>8. ASSUME NEW r \in Requests, Respond(r) \/ RevokeList(r)
      PROVE  StoredAreMinted' /\ RecordsNeverChange
  BY <1>2, <1>8 DEF Respond, RevokeList
<1>9. CASE UNCHANGED vars
  BY <1>2, <1>9 DEF vars
<1>10. QED
  BY <1>3, <1>4, <1>5, <1>6, <1>7, <1>8, <1>9 DEF Next

\* A request's copy of its caller's token is never out of date with a record
\* that is still stored, however many revokers there are.
THEOREM RecordsAreWriteOnce == Spec => TokensAreWriteOnce
<1>1. Init => StoredAreMinted
  BY DEF Init, StoredAreMinted, Stored
<1>2. QED
  BY <1>1, TypeCorrect, NextKeepsRecords, PTL DEF Spec, TokensAreWriteOnce

----------------------------------------------------------------------------
(* The last root token, with one revocation at a time.                     *)

\* More than one root means one besides any given token.
LEMMA OneBesides ==
    ASSUME EnoughRoots, NEW t
    PROVE  \E u \in RootIds : u # t
<1> SUFFICES ASSUME RootIds \subseteq {t}
             PROVE  FALSE
  OBVIOUS
<1>1. IsFiniteSet({t}) /\ Cardinality({t}) = 1
  BY FS_Singleton
<1>2. Cardinality(RootIds) <= 1
  BY <1>1, FS_Subset
<1>3. Cardinality(RootIds) \in Nat
  BY <1>1, FS_Subset, FS_CardinalityType
<1>4. QED
  BY <1>2, <1>3 DEF EnoughRoots

\* A step that only adds records keeps every root.
LEMMA SaveKeepsRoots ==
    ASSUME TypeOK, StoredAreMinted, NEW token \in Token, SaveNewToken(token)
    PROVE  RootIds \subseteq RootIds'
<1>1. PICK t \in TokenIds \ minted :
           /\ tokens' = [tokens EXCEPT ![t] = token]
           /\ Stored' = Stored \cup {t}
  BY SaveEffect
<1>2. \A u \in Stored : tokens'[u] = tokens[u]
  BY <1>1 DEF StoredAreMinted, TypeOK, Stored
<1>3. QED
  BY <1>1, <1>2 DEF RootIds

LEMMA NextKeepsIInv ==
    ASSUME \A r, s \in Revokers : r = s
    PROVE  IInv /\ [Next]_vars => IInv'
<1> SUFFICES ASSUME IInv, [Next]_vars
             PROVE  IInv'
  OBVIOUS
<1>1. TypeOK' /\ StoredAreMinted'
  BY NextKeepsTypeOK, NextKeepsRecords DEF IInv
<1>2. TypeOK /\ StoredAreMinted
  BY DEF IInv
<1>a. RequestsCameAfterInit'
  <2>1. minted \subseteq minted'
    BY DEF Next, vars, InitializeRootToken, Start, Crash, Tick, Respond,
       RevokeList, RevokeDelete, Middleware, RevokeGet, HandleCreateToken,
       SaveNewToken
  <2>2. SUFFICES ASSUME NEW r \in Requests, pc[r] = "idle", pc'[r] # "idle"
                 PROVE  minted' # {}
    BY <2>1 DEF IInv, RequestsCameAfterInit
  <2>3. PICK s \in Requests, t \in TokenIds : Middleware(s, t)
    BY <1>2, <2>2 DEF Next, vars, RequestVars, InitializeRootToken, Start,
       Crash, Tick, Respond, RevokeList, RevokeDelete, RevokeGet,
       HandleCreateToken, Finish, TypeOK
  <2>4. t \in minted
    BY <1>2, <2>3 DEF Middleware, IsValid, StoredAreMinted
  <2>5. QED
    BY <2>1, <2>4
<1> SUFFICES RevocationsInFlight' /\ RootRemains' /\ AnotherRootRemains'
  BY <1>a, <1>1 DEF IInv
<1>3. ASSUME NEW r \in Requests, Finish(r), RootIds \subseteq RootIds',
             minted # {} \/ RootIds' # {} \/ minted' = minted
      PROVE  RevocationsInFlight' /\ RootRemains' /\ AnotherRootRemains'
  <2>1. \A s \in Requests : s # r => pc'[s] = pc[s] /\ target'[s] = target[s]
    BY <1>2, <1>3 DEF Finish, TypeOK
  <2>2. pc'[r] = "idle"
    BY <1>2, <1>3 DEF Finish, TypeOK
  <2>3. RevocationsInFlight' /\ AnotherRootRemains'
    BY <1>3, <2>1, <2>2 DEF IInv, RevocationsInFlight, AnotherRootRemains
  <2>4. RootRemains'
    BY <1>3 DEF IInv, RootRemains
  <2>5. QED
    BY <2>3, <2>4
<1>4. CASE InitializeRootToken
  <2> DEFINE root == [role |-> "admin", scoped |-> FALSE, rootType |-> TRUE,
                      expiresAt |-> Never]
  <2>1. SaveNewToken(root) /\ root \in Token
    BY <1>4, RootTokenIsToken DEF InitializeRootToken
  <2>2. RootIds \subseteq RootIds'
    BY <1>2, <2>1, SaveKeepsRoots
  <2>3. RootIds' # {}
    <3>1. PICK t \in TokenIds \ minted :
               /\ tokens' = [tokens EXCEPT ![t] = root]
               /\ Stored' = Stored \cup {t}
      BY <1>2, <2>1, SaveEffect
    <3>2. tokens'[t] = root
      BY <1>2, <3>1 DEF TypeOK
    <3>3. IsRootToken(tokens'[t])
      BY <3>2 DEF IsRootToken
    <3>4. QED
      BY <3>1, <3>3 DEF RootIds
  <2>4. QED
    BY <1>4, <2>2, <2>3 DEF InitializeRootToken, RequestVars, IInv,
       RevocationsInFlight, AnotherRootRemains, RootRemains
<1>5. CASE Start \/ Tick
  BY <1>5 DEF Start, Tick, RequestVars, IInv, RevocationsInFlight,
              AnotherRootRemains, RootRemains, RootIds, Stored
<1>6. CASE Crash
  BY <1>6 DEF Crash, IInv, RevocationsInFlight,
              AnotherRootRemains, RootRemains, RootIds, Stored
<1>7. ASSUME NEW r \in Requests, NEW t \in TokenIds, Middleware(r, t)
      PROVE  RevocationsInFlight' /\ RootRemains' /\ AnotherRootRemains'
  BY <1>2, <1>7 DEF Middleware, IInv, TypeOK, RevocationsInFlight,
              AnotherRootRemains, RootRemains, RootIds, Stored
<1>8. ASSUME NEW r \in Requests, Respond(r)
      PROVE  RevocationsInFlight' /\ RootRemains' /\ AnotherRootRemains'
  BY <1>3, <1>8 DEF Respond, RootIds, Stored
<1>9. ASSUME NEW r \in Requests, NEW body \in Bodies, HandleCreateToken(r, body)
      PROVE  RevocationsInFlight' /\ RootRemains' /\ AnotherRootRemains'
  <2>1. TokenOf(body) \in Token
    BY <1>2, <1>9, BodyGivesToken, MaxTimeIsNat DEF HandleCreateToken, TypeOK
  <2>2. RootIds \subseteq RootIds'
    BY <1>2, <1>9, <2>1, SaveKeepsRoots DEF HandleCreateToken
  <2>3. minted # {}
    BY <1>9 DEF HandleCreateToken, IInv, RequestsCameAfterInit
  <2>4. QED
    BY <1>3, <1>9, <2>2, <2>3 DEF HandleCreateToken
<1>10. ASSUME NEW r \in Requests, NEW t \in TokenIds, RevokeGet(r, t)
       PROVE  RevocationsInFlight' /\ RootRemains' /\ AnotherRootRemains'
  <2>1. /\ r \in Revokers
        /\ t \in Stored
        /\ target'[r] = t
        /\ pc'[r] = IF IsRootToken(tokens[t]) THEN "list" ELSE "delete"
        /\ \A s \in Requests : s # r => pc'[s] = pc[s] /\ target'[s] = target[s]
        /\ UNCHANGED <<tokens, minted>>
    BY <1>2, <1>10 DEF RevokeGet, TypeOK
  <2>2. RootIds' = RootIds /\ RootRemains'
    BY <2>1 DEF IInv, RootRemains, RootIds, Stored
  <2>3. RevocationsInFlight'
    BY <2>1 DEF IInv, RevocationsInFlight
  <2>4. RootIds # {}
    BY <1>2, <2>1 DEF IInv, StoredAreMinted, RootRemains
  <2>5. AnotherRootRemains'
    BY <2>1, <2>2, <2>4 DEF IInv, AnotherRootRemains, RootIds
  <2>6. QED
    BY <2>2, <2>3, <2>5
<1>11. ASSUME NEW r \in Requests, RevokeList(r)
       PROVE  RevocationsInFlight' /\ RootRemains' /\ AnotherRootRemains'
  <2>1. RootIds' = RootIds /\ UNCHANGED minted
    BY <1>11 DEF RevokeList, RootIds, Stored
  <2>2. CASE EnoughRoots
    <3>1. /\ pc[r] = "list"
          /\ pc' = [pc EXCEPT ![r] = "delete"]
          /\ UNCHANGED target
      BY <1>11, <2>2 DEF RevokeList
    <3>2. \E u \in RootIds : u # target[r]
      BY <2>2, OneBesides
    <3>3. QED
      BY <1>2, <2>1, <3>1, <3>2 DEF IInv, TypeOK, RevocationsInFlight,
         AnotherRootRemains, RootRemains
  <2>3. CASE ~EnoughRoots
    BY <1>3, <1>11, <2>1, <2>3 DEF RevokeList
  <2>4. QED
    BY <2>2, <2>3
<1>12. ASSUME NEW r \in Requests, RevokeDelete(r)
       PROVE  RevocationsInFlight' /\ RootRemains' /\ AnotherRootRemains'
  <2>1. PICK u \in RootIds : u # target[r]
    BY <1>12 DEF RevokeDelete, IInv, AnotherRootRemains
  <2>2. u \in RootIds'
    BY <1>2, <1>12, <2>1 DEF RevokeDelete, TypeOK, RootIds, Stored
  <2>3. \A s \in Requests : s # r => pc[s] # "delete" /\ pc[s] # "list"
    BY <1>12 DEF RevokeDelete, IInv, RevocationsInFlight
  <2>4. /\ pc'[r] = "idle"
        /\ \A s \in Requests : s # r => pc'[s] = pc[s]
    BY <1>2, <1>12 DEF RevokeDelete, Finish, TypeOK
  <2>5. QED
    BY <2>2, <2>3, <2>4 DEF RevocationsInFlight, RootRemains,
       AnotherRootRemains
<1>13. CASE UNCHANGED vars
  BY <1>13 DEF vars, IInv, RevocationsInFlight, AnotherRootRemains,
               RootRemains, RootIds, Stored
<1>14. QED
  BY <1>4, <1>5, <1>6, <1>7, <1>8, <1>9, <1>10, <1>11, <1>12, <1>13 DEF Next

\* When revocations do not overlap, the last root token is never revoked,
\* whatever else runs meanwhile: RevokeToken's promise holds.  (Two overlapping
\* revocations break it: run tokens_two_revokers.)
THEOREM LastRootIsKept ==
    ASSUME \A r, s \in Revokers : r = s
    PROVE  Spec => []RootRemains
<1>1. Init => IInv
  BY InitTypeOK DEF Init, IInv, StoredAreMinted, Stored, RequestsCameAfterInit,
     RevocationsInFlight, RootRemains, AnotherRootRemains
<1>2. IInv /\ [Next]_vars => IInv'
  BY NextKeepsIInv
<1>3. IInv => RootRemains
  BY DEF IInv
<1>4. QED
  BY <1>1, <1>2, <1>3, PTL DEF Spec
============================================================================
