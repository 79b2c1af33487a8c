---------------------------- MODULE TokenService ----------------------------
(***************************************************************************)
(* Authentication tokens: internal/auth/auth.go over the tokens bucket,    *)
(* with the handlers that create and revoke tokens.                        *)
(*                                                                         *)
(* Every HTTP request runs in a goroutine of its own.  A request reads its *)
(* caller's token once, in Middleware, and works with that copy; a         *)
(* revocation is three transactions (GetToken, ListTokens, DeleteToken)    *)
(* that other requests may come between.                                   *)
(***************************************************************************)
EXTENDS Naturals, FiniteSets

CONSTANTS
    TokenIds,       \* the random token strings
    Never,          \* an absent expiry
    NoToken,        \* "no such key" in the tokens bucket
    Requests,       \* request goroutines
    Revokers,       \* those of them that may call the revoke endpoint
    Bodies,         \* the create-token bodies a caller may send
    MaxTime         \* bound on the clock

None == "none"      \* an empty role, or a request that names no token

Roles == {"admin", "developer", "viewer", "operator"}

Permissions == {"read", "write", "delete", "manage_tokens", "manage_roles",
                "view_audit", "manage_namespaces"}

\* GetDefaultRoles
RolePermissions ==
    [admin     |-> Permissions,
     developer |-> {"read", "write", "delete"},
     viewer    |-> {"read"},
     operator  |-> {"read", "write", "delete", "view_audit"}]

\* What a token record says: its role, whether it has scopes, whether its
\* metadata has type = root, and when it expires.
Token == [role : Roles \cup {None}, scoped : BOOLEAN, rootType : BOOLEAN,
          expiresAt : Nat \cup {Never}]

ASSUME TokensAreFinite == IsFiniteSet(TokenIds) /\ NoToken \notin Token
ASSUME NoneIsNoToken == None \notin TokenIds
ASSUME RevokersAreRequests == Revokers \subseteq Requests
ASSUME BodiesAreBodies ==
    Bodies \subseteq [role : STRING, scoped : BOOLEAN, rootType : BOOLEAN,
                      lifetime : Nat \cup {Never}]
ASSUME MaxTimeIsNat == MaxTime \in Nat

VARIABLES
    tokens,     \* bucket tokens
    minted,     \* the token strings ever generated (random, never repeated)
    clock,      \* wall-clock time
    up,         \* whether the server runs
    pc,         \* where each request is
    caller,     \* the token record Middleware put into the request's context
    target      \* the token string a revocation is about

vars == <<tokens, minted, clock, up, pc, caller, target>>

TypeOK ==
    /\ tokens \in [TokenIds -> Token \cup {NoToken}]
    /\ minted \subseteq TokenIds
    /\ clock \in 0 .. MaxTime
    /\ up \in BOOLEAN
    /\ pc \in [Requests -> {"idle", "authorized", "list", "delete"}]
    /\ caller \in [Requests -> Token \cup {NoToken}]
    /\ target \in [Requests -> TokenIds \cup {None}]

Stored == {t \in TokenIds : tokens[t] # NoToken}

HasPermission(token, permission) ==
    \/ ~token.scoped /\ token.role = None
    \/ token.role \in Roles /\ permission \in RolePermissions[token.role]

IsRootToken(token) ==
    \/ token.rootType
    \/ token.role = "admin"
    \/ token.role = None /\ ~token.scoped

RootIds == {t \in Stored : IsRootToken(tokens[t])}

\* ValidateToken: stored, and not past its expiry.
IsValid(t) ==
    /\ t \in Stored
    /\ tokens[t].expiresAt # Never => clock <= tokens[t].expiresAt

----------------------------------------------------------------------------
Init ==
    /\ tokens = [t \in TokenIds |-> NoToken]
    /\ minted = {}
    /\ clock = 0
    /\ up = FALSE
    /\ pc = [r \in Requests |-> "idle"]
    /\ caller = [r \in Requests |-> NoToken]
    /\ target = [r \in Requests |-> None]

RequestVars == <<pc, caller, target>>

\* The end of request r: its context is gone.
Finish(r) ==
    /\ pc' = [pc EXCEPT ![r] = "idle"]
    /\ caller' = [caller EXCEPT ![r] = NoToken]
    /\ target' = [target EXCEPT ![r] = None]

\* SaveToken, the only writer of token records, under a new random string.
SaveNewToken(token) ==
    \E t \in TokenIds \ minted :
        /\ tokens' = [tokens EXCEPT ![t] = token]
        /\ minted' = minted \cup {t}

\* keyrafted init.  The database file lock keeps a running server and a second
\* init out until it is done.
InitializeRootToken ==
    /\ ~up
    /\ Stored = {}
    /\ SaveNewToken([role |-> "admin", scoped |-> FALSE, rootType |-> TRUE,
                     expiresAt |-> Never])
    /\ UNCHANGED <<clock, up, RequestVars>>

\* keyrafted start refuses a database without tokens.
Start ==
    /\ ~up
    /\ Stored # {}
    /\ up' = TRUE
    /\ UNCHANGED <<tokens, minted, clock, RequestVars>>

\* The process dies, and its requests with it; the database stays.
Crash ==
    /\ up
    /\ up' = FALSE
    /\ pc' = [r \in Requests |-> "idle"]
    /\ caller' = [r \in Requests |-> NoToken]
    /\ target' = [r \in Requests |-> None]
    /\ UNCHANGED <<tokens, minted, clock>>

Tick ==
    /\ clock < MaxTime
    /\ clock' = clock + 1
    /\ UNCHANGED <<tokens, minted, up, RequestVars>>

\* Middleware: a token that is not valid gets a 401 and changes nothing.
Middleware(r, t) ==
    /\ up
    /\ pc[r] = "idle"
    /\ IsValid(t)
    /\ pc' = [pc EXCEPT ![r] = "authorized"]
    /\ caller' = [caller EXCEPT ![r] = tokens[t]]
    /\ UNCHANGED <<tokens, minted, clock, up, target>>

\* A request on another endpoint, or one a handler turns down.
Respond(r) ==
    /\ pc[r] = "authorized"
    /\ Finish(r)
    /\ UNCHANGED <<tokens, minted, clock, up>>

\* GenerateToken's record for a body accepted at the current time.
TokenOf(body) ==
    [role |-> body.role, scoped |-> body.scoped, rootType |-> body.rootType,
     expiresAt |-> IF body.lifetime = Never THEN Never
                                            ELSE clock + body.lifetime]

\* handleCreateToken wants a role or scopes and not both; GenerateToken wants a
\* role it knows.
AcceptsBody(body) ==
    /\ body.role \in Roles \cup {None}
    /\ body.role = None <=> body.scoped

HandleCreateToken(r, body) ==
    /\ pc[r] = "authorized"
    /\ HasPermission(caller[r], "manage_tokens")
    /\ AcceptsBody(body)
    /\ SaveNewToken(TokenOf(body))
    /\ Finish(r)
    /\ UNCHANGED <<clock, up>>

\* RevokeToken, first transaction: GetToken.  An unknown string is a 404.
RevokeGet(r, t) ==
    /\ r \in Revokers
    /\ pc[r] = "authorized"
    /\ HasPermission(caller[r], "manage_tokens")
    /\ t \in Stored
    /\ target' = [target EXCEPT ![r] = t]
    /\ pc' = [pc EXCEPT ![r] =
                 IF IsRootToken(tokens[t]) THEN "list" ELSE "delete"]
    /\ UNCHANGED <<tokens, minted, clock, up, caller>>

\* Mutant: the token being revoked counts as its own replacement.
EnoughRootsForAny == Cardinality(RootIds) >= 1

EnoughRoots == Cardinality(RootIds) > 1

\* Second transaction, for a root token: ListTokens and the count.
RevokeList(r) ==
    /\ pc[r] = "list"
    /\ IF EnoughRoots
       THEN pc' = [pc EXCEPT ![r] = "delete"] /\ UNCHANGED <<caller, target>>
       ELSE Finish(r)
    /\ UNCHANGED <<tokens, minted, clock, up>>

\* Mutant: the revoked record is written back, marked as expired.
RevokeByExpiry(r) ==
    /\ pc[r] = "delete"
    /\ tokens' = [tokens EXCEPT ![target[r]] =
                     [role |-> None, scoped |-> TRUE, rootType |-> FALSE,
                      expiresAt |-> clock]]
    /\ Finish(r)
    /\ UNCHANGED <<minted, clock, up>>

\* Third transaction: DeleteToken, which does not mind an absent record.
RevokeDelete(r) ==
    /\ pc[r] = "delete"
    /\ tokens' = [tokens EXCEPT ![target[r]] = NoToken]
    /\ Finish(r)
    /\ UNCHANGED <<minted, clock, up>>

Next ==
    \/ InitializeRootToken \/ Start \/ Crash \/ Tick
    \/ \E r \in Requests :
         \/ Respond(r) \/ RevokeList(r) \/ RevokeDelete(r)
         \/ \E t \in TokenIds : Middleware(r, t) \/ RevokeGet(r, t)
         \/ \E body \in Bodies : HandleCreateToken(r, body)

Spec == Init /\ [][Next]_vars

\* The process is restarted when it has died.
FairSpec == Spec /\ WF_vars(Start)

----------------------------------------------------------------------------
(* Properties.                                                             *)

\* RevokeToken "refuses if it is the last root/admin token": from the first
\* init on, some token that counts as root is stored.  It takes the count, the
\* deletion, concurrent creations, crashes and re-initialisation to agree.
RootRemains == minted # {} => RootIds # {}

\* A token record is written once: while it is stored, the copy of it a request
\* took in Middleware is what the store says.
RecordsNeverChange ==
    \A t \in Stored : tokens'[t] \in {tokens[t], NoToken}

TokensAreWriteOnce == [][RecordsNeverChange]_vars

\* An initialised server that dies comes back: start never meets an empty
\* tokens bucket, which only a second init (and no API call) could repair.
ServerComesBack == minted # {} /\ ~up ~> up

============================================================================
