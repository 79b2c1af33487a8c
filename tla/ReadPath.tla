------------------------------ MODULE ReadPath ------------------------------
(***************************************************************************)
(* The handlers that read keys, handleListKeys and handleListVersions,     *)
(* over the engine, which decrypts, and the store.                         *)
(*                                                                         *)
(* GET /v1/kv/a/b may mean the key b of a or the namespace a/b.  The       *)
(* handler asks for the key, then for the namespace, then for the keys     *)
(* below it, in three transactions that writers may come between.  A       *)
(* server that is started with another master key cannot decrypt the       *)
(* secrets of the one before.                                              *)
(***************************************************************************)
EXTENDS Names, SequencesExt

CONSTANTS
    MaxVersion, NoEntry, NoVersion,     \* see KVStore
    MasterKeys,     \* the keys the server may be started with
    Config,         \* what a value is that is not encrypted (or is empty)
    KeyLike,        \* the last segments that look like the name of a key
    Tokens,         \* the tokens callers have
    Asked,          \* the paths they ask for
    Requests        \* request goroutines

Roles == {"admin", "developer", "viewer", "operator"}
NoRole == "none"

\* A scope names a namespace, or with below ("/*") it and all that are nested in it.
Scope == [ns : Seq(STRING), below : BOOLEAN, read : BOOLEAN]

ASSUME ConfigIsNoKey == Config \notin MasterKeys
ASSUME StoreConstants ==
    /\ MaxVersion \in Nat \ {0}
    /\ NoVersion \notin MasterKeys \cup {Config}
    /\ NoEntry \notin [value : MasterKeys \cup {Config}, version : 1 .. MaxVersion,
                        isDeleted : BOOLEAN]
ASSUME TokensAreTokens ==
    \A t \in Tokens : t.role \in STRING /\ t.scopes \in Seq(Scope)
ASSUME PathsAreAsked == \A path \in Asked : path \in Seq(STRING) /\ path # << >>

VARIABLES
    namespaces, kvData, kvVersions, meta,   \* the store: see KVStore
    master,     \* the key of the running server
    pc,         \* where a request is
    token,      \* the token of its caller
    path,       \* the path it asks for
    version,    \* the version it asks for, or 0
    status,     \* its answer
    shown,      \* the locations the answer shows, and how
    steady,     \* those it could have shown at every moment since it began
    exists      \* whether the path has been a namespace at every such moment

\* A value of the store stands for the key that encrypts it.
Store == INSTANCE KVStore WITH Values <- MasterKeys \cup {Config}

storeVars == <<namespaces, kvData, kvVersions, meta>>
asks == <<token, path, version>>
answers == <<status, shown>>
vars == <<storeVars, master, pc, asks, answers, steady, exists>>

TypeOK ==
    /\ Store!TypeOK
    /\ master \in MasterKeys
    /\ pc \in [Requests -> {"idle", "version", "get", "namespace", "list", "versions"}]
    /\ token \in [Requests -> Tokens]
    /\ path \in [Requests -> Asked]
    /\ version \in [Requests -> 0 .. MaxVersion]
    /\ status \in [Requests -> {"none", "entry", "version", "list", "versions",
                                "not found", "forbidden"}]
    /\ shown \in [Requests -> SUBSET (Loc \X {"plain", "cipher", "empty"})]
    /\ steady \in [Requests -> SUBSET Loc]
    /\ exists \in [Requests -> BOOLEAN]

Init ==
    /\ Store!Init
    /\ master \in MasterKeys
    /\ pc = [r \in Requests |-> "idle"]
    /\ token \in [Requests -> Tokens]
    /\ path \in [Requests -> Asked]
    /\ version = [r \in Requests |-> 0]
    /\ status = [r \in Requests |-> "none"]
    /\ shown = [r \in Requests |-> {}]
    /\ steady = [r \in Requests |-> {}]
    /\ exists = [r \in Requests |-> FALSE]

----------------------------------------------------------------------------
(* Access, for reading.                                                    *)

Applies(scope, ns) ==
    \/ ~scope.below /\ scope.ns \in {Wildcard, ns}
    \/ scope.below /\ IsUnder(scope.ns, ns)

\* HasAccess: a role decides if there is one (all of them may read), else the
\* first scope that applies.
HasAccess(t, ns) ==
    IF t.role # NoRole
    THEN t.role \in Roles
    ELSE \/ t.scopes = << >>
         \/ \E i \in DOMAIN t.scopes :
              /\ Applies(t.scopes[i], ns) /\ t.scopes[i].read
              /\ \A j \in 1 .. i - 1 : ~Applies(t.scopes[j], ns)

----------------------------------------------------------------------------
(* What the engine finds.                                                  *)

\* Decrypt fails for what another key has encrypted; what is not a secret is not
\* decrypted, and an empty secret is its own plaintext.
Fails(value) == value \notin {Config, master}

\* What Decrypt gives besides its error: "" if it fails.
Decrypted(value) == IF Fails(value) THEN "empty" ELSE "plain"

\* Engine.List and GetVersions keep what they cannot decrypt as the store has it.
DecryptedIfItCan(value) == IF Fails(value) THEN "cipher" ELSE Decrypted(value)

\* The entries that Engine.Get finds, and can decrypt.
Readable == {l \in Loc : Store!IsLive(l) /\ ~Fails(kvData[l].value)}

\* The location the path of request r names as a key.
Key(r) == <<Front(path[r]), Last(path[r])>>

\* The version records of that key.
Recorded(r) == IF Key(r) \in Loc THEN Store!RecordedVersions(Key(r)) ELSE {}

\* Engine.List: what cannot be decrypted is listed all the same.
ListedUnder(ns) ==
    {<<l, DecryptedIfItCan(kvData[l].value)>> : l \in Store!List(ns)}

----------------------------------------------------------------------------
(* Other requests change keys and namespaces; the server is restarted.     *)

\* What stays as it was while a request goes on.
KeepHistory ==
    /\ steady' = [r \in Requests |->
           IF pc[r] = "idle" THEN steady[r] ELSE steady[r] \cap Readable']
    /\ exists' = [r \in Requests |->
           IF pc[r] = "idle" THEN exists[r] ELSE exists[r] /\ path[r] \in namespaces']

Write ==
    /\ \E ns \in Names :
         \/ Store!DeleteNamespace(ns)
         \/ \E key \in Keys :
              \/ Store!Delete(ns, key)
              \/ \E value \in {Config, master} : Store!Set(ns, key, value)
    /\ UNCHANGED <<master, pc, asks, answers>>
    /\ KeepHistory

\* With requests cut off.
Restart ==
    /\ master' \in MasterKeys
    /\ pc' = [r \in Requests |-> "idle"]
    /\ status' = [r \in Requests |-> "none"]
    /\ shown' = [r \in Requests |-> {}]
    /\ UNCHANGED <<storeVars, asks, steady, exists>>

----------------------------------------------------------------------------
(* A request.                                                              *)

Goto(r, place) ==
    /\ pc' = [pc EXCEPT ![r] = place]
    /\ UNCHANGED answers

Answer(r, s, what) ==
    /\ pc' = [pc EXCEPT ![r] = "idle"]
    /\ status' = [status EXCEPT ![r] = s]
    /\ shown' = [shown EXCEPT ![r] = what]

Reads == UNCHANGED <<storeVars, master, asks, steady, exists>>

\* A request arrives; the handlers look at the path and at the token.
Ask(r, t, p, v, place) ==
    /\ pc[r] = "idle"
    /\ pc' = [pc EXCEPT ![r] = place]
    /\ token' = [token EXCEPT ![r] = t]
    /\ path' = [path EXCEPT ![r] = p]
    /\ version' = [version EXCEPT ![r] = v]
    /\ status' = [status EXCEPT ![r] = "none"]
    /\ shown' = [shown EXCEPT ![r] = {}]
    /\ steady' = [steady EXCEPT ![r] = Readable]
    /\ exists' = [exists EXCEPT ![r] = p \in namespaces]
    /\ UNCHANGED <<storeVars, master>>

\* The router takes a path for the versions of a key, if it may.
IsForVersions(p) == Len(p) >= 3 /\ Last(p) = "versions"

\* handleListKeys.
AskForPath(r, t, p, v) ==
    /\ ~IsForVersions(p)
    /\ Ask(r, t, p, v,
           IF Len(p) >= 2 /\ HasAccess(t, Front(p))
           THEN IF v # 0 THEN "version" ELSE "get"
           ELSE "list")

\* handleListVersions.
AskForVersions(r, t, p) == Len(p) >= 2 /\ Ask(r, t, p, 0, "versions")

\* Engine.GetVersion: the version, decrypted, unless there is none or that fails.
GetVersion(r) ==
    LET value == kvVersions[Key(r)][version[r]]
    IN  /\ pc[r] = "version"
        /\ IF version[r] \in Recorded(r) /\ ~Fails(value)
           THEN Answer(r, "version", {<<Key(r), Decrypted(value)>>})
           ELSE Answer(r, "not found", {})
        /\ Reads

\* Mutant: the error of Decrypt is not looked at.
GetUnchecked(r) ==
    /\ pc[r] = "get"
    /\ IF Key(r) \in Loc /\ Store!IsLive(Key(r))
       THEN Answer(r, "entry", {<<Key(r), Decrypted(kvData[Key(r)].value)>>})
       ELSE Goto(r, "namespace")
    /\ Reads

\* Engine.Get: the entry, decrypted; if there is none, or that fails, go on.
Get(r) ==
    /\ pc[r] = "get"
    /\ IF Key(r) \in Loc /\ Store!IsLive(Key(r)) /\ ~Fails(kvData[Key(r)].value)
       THEN Answer(r, "entry", {<<Key(r), Decrypted(kvData[Key(r)].value)>>})
       ELSE Goto(r, "namespace")
    /\ Reads

\* Mutant: the looks of the name come before the namespace.
LooksFirst(r) ==
    /\ pc[r] = "namespace"
    /\ IF path[r] \in namespaces /\ Last(path[r]) \notin KeyLike
       THEN Goto(r, "list")
       ELSE IF Last(path[r]) \in KeyLike THEN Answer(r, "not found", {})
                                         ELSE Goto(r, "list")
    /\ Reads

\* GetNamespace, then looksLikeKeyName.
GetNamespace(r) ==
    /\ pc[r] = "namespace"
    /\ IF path[r] \notin namespaces /\ Last(path[r]) \in KeyLike
       THEN Answer(r, "not found", {})
       ELSE Goto(r, "list")
    /\ Reads

List(r) ==
    /\ pc[r] = "list"
    /\ IF HasAccess(token[r], path[r])
       THEN Answer(r, "list", ListedUnder(path[r]))
       ELSE Answer(r, "forbidden", {})
    /\ Reads

\* Engine.GetVersions: no version at all is an answer too, and one that cannot
\* be decrypted is shown as it is stored.
GetVersions(r) ==
    /\ pc[r] = "versions"
    /\ IF HasAccess(token[r], Front(path[r]))
       THEN Answer(r, "versions",
                {<<Key(r), DecryptedIfItCan(kvVersions[Key(r)][v])>> : v \in Recorded(r)})
       ELSE Answer(r, "forbidden", {})
    /\ Reads

Next ==
    \/ Write \/ Restart
    \/ \E r \in Requests :
         \/ \E t \in Tokens, p \in Asked :
              \/ AskForVersions(r, t, p)
              \/ \E v \in 0 .. MaxVersion : AskForPath(r, t, p, v)
         \/ GetVersion(r) \/ Get(r) \/ GetNamespace(r) \/ List(r) \/ GetVersions(r)

Spec == Init /\ [][Next]_vars

----------------------------------------------------------------------------
(* Properties.                                                             *)

\* What is there for the whole of a request is found, whatever else changes
\* between its transactions: a key its caller may read is answered as the key,
\* a namespace is not "not found", and a list has every entry.
FoundIfThere ==
    \A r \in Requests : pc[r] = "idle" =>
        /\ status[r] = "not found" /\ version[r] = 0 =>
             Key(r) \notin steady[r] /\ ~exists[r]
        /\ status[r] = "list" =>
             /\ Len(path[r]) >= 2 /\ HasAccess(token[r], Front(path[r])) =>
                  Key(r) \notin steady[r]
             /\ \A l \in steady[r] : IsUnder(path[r], l[1]) => <<l, "plain">> \in shown[r]

\* Nobody who asks for one value gets a ciphertext or an empty value for it, and no
\* answer shows an empty value for a secret, whatever key the server was started
\* with when the secret was set and now.  (A list and the versions of a key may
\* show a ciphertext: "Skip entries that can't be decrypted", engine.go:112, passes
\* over the decryption and not the entry.)
ValuesArePlain ==
    \A r \in Requests :
        /\ status[r] \in {"entry", "version"} => shown[r] = {<<Key(r), "plain">>}
        /\ \A what \in shown[r] : what[2] # "empty"
=============================================================================
