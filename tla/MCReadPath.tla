----------------------------- MODULE MCReadPath -----------------------------
(* An instance of ReadPath for TLC: a namespace, one nested in it under the   *)
(* name of a key, and a name that does not look like a key.                   *)
EXTENDS ReadPath

CONSTANTS key1, key2, r1

ANamespace == <<"app">>
LikeAKey == <<"app", "DB_URL">>
TwoNames == {ANamespace, LikeAKey}
OneKey == {"DB_URL"}
TwoMasterKeys == {key1, key2}
OneRequest == {r1}
Paths == {ANamespace, LikeAKey, <<"app", "web">>}

Viewer == [role |-> "viewer", scopes |-> << >>]
Nested ==
    [role |-> NoRole,
     scopes |-> << [ns |-> ANamespace, below |-> FALSE, read |-> FALSE],
                   [ns |-> ANamespace, below |-> TRUE, read |-> TRUE] >>]
TwoTokens == {Viewer, Nested}
=============================================================================
