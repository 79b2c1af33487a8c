----------------------------- MODULE MCKVStore -----------------------------
(* Instances of KVStore for TLC: a project, a namespace nested in it, and   *)
(* (for the name check) a path with a segment too many.                     *)
EXTENDS KVStore, TLC

CONSTANTS k1, k2, v1, v2

NestedNames == {<<"app">>, <<"app", "prod">>, <<"app", "prod", "eu", "x">>}
TwoKeys == {k1, k2}
TwoValues == {v1, v2}
Symmetric == Permutations(TwoKeys) \cup Permutations(TwoValues)
============================================================================
