---------------------------- MODULE MCWritePath ----------------------------
(* Instances of WritePath for TLC: a namespace, one nested in it, and a     *)
(* name that is nested too deep.                                            *)
EXTENDS WritePath, TLC

CONSTANTS k1, v1, r1, r2

NestedAndDeep == {<<"app">>, <<"app", "prod">>, <<"app", "prod", "eu", "west">>}
OneKey == {k1}
OneValue == {v1}
TwoRequests == {r1, r2}
============================================================================
