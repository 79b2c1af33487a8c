--------------------------- MODULE MCCachedClient ---------------------------
(* Instances of CachedClient for TLC: one goroutine of the application, and *)
(* one writer elsewhere.  The namespace has one above it.                   *)
EXTENDS CachedClient, TLC

CONSTANTS k1, v1, loop, a1, o1

AppProd == <<"app", "prod">>
OneName == {AppProd}
OneKey == {k1}
OneValue == {v1}
OneApp == {a1}
OneOther == {o1}
=============================================================================
