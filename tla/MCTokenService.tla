--------------------------- MODULE MCTokenService ---------------------------
(* Instances of TokenService for TLC.                                       *)
EXTENDS TokenService, TLC

CONSTANTS t1, t2, t3, r1, r2

ThreeTokens == {t1, t2, t3}
TwoRequests == {r1, r2}
OneRevoker == {r1}

Body(role, scoped, rootType, lifetime) ==
    [role |-> role, scoped |-> scoped, rootType |-> rootType,
     lifetime |-> lifetime]

\* A second admin, a token that expires, a scoped one, a viewer that calls
\* itself root, and three bodies the handler or GenerateToken turns down.
MixedBodies ==
    {Body("admin", FALSE, FALSE, Never), Body("operator", FALSE, FALSE, 0),
     Body(None, TRUE, FALSE, Never), Body("viewer", FALSE, TRUE, Never),
     Body(None, FALSE, FALSE, Never), Body("admin", TRUE, FALSE, Never),
     Body("owner", FALSE, FALSE, Never)}

Symmetric == Permutations(ThreeTokens)
============================================================================
