\* Two requests that both revoke.
SPECIFICATION Spec
CONSTANTS
    t1 = t1
    t2 = t2
    t3 = t3
    r1 = r1
    r2 = r2
    TokenIds <- ThreeTokens
    NoToken = NoToken
    Never = Never
    Requests <- TwoRequests
    Revokers <- TwoRequests
    Bodies <- MixedBodies
    MaxTime = 1
SYMMETRY Symmetric
INVARIANT
    RootRemains
