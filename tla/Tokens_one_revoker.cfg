\* Two requests, of which one revokes.
SPECIFICATION FairSpec
CONSTANTS
    t1 = t1
    t2 = t2
    t3 = t3
    r1 = r1
    r2 = r2
    TokenIds <- ThreeTokens
    NoToken = NoToken
    Never = Never
    Requests <- TwoRequests
    Revokers <- OneRevoker
    Bodies <- MixedBodies
    MaxTime = 1
INVARIANTS
    RootRemains
PROPERTIES
    TokensAreWriteOnce
    ServerComesBack
