\* An application and a writer elsewhere: reloads, failing calls, restarts, a
\* namespace that is dropped and comes back, and a key that takes the place of its
\* list.  One value is enough: what is listed of a key differs by its version.
SPECIFICATION CacheFairSpec
CONSTANTS
    k1 = k1
    v1 = v1
    loop = loop
    a1 = a1
    o1 = o1
    Names <- OneName
    Keys <- OneKey
    Values <- OneValue
    MaxVersion = 2
    NoEntry = NoEntry
    Mine <- AppProd
    Loop = loop
    Apps <- OneApp
    Others <- OneOther
    MaxCommits = 3
INVARIANTS
    CacheIncludesCauses
    AppKnowsTheCache
PROPERTY CloseStopsTheLoop
