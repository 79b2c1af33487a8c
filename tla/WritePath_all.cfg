\* Both requests may do anything: sets and other deletions meet namespace
\* deletions half way.
SPECIFICATION FairSpec
CONSTANTS
    k1 = k1
    v1 = v1
    r1 = r1
    r2 = r2
    Names <- NestedAndDeep
    Keys <- OneKey
    Values <- OneValue
    MaxVersion = 2
    NoEntry = NoEntry
    NoVersion = NoVersion
    Requests <- TwoRequests
    Setters <- TwoRequests
    Droppers <- TwoRequests
INVARIANTS
    TypeOK
    NoSilentChange
    LiveChangesAreAnnounced
PROPERTIES
    DropsAreReported
    WatchersCatchUp
