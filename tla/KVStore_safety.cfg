\* Two nested namespaces, two keys, two values, versions up to 2.
SPECIFICATION Spec
CONSTANTS
    k1 = k1
    k2 = k2
    v1 = v1
    v2 = v2
    Names <- NestedNames
    Keys <- TwoKeys
    Values <- TwoValues
    MaxVersion = 2
    NoEntry = NoEntry
    NoVersion = NoVersion
SYMMETRY Symmetric
INVARIANTS
    HeadMatchesHistory
    HistoryHasNoGaps
    EntriesHaveNamespace
PROPERTIES
    VersionsArePermanent
    DropIsLocal
    ImplementsVersionedMap
