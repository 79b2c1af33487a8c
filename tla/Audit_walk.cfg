\* A walk over the pages while entries of two namespaces are added.
SPECIFICATION Spec
CONSTANTS
    app = app
    web = web
    All = All
    Keys <- FiveKeys
    NamespaceNames <- TwoNamespaces
    Limits <- SomeLimits
    DefaultLimit = 1
    MaxLimit = 2
INVARIANTS
    NoGaps
    MoreIsTrue
PROPERTIES
    LastPageIsLast
