\* One request, any writers, and restarts with either of two keys.
SPECIFICATION Spec
CONSTANTS
    key1 = key1
    key2 = key2
    r1 = r1
    Config = Config
    NoEntry = NoEntry
    NoVersion = NoVersion
    Names <- TwoNames
    Keys <- OneKey
    MaxVersion = 2
    MasterKeys <- TwoMasterKeys
    KeyLike <- OneKey
    Tokens <- TwoTokens
    Asked <- Paths
    Requests <- OneRequest
INVARIANTS
    FoundIfThere
    ValuesArePlain
