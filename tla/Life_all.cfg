\* Two servers, two inits and a request, with any key configuration.  A system that
\* nobody launches anything in any more stops.
SPECIFICATION FairSpec
CONSTANTS
    s1 = s1
    s2 = s2
    i1 = i1
    i2 = i2
    r1 = r1
    Nobody = Nobody
    Servers <- TwoServers
    Inits <- TwoInits
    Requests <- OneRequest
    MaxLaunches = 3
    MaxVersions = 1
    MaxKills = 1
    EnvKeys <- AnyEnvKey
    KeyFiles <- AnyKeyFile
INVARIANTS
    OneRootToken
    TransactionsHaveTheFile
    SecretsSurvive
    RefusedMeansNotThere
PROPERTIES
    SignalEndsServer
CHECK_DEADLOCK FALSE
