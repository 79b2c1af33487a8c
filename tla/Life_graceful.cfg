\* Nothing is killed, and a key is set.
SPECIFICATION FairSpec
CONSTANTS
    s1 = s1
    s2 = s2
    i1 = i1
    i2 = i2
    r1 = r1
    Nobody = Nobody
    Servers <- OneServer
    Inits <- OneInit
    Requests <- OneRequest
    MaxLaunches = 2
    MaxVersions = 1
    MaxKills = 0
    EnvKeys <- LongKey
    KeyFiles <- NoFlag
PROPERTIES
    ShutdownIsGraceful
CHECK_DEADLOCK FALSE
