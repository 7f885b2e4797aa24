CONSTANTS
    s1 = s1
    s2 = s2
    s3 = s3
    Servers = {s1, s2}
    None = None
    Listed <- MCListed
    Step = 1
    MaxPid = 3
    MaxCrash = 2
    MaxLost = 1
SPECIFICATION FairSpec
INVARIANTS
    TypeOK
    RoutesSound
    KnownUnlessStale
PROPERTIES
    RoutesSpread
