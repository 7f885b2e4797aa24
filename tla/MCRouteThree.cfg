CONSTANTS
    s1 = s1
    s2 = s2
    s3 = s3
    Servers = {s1, s2, s3}
    None = None
    Listed <- MCListedOne
    Step = 1
    MaxPid = 2
    MaxCrash = 0
    MaxLost = 1
SPECIFICATION Spec
SYMMETRY Others
INVARIANTS
    RoutesSound
    KnownUnlessStale
