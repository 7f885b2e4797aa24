CONSTANTS
    Pids = {p1, p2}
    Levels = {l1}
    Servers = {s1, s2}
    None = None
    WarLimit = 0
    MaxProf = 3
    MaxWar = 2
    MaxChain = 2
    MaxLost = 1
SPECIFICATION Spec
SYMMETRY Symmetry
INVARIANTS
    TypeOK
    FightIsMember
    PosNeverBefore
    OneAllocation
PROPERTIES
    StatesForward
CHECK_DEADLOCK FALSE
