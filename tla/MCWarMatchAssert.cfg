CONSTANTS
    Pids = {p1, p2}
    Levels = {l1}
    Servers = {s1}
    None = None
    WarLimit = 0
    MaxProf = 2
    MaxWar = 1
    MaxChain = 2
    MaxLost = 0
SPECIFICATION Spec
INVARIANTS
    EndMatchesWar
CHECK_DEADLOCK FALSE
