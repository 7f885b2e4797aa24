CONSTANTS
    Agents = {a1, a2}
    Roles = {r1, r2}
    None = None
    OnlineLimit = 1
    MaxObj = 2
    MaxTasks = 2
    MaxDepth = 12
    MaxQueue = 1
    MaxPlay = 0
    MaxTokens = 1
    Triggers = {"switch", "go", "exit", "gmkick", "offline", "autosave"}
SPECIFICATION Spec
SYMMETRY Symmetry
INVARIANTS
    TypeOK
    CountersAgree
    NumNeverOvercounts
    LinkCountExact
    LinkConnected
    DeletedNotSaved
