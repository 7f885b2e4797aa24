CONSTANTS
    Agents = {a1, a2, a3}
    Roles = {r1, r2}
    None = None
    OnlineLimit = 1
    MaxObj = 3
    MaxTasks = 1
    MaxDepth = 12
    MaxQueue = 2
    MaxPlay = 1
    MaxTokens = 2
    Triggers = {"go", "exit", "offline", "autosave"}
SPECIFICATION Spec
SYMMETRY Symmetry
INVARIANTS
    OneClientPerRole
    OnlineExact
    LimitRespected
    ClientInGame
    AutosavedIffRegistered
PROPERTIES
    NoStaleSave
    KeepsRoles
