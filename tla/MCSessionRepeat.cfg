CONSTANTS
    Agents = {a1, a2}
    Roles = {r1}
    None = None
    OnlineLimit = 1
    MaxObj = 2
    MaxTasks = 1
    MaxDepth = 12
    MaxQueue = 2
    MaxPlay = 0
    MaxTokens = 0
    Triggers = {}
SPECIFICATION Spec
SYMMETRY Symmetry
INVARIANTS
    NoRepeatObject
