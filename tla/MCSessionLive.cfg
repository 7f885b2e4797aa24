CONSTANTS
    Agents = {a1, a2}
    Roles = {r1}
    None = None
    OnlineLimit = 1
    MaxObj = 2
    MaxTasks = 2
    MaxDepth = 12
    MaxQueue = 1
    MaxPlay = 0
    MaxTokens = 1
    Triggers = {"switch", "go", "gmkick", "offline"}
SPECIFICATION FairSpec
PROPERTIES
    HandlersEnd
