SPECIFICATION Spec
CHECK_DEADLOCK FALSE
CONSTANTS
    Frames = {r}
    Root = r
    r = r
    Kinds = {}
    Drivers = {"claude", "codex", "gemini"}
    PoolSize = 1
    QueueSize = 1
    Second = 1
    MaxHooks = 7
    MaxLate = 2
    MaxMessages = 2
    MaxWrites = 0
    MaxPaths = 0
    MaxRestarts = 0
    Titles = {"star"}
    PanesVary = {"codex", "gemini"}
    GitHub = FALSE
INVARIANTS
    SettledStatus
    PeersAccounted
    IdleInboxEmpty
    ApprovalsBounded
