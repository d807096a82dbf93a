SPECIFICATION FairSpec
CHECK_DEADLOCK FALSE
CONSTANTS
    Frames = {r}
    Root = r
    r = r
    Kinds = {"parse", "capture", "summary"}
    Drivers = {"claude", "codex", "generic", "shell"}
    PoolSize = 2
    QueueSize = 1
    Second = 1
    MaxHooks = 2
    MaxLate = 2
    MaxMessages = 0
    MaxWrites = 2
    MaxPaths = 2
    MaxRestarts = 1
    Titles = {}
    PanesVary = {"codex"}
    GitHub = FALSE
INVARIANTS
    FlagsMatchJobs
PROPERTIES
    ShownForward
    JobsLand
    PoolStops
