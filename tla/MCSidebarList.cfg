\* Two inputs of the user, any in the popups, and one change of the sessions.
SPECIFICATION Spec
CONSTANTS
    Projects = {"a", "b"}
    GitProjects = {"a"}
    ProjectRoots = {"root"}
    Commands = {"agent"}
    PushCommands = {"agent"}
    DefaultCommand = "agent"
    Peers = TRUE
    Sessions <- MCSessions
    Started <- MCStarted
    ProjectOf <- MCProjectOf
    ProjectOrder <- MCProjectOrder
    WorkspaceOf <- MCWorkspaceOf
    Workspaces <- MCWorkspaces
    Statuses = {running, idle}
    BodyRows = 4
    MaxKeys = 2
    MaxTicks = 1
SYMMETRY MCStatuses
INVARIANTS TypeOK NewIsShown WorktreeInGit
PROPERTY CursorFollows
CHECK_DEADLOCK FALSE
