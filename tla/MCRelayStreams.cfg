\* One session that comes, shows its tabs and goes; two lines in each file.
SPECIFICATION Spec
CONSTANTS
    Sessions = {s1}
    NoSession = none
    MaxLines = 2
    MaxTables = 4
    MaxTurns = 1
    Backlog = 2
    MaxLog = 4
INVARIANT SessionStreams
CHECK_DEADLOCK FALSE
