\* Every conversation of four lines, with files replaced and lines torn.
SPECIFICATION Spec
CONSTANTS
    Agents = {"claude", "codex"}
    Kinds = {"prompt", "notice", "text", "long", "title", "agent", "use", "result", "name", "item", "started", "complete"}
    Uses <- MCUses
    PlanFile = "plan"
    MaxLines = 4
    MaxRewrites = 1
    MaxJobs = 2
    Tears = TRUE
    TurnsCap = 2
    CommandsCap = 2
    FilesCap = 1
    Rounds = 2
INVARIANTS ReadsAsWhole PromptOnBranch
CHECK_DEADLOCK FALSE
