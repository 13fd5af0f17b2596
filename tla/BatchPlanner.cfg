SPECIFICATION PlannerSafety
CONSTANTS
    Requests = {1, 2, 3}
    Prompt <- MCPrompt
    Priority <- MCPriority
    MaxTokens = 5
    MaxSeqs = 3
    Padding = 2
    ChunkCap = 3
    MaxPartial = 1
    MaxBypass = 1
    MaxDrafts = 2
    Settings <- MCSettings
    CountBound = 2
INVARIANTS
    FitIsLargest
    PlanFits
PROPERTIES
    RetriesConverge
CHECK_DEADLOCK FALSE
