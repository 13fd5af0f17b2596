SPECIFICATION FairSpec
CONSTANTS
    Clients = {c1, c2}
    Admins = {z1, z2}
    MaxTails = 3
    InitialPages = 2
    MinPages = 2
    DevicePages = 6
    SafetyPages = 1
    KVBudget = 4
    MaxConcurrent = 2
    MaxCommands = 1
    MaxControls = 1
    MaxAdmitted = 2
    StreamLimit = 1
    MaxEvents <- MCEvents
    Scenarios <- MCScenarios
    c1 = c1
    c2 = c2
    z1 = z1
    z2 = z2
INVARIANTS
    FinishedStreamsAreWhole
    ResizesAreAllOrNothing
    RequestsAreConserved
PROPERTIES
    ReleasedTailsAreIdle
    ClientsHearBack
CHECK_DEADLOCK FALSE
