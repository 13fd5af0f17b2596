SPECIFICATION QueueSpec
CONSTANTS
    a = a
    b = b
    c = c
    d = d
    Lives = {a, b, c}
    IdOf <- OwnIds
    Window = 1
    MaxPartial = 1
    MaxInflight = 2
    Pressure = TRUE
SYMMETRY QueueSymmetry
INVARIANTS
    EveryRequestHasOnePlace
    PartialPrefillsProgress
CHECK_DEADLOCK FALSE
