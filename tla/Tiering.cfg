SPECIFICATION Spec
CONSTANTS
    b1 = b1
    b2 = b2
    b3 = b3
    Blocks = {b1, b2, b3}
    Root = Root
    Parent <- MCParent
    NumPages = 3
    NumSlots = 2
    Requests = {r1, r2}
    MaxInflight = 2
    MaxPromotions = 2
    MinFree = 0
    MaxCopies = 2
    MaxFaults = 1
    MaxStarts = 2
    Warm = {b1, b3}
    Stored = {{}, {b2, b3}}
SYMMETRY MCSymmetry
CHECK_DEADLOCK FALSE
INVARIANTS
    TierOwnership
    ReadersSeeTheirBlocks
    CloseIsClean
PROPERTY HostTierIsSound
