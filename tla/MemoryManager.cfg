SPECIFICATION Spec
CONSTANTS
    p1 = p1  p2 = p2  p3 = p3
    s1 = s1  s2 = s2
    t1 = t1  t2 = t2
    k1 = k1
    Pages <- MCPages
    Slots <- MCSlots
    Steps <- MCSteps
    Pubs <- MCPubs
    NoStep = NoStep
    Junk = Junk
    PageSize = 2
    MaxAppend = 2
    Settings <- Everything
SYMMETRY Interchangeable
INVARIANTS
    AllocatorInvariant
    ReadsSeeOwnTokens
    RefsMatchOwners
    AbandonedPagesWait
