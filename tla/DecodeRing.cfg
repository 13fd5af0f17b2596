SPECIFICATION RingSpec
CONSTANTS
    Ids = {r1, r2, r3, r4}
    Slots = 2
    MaxInflight = 2
INVARIANTS
    ServedWithinBound
PROPERTIES
    ServedUnlessArrivals
    CursorKeepsIdentity
CHECK_DEADLOCK FALSE
