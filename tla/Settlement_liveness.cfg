SPECIFICATION SettlementSpec
CONSTANTS
    a = a
    b = b
    idA = idA
    idB = idB
    NoStep = NoStep
    Lives = {a, b}
    IdsOf <- OwnIds
    Tickets = {t1}
    Prompt = 2
    MaxOut = 1
    MaxInflight = 1
    MaxPreempt = 0
    MaxDrafts = 0
INVARIANTS
PROPERTIES
    RequestsMoveOn
CHECK_DEADLOCK FALSE
