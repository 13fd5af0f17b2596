SPECIFICATION SettlementSafety
CONSTANTS
    a = a
    b = b
    idA = idA
    idB = idB
    NoStep = NoStep
    Lives = {a, b}
    IdsOf <- AnyIds
    Tickets = {t1, t2}
    Prompt = 1
    MaxOut = 2
    MaxInflight = 2
    MaxPreempt = 1
    MaxDrafts = 1
SYMMETRY Interchangeable
INVARIANTS
    SliceIsTracked
    RingMirrorsKV
    EndedRequestsLetGo
    OnlyResourcesFault
PROPERTIES
    PublishesBehindKV
    SettlementIsConfined
    FollowsTicketProtocol
CHECK_DEADLOCK FALSE
