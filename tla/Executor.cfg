CONSTANTS
    Tickets = {t1, t2}
    Units = {u1, u2}
    MaxInflight = 1
    Drain = drain
SPECIFICATION ExecutorSpec
INVARIANTS
    SettledWorkIsQuiescent
PROPERTIES
    ImplementsStepLease
    ImplementsTicketProtocol
    WorkIsDecided
CHECK_DEADLOCK FALSE
