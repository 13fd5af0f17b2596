SPECIFICATION FairClientSpec
CONSTANTS
    Subs <- MCSubs
    Callers <- MCCallers
    IdOf <- MCIdOf
    Kids <- MCKids
    NoSub <- MCNoSub
    MaxPending = 1
    CommandsPerPass = 1
    StreamLimit = 1
    MaxEvents <- MCMaxEvents
    MaxDesertions = 1
    MayFail = TRUE
    Modes <- MCModes
INVARIANTS
    DeliveriesAreFaithful
    StreamsFollowRequests
PROPERTIES
    FrontendComesToRest
CHECK_DEADLOCK FALSE
