\* No port up to three, two RX queues each, enough lcores or not.
SPECIFICATION FairSpec
CONSTANTS
    GeneralQueues = 2
    MaxPorts = 3
    MaxLcores = 6
INVARIANTS
    TypeOK
    LcoresFindShared
    HandlerFindsEntries
    SinglePortServed
    FailedInitReleases
    ParamsFoundUnlessFailing
PROPERTIES
    ShutdownCompletesUnlessFlows
CHECK_DEADLOCK FALSE
