\* Two flows, an address that is given out again for each kind of object.
SPECIFICATION FairSpec
CONSTANTS
    k1 = k1
    k2 = k2
    m1 = m1
    m2 = m2
    h1 = h1
    h2 = h2
    NULL = NULL
    Keys <- TwoKeys
    Metas <- TwoMetas
    Handles <- TwoHandles
    OffloadAt = 2
    MaxBurst = 1
    RepeatTimes = 2
INVARIANTS
    TypeOK
    FreedUseOnlyLate
    RuleKnown
    MetaReachable
    BusyFlowOffloaded
    TableFound
PROPERTIES
    OnlyAgedDestroyed
    AgedDestroyed
    ShutdownEnds
CHECK_DEADLOCK FALSE
