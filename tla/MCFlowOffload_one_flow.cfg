\* One flow, its two directions on different RX queues. Both port modes.
SPECIFICATION Spec
CONSTANTS
    out1 = out1
    in1 = in1
    w1 = w1
    w2 = w2
    Modes = {"SINGLE_PORT_MODE", "DOUBLE_PORT_MODE"}
    NULL = NULL
    Keys <- OneFlow
    Outbound <- OneOutbound
    Peer <- OnePeer
    Workers = {w1, w2}
    Queue <- TwoQueues
    Handles = {h1, h2}
    PktAmountToOffload = 2
    MaxRingEntries = 2
    BurstSize = 1
    TimeoutFlowBatchSize = 2
SYMMETRY HandleSymmetry
INVARIANTS
    TypeOK
    OffloadOnlyAfterThreshold
    NoStaleHandle
    OffloadedHasRule
    NoLostRule
    NoStuckOffloading
PROPERTIES
    OnlyAgedDestroyedUnlessDuplicated
    PromiseKept
