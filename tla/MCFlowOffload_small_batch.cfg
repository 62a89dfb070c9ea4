\* More rules age at once than the batch holds.
SPECIFICATION FairSpec
CONSTANTS
    out1 = out1
    in1 = in1
    w1 = w1
    w2 = w2
    Modes = {"SINGLE_PORT_MODE"}
    NULL = NULL
    Keys <- OneFlow
    Outbound <- OneOutbound
    Peer <- OnePeer
    Workers = {w1}
    Queue <- OneQueue
    Handles = {h1, h2}
    PktAmountToOffload = 1
    MaxRingEntries = 1
    BurstSize = 1
    TimeoutFlowBatchSize = 1
PROPERTIES
    AgedRuleDestroyed
