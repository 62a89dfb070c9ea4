\* Dual port mode, a batch that takes every aged rule.
SPECIFICATION FairSpec
CONSTANTS
    out1 = out1
    in1 = in1
    w1 = w1
    w2 = w2
    Modes = {"DOUBLE_PORT_MODE"}
    NULL = NULL
    Keys <- OneFlow
    Outbound <- OneOutbound
    Peer <- OnePeer
    Workers = {w1}
    Queue <- OneQueue
    Handles = {h1, h2}
    PktAmountToOffload = 1
    MaxRingEntries = 1
    BurstSize = 1
    TimeoutFlowBatchSize = 2
PROPERTIES
    AgedRuleDestroyed
