\* The batch takes every aged rule.
SPECIFICATION FairSpec
CONSTANTS
    out1 = out1
    in1 = in1
    w1 = w1
    w2 = w2
    Modes = {"SINGLE_PORT_MODE"}
    NULL = NULL
    Keys <- OneFlow
    Outbound <- OneOutbound
    Peer <- OnePeer
    Workers = {w1}
    Queue <- OneQueue
    Handles = {h1, h2}
    PktAmountToOffload = 2
    MaxRingEntries = 2
    BurstSize = 2
    TimeoutFlowBatchSize = 2
CONSTRAINT AgingIntact
PROPERTIES
    RequestAnswered
    AgedRuleDestroyedUnlessError
