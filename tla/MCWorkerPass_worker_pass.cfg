\* Bursts of two, three buffers, a counter that wraps.
SPECIFICATION Spec
CONSTANTS
    b1 = b1
    b2 = b2
    b3 = b3
    NULL = NULL
    Mbufs <- ThreeMbufs
    MaxBulkSize = 2
    CounterModulus = 4
    MaxPackets = 6
SYMMETRY MbufSymmetry
INVARIANTS
    MbufsAccounted
    CountExact
    CountNeverOverstated
