\* Two workers, more values in the pool than there are ports, a table that
\* fills up.
SPECIFICATION Spec
CONSTANTS
    c1 = c1
    c2 = c2
    w1 = w1
    w2 = w2
    NULL = NULL
    Clients = {c1, c2}
    Servers = {d1}
    Workers = {w1, w2}
    Queue <- TwoWorkers
    TableSize = 6
    PoolSize = 4
    PortModulus = 3
INVARIANTS
    TypeOK
    RoundTrip
    DistinctPorts
    ReplyBelongsToFlow
PROPERTIES
    StableTranslation
CHECK_DEADLOCK FALSE
