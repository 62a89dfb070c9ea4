\* A flow in the table.
SPECIFICATION FairSpec
CONSTANTS
    GeneralQueues = 1
    MaxPorts = 1
    MaxLcores = 2
PROPERTIES
    HashMapFreed
CHECK_DEADLOCK FALSE
