\* Every array of up to eight elements of three values.
SPECIFICATION FairSpec
CONSTANTS
    Turn = 2
    MaxSize = 8
    Values = {0, 1, 2}
INVARIANTS
    TypeOK
    HeapThenSorted
    RunsSorted
    ReportOrdered
PROPERTIES
    OwnBlockOnly
    Terminates
CHECK_DEADLOCK FALSE
