SPECIFICATION FairSpec
CONSTANTS
    Page = 3
    Values <- MCValues
    Heap <- MCHeap
    Commands <- MCCommands
    BufSizes = {2, 5, 9, 20}
    MaxBuf = 80
CHECK_DEADLOCK FALSE
INVARIANTS
    PrintsWhole
    MembersExact
PROPERTIES
    PrintEnds
