SPECIFICATION Spec
CONSTANTS
    Versions <- MCVersions
    InObjects = {1, 3}
    MaxBuild = 3
    TableSize = 2
    WordBits = 1
    MaxBitvecs = 2
INVARIANTS
    ReportsExactly
    TroubleIsTold
    WalkerExact
PROPERTIES
    WalkEnds
CHECK_DEADLOCK FALSE
