SPECIFICATION Spec
CONSTANTS
    Versions <- MCVersions
    InObjects = {1}
    MaxBuild = 1
    TableSize = 1
    WordBits = 1
    MaxBitvecs = 2
INVARIANTS
    NoFault
CHECK_DEADLOCK FALSE
