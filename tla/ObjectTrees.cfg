SPECIFICATION TSpec
CONSTANTS
    None = None
    IntHalf = 4
    Objects <- MCObjects
    Infos <- MCInfos
    MaxFiled = 4
INVARIANTS
    OneNodePerKey
CHECK_DEADLOCK FALSE
