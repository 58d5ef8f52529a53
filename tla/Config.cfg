SPECIFICATION FairSpec
CONSTANTS
    NULL = NULL
    Names <- MCNames
    Binaries <- MCBinaries
    Canned <- MCCanned
    KnownTypes <- MCTypes
    RequiredTypes = {"FixedArray", "JSObject"}
    MaxTypes = 3
    LoadArgs = {"node-0.4", "node-0.6", "node-0.8"}
    FieldArgs <- MCFieldArgs
    MaxEdits = 1
CHECK_DEADLOCK FALSE
INVARIANTS
    ClassesAsRead
    EndsFollowParents
    SuccessIsComplete
    PrintsHierarchy
PROPERTIES
    StaysConfigured
    ConfigurationEnds
