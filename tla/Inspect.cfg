SPECIFICATION FairSpec
CONSTANTS
    NULL = NULL
    Undefined = Undefined
    NoPosition = 99
    Tables <- MCTables
    Positions <- MCPositions
    MaxCommands = 1
    Layouts <- MCLayouts
    Targets <- MCTargets
    Word = 32
    Smis = 16
    Stacks <- MCStacks
    Options <- MCOptions
    Args <- MCArgs
CHECK_DEADLOCK FALSE
INVARIANTS
    VariablesExact
    LeavesNothing
    FramesAccounted
    ArgumentsRight
    SearchRight
PROPERTIES
    CommandEnds
