SPECIFICATION FairSpec
CONSTANTS
    t = t
    obj = obj
    fa1 = fa1
    fa2 = fa2
    arr = arr
    fn = fn
    dead = dead
    code = code
    fa3 = fa3
    NULL = NULL
    Objs <- MCObjs
    Words <- MCWords
    Present <- MCPresent
    Value <- MCValue
    Obj <- MCObj
    MaxOffset = 5
    Targets = {t, fa1, fa2}
    Limits = {1, 2, 3, 4, 5, 10}
    Shorts = 8
CHECK_DEADLOCK FALSE
INVARIANTS
    FoundExactly
    CutIsReported
PROPERTIES
    SearchEnds
