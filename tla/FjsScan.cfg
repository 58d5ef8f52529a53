SPECIFICATION Spec
CONSTANTS
    o1 = o1
    o2 = o2
    bad = bad
    arr = arr
    f1 = f1
    f2 = f2
    f3 = f3
    b1 = b1
    txt = txt
    lost = lost
    NULL = NULL
    Addr <- MCAddr
    Words <- WordsOfScan
    Heap <- FullHeap
    Anon <- MCAnon
    BrkMaps <- MCBrk
    Readable <- MCReadable
    Names <- MCNames
    Oddly = {"<unknown>", "<array>"}
    SearchProp = "p"
    SearchCtor = "Foo"
    Commands <- CrashCommands
    IntrAt = {"scan", "func", "ctor", "insert", "opts", "mark", "trav", "report"}
    MaxCmds = 4
CHECK_DEADLOCK FALSE
INVARIANTS
    TypeOK
    TableSound
    ListIsTree
    AnswersComplete
    NoFocusedScan
PROPERTIES
    CacheKept
