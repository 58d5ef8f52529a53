SPECIFICATION SFairSpec
CONSTANTS
    short = short
    long = long
    hex = hex
    empty = empty
    lost = lost
    odd = odd
    ext = ext
    extTwo = extTwo
    slice = slice
    past = past
    orphan = orphan
    slicedCons = slicedCons
    cons = cons
    deep = deep
    half = half
    loop = loop
    NULL = NULL
    Strs <- MCStrs
    Roots <- MCStrs
    Heap <- MCHeap
    Chunk = 7
    MaxDepth = 5
    Marker <- MCMarker
    Complaint <- MCComplaint
    Texts <- MCTexts
    Reservations = {1}
    MaxReserved = 1
    BufSizes = {1, 2, 3, 5, 7, 8, 9, 10, 11, 12, 13, 14, 16, 20, 30}
CHECK_DEADLOCK FALSE
INVARIANTS
    BufferSound
    WholeIfFits
    CutIsShown
    QuotedWhole
PROPERTIES
    ReservationKept
    ClientOfStrBuf
    Returns
