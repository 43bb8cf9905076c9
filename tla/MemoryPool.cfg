SPECIFICATION Spec
CONSTANTS
    c1 = c1
    c2 = c2
    Threads = {t1, t2}
    Classes = {c1}
    NumMovePage <- OneClassPages
    NumMoveSize <- OneClassMove
    BigSizes <- FitsAndHuge
    MaxPage = 6
    MaxRegions = 1
    MaxLive = 2
    Rehash = TRUE
    None = None
INVARIANTS
    BooksExact
    MergesSafe
    EachPageOnce
PROPERTIES
    ReleaseMerges
SYMMETRY Symmetry
CHECK_DEADLOCK FALSE
