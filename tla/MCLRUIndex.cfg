CONSTANTS
    Key = {1, 2, 3, 4, 5, 6}
    Empty = none
    M = 4
    Thread = {t1, t2}
    Loaded <- MCLoaded
    ReadKeys = {1, 3, 4, 5}
    Inserted = {6}
    index <- MCIndex
    fp <- MCFp
    MaxRequests = 6
    Lossy = TRUE
SPECIFICATION IndexSpec
INVARIANTS
    CachedOnce
    CachedLeavesRight
    ReadsFaithful
SYMMETRY MCSymmetry
CHECK_DEADLOCK FALSE
