CONSTANTS
    d1 = d1
    d2 = d2
    Dirs = {d1, d2}
    Requests <- FileRequests
    Canons <- FileCanons
    CanonCacheMax = 1
    ReadLen = 2
    MaxOpens = 2
    MaxReads = 1
    MaxChanges = 1
SPECIFICATION FairSpec
CHECK_DEADLOCK FALSE
INVARIANTS
    TypeOK
    NoLeakedFile
    ReadsExact
    VerdictExact
PROPERTIES
    Drained
    ImplementsOperations
