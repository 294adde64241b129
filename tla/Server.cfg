CONSTANTS
    d1 = d1
    s1 = s1
    s2 = s2
    Dirs = {d1}
    Requests <- ServerRequests
    Canons <- ServerCanons
    CanonCacheMax = 1
    ReadLen = 1
    MaxOpens = 4
    MaxReads = 4
    MaxChanges = 0
    Streams = {s1, s2}
    Candidates <- ServerCandidates
    MaxInflight = 1
SPECIFICATION ServerFairSpec
CHECK_DEADLOCK FALSE
INVARIANTS
    FilesReachable
    OwnFile
PROPERTIES
    QuietAfterJoin
    ShutdownReturns
    FilesReclaimed
    StreamsAnswered
