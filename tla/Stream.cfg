CONSTANTS
    Br = Br
    Gz = Gz
    Rel = Rel
    Idx1 = Idx1
    Idx2 = Idx2
    EncodedPaths = {Br, Gz}
    Identity = Rel
    IndexPaths = {Idx1, Idx2}
    Requests <- StreamRequests
    Configs <- StreamConfigs
    Trees <- StreamTrees
    WholePlans <- StreamWholePlans
    RangePlans <- StreamRangePlans
    MaxInflight = 2
    MaxHighs = 2
    MaxTreeChanges = 1
SPECIFICATION FairSpec
INVARIANTS
    TypeOK
    ReadAccounting
    WindowCovered
    NeverStranded
    DepthNeverAhead
    ResponseExact
    InertNeverRead
PROPERTIES
    Answered
