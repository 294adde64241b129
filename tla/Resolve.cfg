CONSTANTS
    Br = Br
    Gz = Gz
    Rel = Rel
    Idx1 = Idx1
    Idx2 = Idx2
    EncodedPaths = {Br, Gz}
    Identity = Rel
    IndexPaths = {Idx1, Idx2}
    Requests <- ResolveRequests
    Configs <- ResolveConfigs
    Trees <- ResolveTrees
    WholePlans <- ResolveWholePlans
    RangePlans = {}
    MaxInflight = 2
    MaxHighs = 0
    MaxTreeChanges = 0
SPECIFICATION Spec
INVARIANTS
    
    OneResolution
