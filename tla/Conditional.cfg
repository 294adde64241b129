CONSTANTS
    Versions <- SomeVersions
    TicksPerSec = 2
    Half = 2
    MaxReplaces = 3
SPECIFICATION Spec
CHECK_DEADLOCK FALSE
INVARIANTS
    RevalidationExact
    ResumedFromOneVersion
