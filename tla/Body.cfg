CONSTANTS
    Top = 5
    Specs <- AllSpecs
    MaxSpecs = 2
    Sizes = {0, 1, 3, 4}
    Policies <- AnyPolicy
    ChunkSize = 2
    U64Max = 4
    HeaderLen = 5
    CloseLen = 3
SPECIFICATION Spec
CHECK_DEADLOCK FALSE
INVARIANTS
    OutcomeMatchesBytes
    BodyIsSelection
    LengthAnnounced
