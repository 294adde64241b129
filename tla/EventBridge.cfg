CONSTANTS
    Producers = {p1, p2}
    MaxSends = 2
SPECIFICATION Spec
CHECK_DEADLOCK FALSE
INVARIANTS
    Shape
    Lossless
PROPERTY
    ImplementsMailbox
