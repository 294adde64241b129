CONSTANTS
    First = First
    Second = Second
    Shared = Shared
    Private = Private
    Bench = Bench
    Tests = {First, Second}
    Servers = {Shared, Private, Bench}
    Suites <- HarnessSuites
    Statics = {Shared}
    Forced = {Bench}
    Attempts = 2
    MaxProcesses = 2
    MaxFaults = 1
SPECIFICATION Spec
CHECK_DEADLOCK FALSE
INVARIANTS
    WholeBinary
    NoSurvivors
    OwnEnvoy
    InUseUntouched
PROPERTIES
    ProcessEnds
