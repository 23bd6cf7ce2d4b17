SPECIFICATION Spec
CONSTANTS
    MaxCalls = 2
    MaxLinks = 2
    MaxPending = 2
    MaxInflight = 1
    MaxFaults = 1
INVARIANTS
    TypeOK
    PendingIsReachable
PROPERTIES
    NoCallOnceRevocationSeen
    GivenUpRunsEnd
    RevocationSticks
CHECK_DEADLOCK FALSE
