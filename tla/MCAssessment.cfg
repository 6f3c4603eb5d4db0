SPECIFICATION Spec
CONSTANTS
    Sample <- Walked
    Warmups = 1
    Measured = 2
    Usable = 2
    Spreads <- Unsteady
    Requests <- SomeRequests
    Hosts <- SomeHosts
    MaxCycles = 3
    MaxFaults <- Bound
INVARIANTS
    AbsentIsExplained
    CancelIsSeen
    AdmittedHostIsSpared
    ScoredWholeCycle
    ValidatedIsEarned
    ServerAgreesOrRejects
PROPERTIES
    ProgressNeverFallsBack
CHECK_DEADLOCK FALSE
