SPECIFICATION FairSpec
CONSTANTS
    Profiles <- QuickAndEndurance
    MinCycles = 2
    MaxCycles = 2
    MaxTicks = 1
    HeartbeatEvery = 1
    PanicsUnwind = TRUE
    None = None
INVARIANTS
    EveryStartHasItsOutcome
    OnlyCancellingCutsShort
    StopReasonReachesBundle
PROPERTIES
    TerminalIsFinal
    RunEnds
CHECK_DEADLOCK FALSE
