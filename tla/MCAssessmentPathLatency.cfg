SPECIFICATION Spec
CONSTANTS
    Sample <- Walked
    Warmups = 1
    Measured = 2
    Usable = 2
    Spreads <- Unsteady
    Requests <- StandardOnly
    Hosts <- OneHost
    MaxCycles = 3
    MaxFaults <- OneFault
INVARIANT PathLatencyNeverDegrades
CHECK_DEADLOCK FALSE
