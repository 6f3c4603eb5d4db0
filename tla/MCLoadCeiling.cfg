SPECIFICATION Spec
CONSTANTS
    NModules = 2
    Hosts <- AllHosts
    WarnSamples = 2
    AbortSamples = 3
    ThermalSamples = 2
    MaxTicks = 5
    None = None
INVARIANTS
    StopsAreEarned
    CountersAreConsecutive
    AnnouncedOncePerStretch
    SustainedLoadDegrades
CHECK_DEADLOCK FALSE
