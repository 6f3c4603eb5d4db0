SPECIFICATION RegistrySpec
CONSTANTS
    q1 = q1
    NRuns = 4
    Retained = 1
    Requests <- OneRequest
    MaxRemovals = 1
    MaxRestarts = 1
INVARIANTS
    MemoryIsBounded
    ListMissesNoRun
PROPERTIES
    NoResultIsEvictedAway
CHECK_DEADLOCK FALSE
