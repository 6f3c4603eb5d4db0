SPECIFICATION Spec
CONSTANTS
    command1 = command1
    command2 = command2
    None = None
    NRuns = 2
    Commands <- TwoCommands
    Outcomes <- CleanOrInvalid
    KeepLast = 1
    MaxAge = TRUE
    MaxEdits = 1
    MaxRemovals = 1
    EditsAnytime = FALSE
INVARIANTS
    ReconciledIndexMatchesDisk
    PruneKeepsTheNewest
PROPERTIES
    EvidenceIsKept
SYMMETRY Interchangeable
