SPECIFICATION Spec
CONSTANTS
    cli = cli
    server = server
    Agents <- TwoAgents
    None = None
    Modules <- Offered
    MaxRuns <- Bounds
    MaxFaults = 1
    Preloaded = {}
INVARIANTS
    NothingOutlivesItsModule
    OwnResidueIsSwept
    NoImplicitPull
PROPERTIES
    ModulesReturn
