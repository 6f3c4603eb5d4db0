SPECIFICATION FairSpec
CONSTANTS
    a = a
    b = b
    c = c
    d = d
    None = None
    Generators = {a, b, c, d}
    Wanted <- MCWanted
    Offer <- MCOffer
    Overhead = 3
    MinPhase = 1
    Slack = 2
INVARIANTS
    RejectionMeansAnotherGenerator
PROPERTIES
    AcceptedDescribesOneGenerator
    WaitEnds
CHECK_DEADLOCK FALSE
