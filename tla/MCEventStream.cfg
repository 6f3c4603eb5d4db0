SPECIFICATION PageSpec
CONSTANTS
    run = run
    tel = tel
    c1 = c1
    None = None
    Emitters <- TwoEmitters
    Clients <- OneClient
    ReplayBuffer = 2
    MaxEvents = 6
    MaxPending = 2
    MaxDrops = 2
INVARIANTS
    StreamIsGapless
    DeliveredInOrder
    NoGapUnlessLagged
PROPERTIES
    ImplementsOrderedLog
    OpenStreamCatchesUp
    ViewEndsWithTheRun
CHECK_DEADLOCK FALSE
