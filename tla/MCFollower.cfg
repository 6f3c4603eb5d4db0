SPECIFICATION FairFollowSpec
CONSTANTS
    run = run
    tel = tel
    plain = plain
    tui = tui
    None = None
    Emitters <- TwoEmitters
    Orchestrator = run
    Plain <- OnePlain
    Dashboards <- OneDashboard
    ReplayBuffer = 2
    MaxEvents = 4
INVARIANTS
    ShownOnceInOrder
    OnlyOverwrittenEventsAreMissed
PROPERTIES
    DashboardEndsWithTheRun
CHECK_DEADLOCK FALSE
