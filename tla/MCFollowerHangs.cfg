SPECIFICATION FairFollowSpec
CONSTANTS
    run = run
    tel = tel
    plain = plain
    tui = tui
    None = None
    Emitters <- TwoEmitters
    Orchestrator = run
    Plain <- OnePlain
    Dashboards <- Nobody
    ReplayBuffer = 2
    MaxEvents = 4
PROPERTIES
    PlainEndsWithTheRun
CHECK_DEADLOCK FALSE
