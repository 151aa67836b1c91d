SPECIFICATION FairSpec
CONSTANTS
    Port = 8001
    Leaving <- Nobody
    MaxTunnels = 2
    MaxSessions = 2
    MaxUserData = 1
    MaxServiceData = 0
    MaxFailures = 1
    MaxEvents = 2
    MaxWork = 1
INVARIANTS
    
    AgentHearsInTurn
    ConnectionFeedsItsSessions
PROPERTIES
    ServedAgain
    UserDataIsRelayed
    ImplementsRelay
    ImplementsAgent
CHECK_DEADLOCK FALSE
