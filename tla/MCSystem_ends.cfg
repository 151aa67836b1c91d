SPECIFICATION FairSpec
CONSTANTS
    Port = 8001
    Leaving <- Anyone
    MaxTunnels = 1
    MaxSessions = 1
    MaxUserData = 0
    MaxServiceData = 1
    MaxFailures = 1
    MaxEvents = 2
    MaxWork = 1
INVARIANTS
    RelayHearsItsAgents
    AgentHearsInTurn
PROPERTIES
    EndedSessionIsForgotten
    ServiceDataIsRelayed
CHECK_DEADLOCK FALSE
