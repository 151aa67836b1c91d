SPECIFICATION FairSpec
CONSTANTS
    Users <- OneUser
    IdsRestart = FALSE
    Inputs <- AllInputs
    MaxTunnels = 2
    MaxSessions = 1
    MaxEvents = 2
    MaxWork = 1
INVARIANTS
    TypeOK
    SessionComesFirst
    SpeaksOnOwnConnections
PROPERTIES
    TunnelIsReplaced
CHECK_DEADLOCK FALSE
