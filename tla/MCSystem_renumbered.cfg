SPECIFICATION Spec
CONSTANTS
    Port = 8001
    Leaving <- Nobody
    MaxTunnels = 2
    MaxSessions = 2
    MaxUserData = 0
    MaxServiceData = 1
    MaxFailures = 1
    MaxEvents = 1
    MaxWork = 1
INVARIANTS
    DataReachesItsOwnEnd
CHECK_DEADLOCK FALSE
