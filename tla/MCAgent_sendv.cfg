SPECIFICATION Spec
CONSTANTS
    Users <- OneUser
    IdsRestart = FALSE
    Inputs <- AllInputs
    MaxTunnels = 1
    MaxSessions = 1
    MaxEvents = 2
    MaxWork = 1
INVARIANTS
    SendAfterCloseSurvived
CHECK_DEADLOCK FALSE
