SPECIFICATION Spec
CONSTANTS
    Users <- TwoUsers
    IdsRestart = FALSE
    Inputs <- RelayDisconnect
    MaxTunnels = 2
    MaxSessions = 2
    MaxEvents = 2
    MaxWork = 0
INVARIANTS
    NoConnectionForgotten
    NoFinishedSessionKept
PROPERTIES
    SessionsDroppedOnlyWhenFinished
CHECK_DEADLOCK FALSE
