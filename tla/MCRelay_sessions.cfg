SPECIFICATION Spec
CONSTANTS
    Ports <- FreeAndBusyPort
    BusyPorts <- BusyPort
    IpHashes <- Hashes
    LoadPolicy = "ip"
    Commands <- SessionCommands
    MaxAgents = 2
    MaxUsers = 2
    MaxServices = 2
    MaxSessions = 3
    MaxEvents = 1
INVARIANTS
    NoFinishedSessionKept
    DataToOwnAgentOrNamesake
PROPERTIES
    SessionsDroppedOnlyWhenFinished
CHECK_DEADLOCK FALSE
