SPECIFICATION Spec
CONSTANTS
    Ports <- OnePort
    BusyPorts <- NoPort
    IpHashes <- Hashes
    LoadPolicy = "seq"
    Commands <- SessionCommands
    MaxAgents = 3
    MaxUsers = 3
    MaxServices = 1
    MaxSessions = 3
    MaxEvents = 1
INVARIANTS
    DataToOwnAgent
CHECK_DEADLOCK FALSE
