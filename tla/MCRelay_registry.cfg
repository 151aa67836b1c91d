SPECIFICATION FairSpec
CONSTANTS
    Ports <- TwoPorts
    BusyPorts <- NoPort
    IpHashes <- Hashes
    LoadPolicy = "seq"
    Commands <- RegistryCommands
    MaxAgents = 2
    MaxUsers = 2
    MaxServices = 2
    MaxSessions = 2
    MaxEvents = 1
INVARIANTS
    TypeOK
    RegistryInv
    ListenerInv
PROPERTIES
    AcceptedUserHasAgent
    LostAgentIsWithdrawn
CHECK_DEADLOCK FALSE
