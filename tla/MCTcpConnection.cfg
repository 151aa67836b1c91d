SPECIFICATION FairSpec
CONSTANTS
    Kinds <- AllKinds
    NoDelay = TRUE
    MaxPacket = 2
    RecvBuf = 2
    Sizes <- EmptyOrTwo
    MaxMessages = 2
    MaxParts = 2
    MaxWakes = 1
INVARIANTS
    TypeOK
    BlockedReadsAtMostOne
    CallbacksFollowTheQueue
PROPERTIES
    DeliversInOrder
    NothingStuck
CHECK_DEADLOCK FALSE
