SPECIFICATION FairSpec
CONSTANTS
    Sides <- BothSides
    Limit = 2
    Loads <- MostlyOneWay
    MaxPosted = 2
INVARIANTS
    TypeOK
    StoppedSourceIsResumed
PROPERTIES
    StopIsLifted
CHECK_DEADLOCK FALSE
