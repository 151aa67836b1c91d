SPECIFICATION FairSpec
CONSTANTS
    Sides <- RelaySide
    Limit = 1
    Loads <- MostlyFromUser
    MaxPosted = 2
PROPERTIES
    UserServedToTheEnd
CHECK_DEADLOCK FALSE
