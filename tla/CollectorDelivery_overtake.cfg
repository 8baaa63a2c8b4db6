SPECIFICATION DSpec
CONSTANTS
    MaxTurns = 2
    MaxV = 2
    MaxQueue = 2
    MaxTroubles = 0
PROPERTIES
    NeverOvertaken
CHECK_DEADLOCK FALSE
