SPECIFICATION XSpec
CONSTANTS
    FailureThreshold = 3
    FailureWindow = 4
    RecoverySuccesses = 2
    DistractedFor = 2
    RecoveredFor = 2
    UnknownFor = 3
    Midnight = 6
    MaxNow = 9
    MaxGap = 2
    MaxEvents = 3
    MaxFaults = 0
    MaxStarts = 2
PROPERTIES
    ClosedAtMidnight
CHECK_DEADLOCK FALSE
