SPECIFICATION Spec
CONSTANTS
    MaxSess = 5
    MaxSecs = 1
    MaxDay = 0
    MaxFaults = 0
    MaxCrashes = 0
    LateTicks = FALSE
    LateCalls = TRUE
PROPERTIES
    CompletedNeverRecovered
