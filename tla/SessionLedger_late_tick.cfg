SPECIFICATION Spec
CONSTANTS
    MaxSess = 9
    MaxSecs = 1
    MaxDay = 1
    MaxFaults = 0
    MaxCrashes = 0
    LateTicks = TRUE
    LateCalls = FALSE
PROPERTIES
    TotalsNeverShrink
