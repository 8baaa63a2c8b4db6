SPECIFICATION Spec
CONSTANTS
    Req = {1, 2}
    MaxSnoozes = 1
    Overlap = TRUE
    MaxRev = 4
    MaxDay = 0
    MaxFaults = 0
    MaxCrashes = 0
PROPERTIES
    OnlyTheUserEndsABreak
