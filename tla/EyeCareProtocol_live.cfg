SPECIFICATION FairSpec
CONSTANTS
    Req = {1, 2}
    MaxSnoozes = 1
    Overlap = TRUE
    MaxRev = 4
    MaxDay = 0
    MaxFaults = 1
    MaxCrashes = 0
PROPERTIES
    AbandonedBreakIsNoticed
    RequestsAreDecided
