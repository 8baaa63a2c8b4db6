SPECIFICATION FairSpec
CONSTANTS
    MaxSess = 7
    MaxSecs = 1
    MaxDay = 1
    MaxFaults = 1
    MaxCrashes = 1
    LateTicks = FALSE
    LateCalls = FALSE
INVARIANTS
    OneOpenRow
    DailyCoversSessions
    EvidenceMoves
PROPERTIES
    TotalsNeverShrink
    CompletedNeverRecovered
    NewDayBegins
