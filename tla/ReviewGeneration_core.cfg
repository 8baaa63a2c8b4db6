SPECIFICATION Spec
CONSTANTS
    InitRev = 1
    MaxRecords = 1
    MaxEdits = 1
    MaxRequests = 2
    MaxFaults = 1
    MaxStops = 1
INVARIANTS
    ShownIsComplete
    ArtifactMatches
    ExclusionHolds
    JobIsTrue
