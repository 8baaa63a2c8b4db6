SPECIFICATION Spec
CONSTANTS
    Req = {1, 2}
    MaxSnoozes = 1
    Overlap = FALSE
    MaxRev = 3
    MaxDay = 1
    MaxFaults = 1
    MaxCrashes = 1
INVARIANTS
    TypeOK
    NoOrphanBreak
    NothingForgotten
PROPERTIES
    OnlyTheUserEndsABreak
    ReturnsToModeBefore
    DecidedIsFinal
    CrashKeepsBreak
