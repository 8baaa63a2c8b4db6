SPECIFICATION PSpec
CONSTANTS
    MaxDay = 1
    MaxPresses = 4
    Windows = {w1}
    Missions = {m1, m2}
    OldMissions = {m1}
    Activities = {k1, k2}
INVARIANTS
    PartsTypeOK
    OneReviewPerOff
    DeletedStaysDeleted
    LedgerAddsUp
    ToldOnce
    CountedOnce
    StartNeedsEvidence
    DueIsTold
PROPERTIES
    StartsOnlyWhenOff
    OffIsReviewed
    StartKeepsTheKey
    ShortSwitchIsNoEvent
    RemindersStartAnew
    SnapshotIsStable
    DueIsEarned
CHECK_DEADLOCK FALSE
