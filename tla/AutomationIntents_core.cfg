SPECIFICATION FairSpec
CONSTANTS
    MaxIntents = 2
    MaxPresses = 1
    MaxDay = 1
    MaxCrashes = 1
INVARIANTS
    TypeOK
    UsersBreakIsKept
    EndsItsOwnSession
PROPERTIES
    LifecycleIsKept
    SnoozeIsKept
    EveryIntentSettles
