SPECIFICATION Spec
CONSTANTS
    Windows = {w1}
    MaxModels = 2
    MaxShift = 2
    AuthDelay = 3
    RateDelay = 2
    CacheLife = 2
    MaxUpdates = 1
PROPERTIES
    RulesOnlyAfterChain
