SPECIFICATION FairSpec
CONSTANTS
    Media <- MCMedia
    Rates = {1, 2}
    MaxCalls = 3
    MaxPosts = 2
CHECK_DEADLOCK FALSE
INVARIANTS
    InitializedHeard
    PlayHolds
    SpeedHonoured
PROPERTIES
    DisposeReturns
