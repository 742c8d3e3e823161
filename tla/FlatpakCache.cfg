SPECIFICATION FairSpec
CONSTANTS
    Keys = {"installed"}
    Callers = {"platform", "worker"}
    TTL = 1
    MaxVersion = 1
    MaxClock = 2
    NoEntry = NoEntry
INVARIANTS
    ForcedIsFresh
PROPERTIES
    HitsWithinTTL
    DestructorReturns
