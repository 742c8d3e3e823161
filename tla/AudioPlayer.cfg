SPECIFICATION FairSpec
CONSTANTS
    Sources = {s1, s2}
    NoSource = NoSource
    MaxBus = 2
    MaxSeeks = 1
    MaxCalls = 5
PROPERTIES
    EarlyResumeHonoured
    SeekRecovers
CHECK_DEADLOCK FALSE
