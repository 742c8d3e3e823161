SPECIFICATION FairSpec
CONSTANTS
    AppIds = {"a1", "a2"}
    MaxBytes = 1
    Calls = {1, 2, 3}
    AppOf <- MCRepeat
    Size <- MCUnitSize
    MinFree = 1
    DiskFree = 4
    MaxCalls = 2
CHECK_DEADLOCK FALSE
INVARIANTS
    TotalIsSumOfEntries
    CallbackAtMostOnce
PROPERTIES
    ImplementsService
