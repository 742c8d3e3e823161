SPECIFICATION Spec
CONSTANTS
    AppIds = {"a1"}
    MaxBytes = 2
    Calls = {1}
    AppOf <- MCAppOf
    Size <- MCSize
    MinFree = 1
    DiskFree = 5
    MaxCalls = 1
CHECK_DEADLOCK FALSE
INVARIANT
    FinishedLeavesQueue
