SPECIFICATION Spec
CONSTANTS
    AppIds = {"a1", "a2", "a3"}
    MaxBytes = 1
    Calls = {1, 2, 3}
    AppOf <- MCAppOf
    Size <- MCUnitSize
    MinFree = 1
    DiskFree = 3
    MaxCalls = 3
CHECK_DEADLOCK FALSE
INVARIANT
    AdmittedFitOnDisk
