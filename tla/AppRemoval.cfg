SPECIFICATION FairSpec
CONSTANTS
    AppIds = {"a1"}
    Calls = {1, 2}
    AppOf <- MCAppOf
    Uninstalls = {1}
    ByRef = {}
    Fixed = {"location"}
    Devices = {"camera"}
    MaxEvents = 1
CHECK_DEADLOCK FALSE
INVARIANTS
    AnsweredOnceAndLast
    CleanRemoval
    FinalEventHeard
    FinalEventIsLast
PROPERTIES
    EveryCallAnswered
