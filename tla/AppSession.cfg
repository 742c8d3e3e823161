SPECIFICATION FairSpec
CONSTANTS
    AppIds = {"a1", "a2"}
    Starts = {1, 2}
    AppOf <- MCAppOf
    Portals = {"access", "usb"}
    Interfaces <- MCInterfaces
    Stoppers = {"platform", "io"}
    None = None
CHECK_DEADLOCK FALSE
INVARIANTS
    OneMonitorPerApp
    RunningKeepsPortals
PROPERTIES
    StartAnsweredWhileUp
    ExitEndsMonitor
    StopReturns
