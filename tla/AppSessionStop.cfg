SPECIFICATION Spec
CONSTANTS
    AppIds = {"a1", "a2"}
    Starts = {1}
    AppOf <- MCAppOf
    Portals = {"access", "usb"}
    Interfaces <- MCInterfaces
    Stoppers = {"platform"}
    None = None
CHECK_DEADLOCK FALSE
INVARIANTS
    StoppedMeansNotRunning
