SPECIFICATION FairSpec
CONSTANTS
    Calls = {1, 2, 3}
    AppIds = {"a1", "a2", "a3"}
    AppOf <- MCAppOf
    Permissions = {"camera", "usb"}
    Needs <- MCNeeds
    AskedBefore = {"a2"}
    Ids = {1, 2}
    Hasty <- MCHasty
    NoRequest = NoRequest
CHECK_DEADLOCK FALSE
INVARIANTS
    ProcessedMeansDecided
    GrantsAreUsers
PROPERTIES
    ImplementsService
