SPECIFICATION Spec
CONSTANTS
    c1 = c1
    c2 = c2
    Calls = {c1, c2, c3}
    AuthCalls = {c1, c2}
    CameraCalls = {c1, c2, c3, c4}
    Users = {u1, u2}
    NoUser = nobody
    MaxListens = 2
    MaxStreams = 2
    MaxPosted = 1
    MaxRequests = 4
    MaxRetries = 2
    Apps = {a1, a2}
    Handles = {h1, h2}
    Keys = {k1, k2}
    Values = {v1, v2}
    NoValue = nothing
    Cameras = {cam1, cam2}
    MaxPlayers = 2
    MaxSubscribed = 2
    MaxIdle = 3
    MaxAttempts = 3
    Sources = {s1, s2}
    NoSource = NoSource
    MaxBus = 2
    MaxSeeks = 1
    MaxCalls = 5
    Messages = {m1}
SYMMETRY Symmetry
INVARIANTS
    SinkInUseIsSet
    StreamIsCurrent
    CancelledStaysEnded
    StoresWhatWasTold
    FrameKeepsItsStream
    RetriesAreBounded
    CommitsOwnAnswer
    GetReadsOwnAttempt
    PlaysSourceSetLast
    RepliedOnce
    CodecsAgree
PROPERTIES
    SilentAfterDispose
    CompletesOnce
CHECK_DEADLOCK FALSE
