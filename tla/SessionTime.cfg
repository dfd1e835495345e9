SPECIFICATION Spec
CONSTANTS
    r1 = r1
    r2 = r2
    s1 = s1
    s2 = s2
    x1 = x1
    x2 = x2
    x3 = x3
    Requests = {r1, r2}
    SessionIds = {s1, s2}
    StreamIds = {x1}
    DataSizes = {1}
    MaxSessions = 1
    IdleTimeout = 4
    MaxStreams = 1
    MaxEventBytes = 1
    MaxReplayBytes = 2
    Framing = 1
    RequestTimeout = 1
    LockDelay = 1
    MaxClock = 5
    SseEnabled = TRUE
SYMMETRY Symmetry
INVARIANTS
    TypeOK
    InFlightKept
PROPERTY
    ExpiryNotEarly
CHECK_DEADLOCK FALSE
