SPECIFICATION Spec
CONSTANTS
    r1 = r1
    r2 = r2
    s1 = s1
    s2 = s2
    x1 = x1
    x2 = x2
    x3 = x3
    Requests = {r1, r2}
    SessionIds = {s1, s2}
    StreamIds = {x1, x2, x3}
    DataSizes = {1, 3, 4}
    MaxSessions = 2
    IdleTimeout = 4
    MaxStreams = 2
    MaxEventBytes = 3
    MaxReplayBytes = 5
    Framing = 1
    RequestTimeout = 1
    LockDelay = 1
    MaxClock = 0
    SseEnabled = TRUE
SYMMETRY Symmetry
INVARIANTS
    StoreBounded
    ReplayIsolated
    NewestReplayable
CHECK_DEADLOCK FALSE
