SPECIFICATION FairSpec
CONSTANTS
    r1 = r1
    r2 = r2
    r3 = r3
    s1 = s1
    s2 = s2
    Requests = {r1, r2, r3}
    Servers = {s1, s2}
    ServerOf <- MCServerOf
    Grants = {"g1"}
    NoGrant = NoGrant
    NoOne = NoOne
    MaxRequests = 1
    MaxWorkers = 1
PROPERTY EverythingEnds
CHECK_DEADLOCK FALSE
