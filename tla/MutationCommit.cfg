SPECIFICATION Spec
CONSTANTS
    r1 = r1
    r2 = r2
    r3 = r3
    s1 = s1
    s2 = s2
    Requests = {r1, r2, r3}
    Servers = {s1, s2}
    ServerOf <- MCServerOf
    Grants = {"g1", "g2"}
    NoGrant = NoGrant
    NoOne = NoOne
    MaxRequests = 2
    MaxWorkers = 1
SYMMETRY Symmetry
INVARIANTS
    TypeOK
    CancelledIsClean
    OneMutationPerGrant
    AuditedOnce
    HonestAnswers
    PermitsExact
    PublicationExclusive
PROPERTY ImplementsAtomic
CHECK_DEADLOCK FALSE
