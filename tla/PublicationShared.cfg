SPECIFICATION Spec
CONSTANTS
    n1 = n1
    n2 = n2
    f1 = f1
    f2 = f2
    f3 = f3
    f4 = f4
    p1 = p1
    p2 = p2
    o1 = o1
    o2 = o2
    o3 = o3
    o4 = o4
    Names = {n1, n2}
    Inodes = {f1, f2, f3, f4}
    Initial <- OneFile
    Ops = {o1, o2, o3, o4}
    KindOf <- SharedKind
    TargetOf <- SharedTarget
    SourceOf <- SharedSource
    ProcessOf <- SharedProcess
    Processes = {p1, p2}
    MaxArtifacts = 1
    MaxOutside = 0
    None = None
INVARIANTS
    TypeOK
    RecoveryRetained
    QuarantinesBounded
PROPERTY NothingLost
CHECK_DEADLOCK FALSE
