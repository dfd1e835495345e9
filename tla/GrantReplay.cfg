SPECIFICATION Spec
CONSTANTS
    n1 = n1
    n2 = n2
    a1 = a1
    a2 = a2
    a3 = a3
    a4 = a4
    g1 = g1
    g2 = g2
    s1 = s1
    s2 = s2
    w1 = w1
    w2 = w2
    Namespaces = {n1, n2}
    NamespaceCapacity = 1
    Authorities = {a1, a2, a3, a4}
    NamespaceOf <- MCNamespaceOf
    CapacityOf <- MCCapacityOf
    GrantIds = {g1, g2}
    Sessions = {s1, s2}
    Targets = {"t1"}
    Lifetimes <- MCLifetimes
    MaximumLifetime = 1
    MaximumFutureSkew = 0
    ClockValues <- MCClockValues
    Workers = {w1, w2}
SYMMETRY Symmetry
INVARIANTS
    TypeOK
    AtMostOnce
    DenialLeavesUnspent
PROPERTY LiveEntriesKept
CHECK_DEADLOCK FALSE
