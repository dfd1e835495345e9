SPECIFICATION FairSpec
CONSTANTS
    Calls = {c1, c2}
    Permits <- MCPermits
    Timeout = 2
    Reserve = 1
    Chunks = 2
    MaxEdits = 2
    Noisy = {c1}
    Mixes <- MCMixes
INVARIANTS
    ProbesNeverOverlap
    CommandLaneBounded
    OnlyExpectedDexRuns
PROPERTIES
    VerdictsEarned
    EveryCallEnds
CHECK_DEADLOCK FALSE
