SPECIFICATION FairSpec
CONSTANTS
    Calls = {c1, c2}
    Streams = {music}
    MaxLevel = 1
    Grants = {g1, g2}
    NoGrant = NoGrant
    NoOne = NoOne
    MaxOutside = 1
INVARIANTS
    TypeOK
PROPERTIES
    OutcomeTruthful
    EveryMutationEnds
CHECK_DEADLOCK FALSE
