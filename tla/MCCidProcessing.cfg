SPECIFICATION FairSpec
CONSTANTS
    Domains = {d1, d2, d3}
    Workers = {w1, w2}
    MaxFaults = 1
INVARIANTS
    TypeOK
    RefListed
    NoStaleMember
    NoChangeLost
PROPERTIES
    NoDanglingGroup
CHECK_DEADLOCK FALSE
