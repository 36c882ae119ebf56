SPECIFICATION FairSpec
CONSTANTS
    d1 = d1
    d2 = d2
    Domains = {d1}
    Transactions <- OneDomain
    Values <- OneOfEach
    Implausible = {}
    MutableKinds = {"ipns"}
    Writers = {w1}
    Reconcilers = {}
    BatchSize = 1
    MaxAttempts = 2
    Unreadable = {}
    Indexed = {}
    Settled <- NoRows
    Ownerless = {d1}
    Registrars = {}
    FaultKinds = {"throw"}
    MaxWrites = 2
    MaxFaults = 1
PROPERTIES
    PointerFollowsRow
CHECK_DEADLOCK FALSE
