SPECIFICATION FairSpec
CONSTANTS
    d1 = d1
    d2 = d2
    Domains = {d1, d2}
    Transactions <- Assorted
    Values <- WithJunk
    Implausible = {"x:k"}
    MutableKinds = {"ipns"}
    Writers = {w1}
    Reconcilers = {}
    BatchSize = 1
    MaxAttempts = 2
    Unreadable = {}
    Indexed = {d1}
    Settled <- NoRows
    Ownerless = {d1, d2}
    Registrars = {}
    FaultKinds = {}
    MaxWrites = 2
    MaxFaults = 0
INVARIANTS
    OnlyOwnContent
PROPERTIES
    PointerFollowsRow
    IndexFollowsRow
CHECK_DEADLOCK FALSE
