SPECIFICATION FairSpec
CONSTANTS
    d1 = d1
    d2 = d2
    Domains = {d1, d2}
    Transactions <- ThenUnreadable
    Values <- OneIpfs
    Implausible = {}
    MutableKinds = {"ipns"}
    Writers = {w1}
    Reconcilers = {r1}
    BatchSize = 2
    MaxAttempts = 2
    Unreadable = {d2}
    Indexed = {d1}
    Settled <- BlockedRow
    Ownerless = {d1, d2}
    Registrars = {}
    FaultKinds = {"miss"}
    MaxWrites = 2
    MaxFaults = 1
INVARIANTS
    RowFollowed
PROPERTIES
    LastWriteMirrored
    QueueDrains
CHECK_DEADLOCK FALSE
