SPECIFICATION FairSpec
CONSTANTS
    d1 = d1
    d2 = d2
    Domains = {d1, d2}
    Transactions <- Simple
    Values <- OneIpfs
    Implausible = {}
    MutableKinds = {"ipns"}
    Writers = {w1}
    Reconcilers = {r1}
    BatchSize = 1
    MaxAttempts = 2
    Unreadable = {}
    Indexed = {}
    Settled <- NoRows
    Ownerless = {d1, d2}
    Registrars = {}
    FaultKinds = {}
    MaxWrites = 2
    MaxFaults = 0
PROPERTIES
    EveryWriteMirrored
CHECK_DEADLOCK FALSE
