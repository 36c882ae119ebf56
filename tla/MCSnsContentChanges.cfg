SPECIFICATION FairSpec
CONSTANTS
    d1 = d1
    d2 = d2
    Domains = {d1, d2}
    Transactions <- AllForms
    Values <- OneIpfs
    Implausible = {}
    MutableKinds = {"ipns"}
    Writers = {w1, w2}
    Reconcilers = {}
    BatchSize = 1
    MaxAttempts = 1
    Unreadable = {}
    Indexed = {}
    Settled <- Known
    Ownerless = {d1}
    Registrars = {g1}
    FaultKinds = {"throw", "crash"}
    MaxWrites = 2
    MaxFaults = 1
INVARIANTS
    TypeOK
PROPERTIES
    EveryWriteMirrored
CHECK_DEADLOCK FALSE
