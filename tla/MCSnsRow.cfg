SPECIFICATION FairSpec
CONSTANTS
    Domain = d
    Accounts <- AccountForms
    Transactions <- Forms
    Chunk = 1
    Registrars = {g1}
    Writers = {w1}
    Reconcilers = {r1}
    MaxAttempts = 1
    MaxSigs = 3
    MaxSlot = 2
    MaxFaults = 1
INVARIANTS
    TypeOK
    OnlyRegistered
PROPERTIES
    OwnerRecorded
    LatestWriteStamped
