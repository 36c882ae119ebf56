SPECIFICATION FairSpec
CONSTANTS
    cron = cron
    once = once
    Procs <- CronAndOnce
    Domains = {d1, d2}
    d1 = d1
    d2 = d2
    Reverse <- OneNamed
    BatchSize = 2
    Chunk = 1
    Total = 2
    PerTick = 1
    MaxFaults = 1
INVARIANTS
    TypeOK
    CompleteCovers
    BackfillInv
PROPERTIES
    KeepsPromise
    SweepCompletes
