SPECIFICATION FairSpec
CONSTANTS
    cron = cron
    once = once
    Procs <- CronAndOnce
    PageLimit = 1
    MaxPages = 2
    Concurrency = 2
    Seed = 0
    MaxSigs = 3
    MaxSlot = 2
    MaxFaults = 1
INVARIANTS
    TypeOK
    SkippedOnlyBehindFullWindow
    CursorInv
PROPERTIES
    EverySigProcessed
    TickEnds
