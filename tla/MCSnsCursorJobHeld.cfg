SPECIFICATION Spec
CONSTANTS
    cron = cron
    once = once
    Procs <- CronOnly
    PageLimit = 1
    MaxPages = 2
    Concurrency = 2
    Seed = 0
    MaxSigs = 4
    MaxSlot = 4
    MaxFaults = 1
INVARIANTS
    NeverPastFailedItem
