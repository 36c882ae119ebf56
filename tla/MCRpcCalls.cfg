SPECIFICATION RpcFairSpec
CONSTANTS
    a = a
    b = b
    p = p
    Callers = {a, b, p}
    PageFetches = {p}
    Capacity = 2
    One = 3
    Rate = 2
    MinWait = 2
    Skew = 2
    MaxSets = 1
    Retries <- AttemptsEach
    Delay = 1
    MaxDelay = 3
INVARIANTS
    RpcTypeOK
    RateBound
    TimerWhileWaiting
    GivesUpOnlyAfterPatience
    RequestBound
PROPERTIES
    EveryCallSettles
