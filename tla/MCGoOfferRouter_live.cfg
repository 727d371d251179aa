SPECIFICATION FairSpec
CONSTANTS
    Offers = {a}
    Clients = {c1}
    MaxRuns = 1
    MaxConcurrent = 1
    Expiry = 1
    Ttl = 1
    MaxTime = 2
    Events = {"kill", "shutdown"}
CHECK_DEADLOCK FALSE
PROPERTY GoroutineEnds
