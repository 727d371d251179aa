SPECIFICATION Spec
CONSTANTS
    Offers = {a, b}
    Clients = {c1, c2}
    MaxRuns = 2
    MaxConcurrent = 1
    Expiry = 1
    Ttl = 0
    MaxTime = 1
    Events = {}
CHECK_DEADLOCK FALSE
SYMMETRY Symmetry
INVARIANTS
    QueryStillAnswers
    RegistryIsExact
    OutcomeHasCause
PROPERTY OneTerminalBranch
