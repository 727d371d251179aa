CONSTANTS
    Callers = {c1, c2}
    Agents = {a1}
    a1 = a1
    Home <- OneProcess
    Main = main
    Binary = binary
    Routers = {g1}
    MaxCalls = 5
    MaxFaults = 1
SPECIFICATION KSFairSpec
INVARIANTS
    HaltStands
    CountsActivations
PROPERTIES
    HaltReachesRouters
    SignalIsServed
