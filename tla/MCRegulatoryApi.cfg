SPECIFICATION RASpec
CONSTANTS
    Requests = {r1, r2, r3}
    Replicas = {p1, p2}
    Costs = {1, 4}
    QueryBudget = 2
    EpsilonBudget = 5
    Rate = 1
    Period = 2
    MonthLength = 2
    MaxTime = 2
    MaxFaults = 1
    MaxCrashes = 1
CHECK_DEADLOCK FALSE
SYMMETRY Symmetry
INVARIANTS
    MeteredWithinBudget
    UnmeteredWasOvertaken
    RateIsKept
