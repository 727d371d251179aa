SPECIFICATION Spec
CONSTANTS
    Replicas = {r1, r2}
    p1 = p1
    p2 = p2
    Payments = {p1, p2}
    DetailsOf <- MCDetailsOf
    Cap = 2
    MaxCalls = 3
    MaxInFlight = 2
    MaxFaults = 1
    MaxCrashes = 1
    MaxHalts = 1
    MaxUpsets = 2
SYMMETRY Symmetry
INVARIANTS RetryIsNotOffered OffersWithinCap AnswerIsTrue
PROPERTY HaltStopsTheRest
CHECK_DEADLOCK FALSE
