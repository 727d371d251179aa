SPECIFICATION HOFairSpec
CONSTANTS
    Requests = {r1, r2}
    Operators = {o1, o2}
    Sweepers = {s1}
    NoRequest = NoRequest
    Timeout = 1
    MaxTime = 3
INVARIANT TimesOutOnceAndLate
PROPERTIES
    DecisionIsFinal
    RequestIsDecided
