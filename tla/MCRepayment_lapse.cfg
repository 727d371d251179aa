SPECIFICATION Spec
CONSTANTS
    Instances = {i1, i2}
    Loans = {l1}
    Blocked = {}
    Policy = "NONE"
    NoLoan = NoLoan
    Maturity = 1
    Ttl = 2
    MaxTime = 3
    MaxCrashes = 0
    MaxRedisErrors = 0
INVARIANT RepaidAtMostOnce
