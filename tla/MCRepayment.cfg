SPECIFICATION FairSpec
CONSTANTS
    Instances = {i1, i2}
    Loans = {l1}
    Blocked = {}
    Policy = "REQUIRE_FULL"
    NoLoan = NoLoan
    Maturity = 1
    Ttl = 2
    MaxTime = 3
    MaxCrashes = 1
    MaxRedisErrors = 1
INVARIANTS
    RepaidOnceWithinTtl
    BooksAreKept
    RequireFullHolds
PROPERTY MaturedIsRepaid
