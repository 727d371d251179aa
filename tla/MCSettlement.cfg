SPECIFICATION Spec
CONSTANTS
    Loans = {l1, l2}
    Tenants = {t1}
    Bank = Bank
    MaxConcurrent = 1
    MonthLength = 3
    FirstWeekday <- MCFirstWeekday
    Start = 2
    SettledWindow = 1
    MaxTime = 4
    MaxFaults = 1
    MaxCrashes = 1
CHECK_DEADLOCK FALSE
SYMMETRY Symmetry
INVARIANTS
    BooksAreComplete
    SnapshotMissesNothing
    
