SPECIFICATION TVSpec
CONSTANTS
    Calls = {c1, c2, c3}
    t1 = t1
    t2 = t2
    Tenants = {t1, t2}
    Benes = {b1, b2}
    Amounts = {1, 5}
    DollarCap <- MCDollarCap
    CountCap <- MCCountCap
    Window = 1
    MaxTime = 2
    MaxFaults = 1
CHECK_DEADLOCK FALSE
SYMMETRY Symmetry
INVARIANTS
    TVTypeOK
    RollingCap
    StructuringIsFlagged
