SPECIFICATION FairSpec
CONSTANTS
    Offsets = 3
    MaxRetries = 2
    MaxFaults = 3
    MaxCrashes = 1
    MaxStops = 1
CHECK_DEADLOCK FALSE
INVARIANTS
    CommittedIsAnswered
    OutputsInOrder
PROPERTIES
    OffsetNeverMovesBack
    PaymentIsAnswered
