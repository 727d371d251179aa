SPECIFICATION FairSpec
CONSTANTS
    Pods = {p1, p2}
    Offers = {o1, o2}
    NoOffer = NoOffer
    Ttl = 1
    MaxTime = 1
    MaxFaults = 1
INVARIANTS
    StoreAgrees
    OneTruthfulReply
    FundedOnceAndAccepted
    NoEarlyExpiry
PROPERTIES
    OutcomeIsFinal
    AnnouncedIsResolved
    ImplementsLifecycle
