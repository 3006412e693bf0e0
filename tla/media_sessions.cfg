SPECIFICATION FairSpec
CONSTANTS
    Calls = {m1}
    Monitors = {m1}
    MaxOffers = 2
INVARIANTS
    NoTapLeft
    NoneStranded
PROPERTIES
    LegsSettle
    OrphanReaped
