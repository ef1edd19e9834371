CONSTANTS
    Key = {k1, k2}
    Limit = 3
    Window = 4
    EvictionThreshold = 2
    MaxTime = 11
SPECIFICATION LimiterSpec
INVARIANTS
    BurstBounded
    NotStarved
SYMMETRY Symmetry
CHECK_DEADLOCK FALSE
