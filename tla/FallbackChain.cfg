\* Three concurrent calls over a primary and one fallback, under a fair clock.
SPECIFICATION FairSpec
CONSTANTS
    Call = {c1, c2, c3}
    CHAIN_LENGTH = 2
    FAILURE_THRESHOLD = 2
INVARIANTS
    TypeOK
    SingleProbeUndisturbed
    ClosedBelowThreshold
PROPERTY NeverWedged
