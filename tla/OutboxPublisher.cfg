\* Two publishers share two rows and claim both in one batch.
SPECIFICATION PubSpec
CONSTANTS
    Task = {t1}
    NoTask = NoTask
    Event = {e1, e2}
    Process = {p1, p2}
    OUTBOX_BATCH_SIZE = 2
    OUTBOX_MAX_ATTEMPTS = 2
    OUTBOX_CLEANUP_BATCH_SIZE = 2
    MAX_CRASHES = 1
SYMMETRY Symmetry
INVARIANTS
    PubTypeOK
    PublishedWasSent
    NoDoubleClaim
    GivesUpAtCap
PROPERTY PublishedOnce
CHECK_DEADLOCK FALSE
