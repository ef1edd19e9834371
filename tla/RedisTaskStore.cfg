CONSTANTS
    Task = {t1}
    NoTask = none
    Worker = {w1, w2}
    Reclaimer = reclaim
    SECOND = 3
    LEASE = 1
    TTL = 2
    MaxLag = 1
    MaxTime = 5
    MaxClaims = 2
    TASKS_MAX_ATTEMPTS = 2
    TASKS_RECLAIM_BATCH_SIZE = 1
    TASKS_CLEANUP_BATCH_SIZE = 1
SPECIFICATION Spec
INVARIANTS
    LeaseExclusion
    EndsAsPromised
PROPERTY ImplementsTaskStore
SYMMETRY Symmetry
CHECK_DEADLOCK FALSE
