\* Queue dispatch: two tasks reclaimed in one batch, two faults.
SPECIFICATION Spec
CONSTANTS
    Task = {t1, t2}
    NoTask = NoTask
    Event = {e1}
    MsgId = {m1, m2}
    NoMsg = NoMsg
    Process = {p1}
    Handler = {h1}
    TASKS_DISPATCH_BACKEND = "queue"
    TASKS_MAX_ATTEMPTS = 2
    TASKS_RECLAIM_BATCH_SIZE = 2
    TASKS_CLEANUP_BATCH_SIZE = 2
    OUTBOX_BATCH_SIZE = 1
    OUTBOX_MAX_ATTEMPTS = 2
    OUTBOX_CLEANUP_BATCH_SIZE = 1
    QUEUE_MAX_DELIVERIES = 2
    WORKER_MAX_ATTEMPTS = 2
    MAX_FAULTS = 2
SYMMETRY Symmetry
INVARIANT QueuedIsAnnounced
CHECK_DEADLOCK FALSE
