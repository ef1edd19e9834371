\* Outbox dispatch under fairness: a task is settled in spite of two faults.
SPECIFICATION FairSpec
CONSTANTS
    Task = {t1}
    NoTask = NoTask
    Event = {e1, e2}
    MsgId = {m1, m2}
    NoMsg = NoMsg
    Process = {p1}
    Handler = {h1}
    TASKS_DISPATCH_BACKEND = "outbox"
    TASKS_MAX_ATTEMPTS = 2
    TASKS_RECLAIM_BATCH_SIZE = 1
    TASKS_CLEANUP_BATCH_SIZE = 1
    OUTBOX_BATCH_SIZE = 1
    OUTBOX_MAX_ATTEMPTS = 2
    OUTBOX_CLEANUP_BATCH_SIZE = 1
    QUEUE_MAX_DELIVERIES = 2
    WORKER_MAX_ATTEMPTS = 2
    MAX_FAULTS = 2
PROPERTY QueuedIsSettled
CHECK_DEADLOCK FALSE
