\* Under fairness: two publishers, one row, one crash.
SPECIFICATION PubFairSpec
CONSTANTS
    Task = {t1}
    NoTask = NoTask
    Event = {e1}
    Process = {p1, p2}
    OUTBOX_BATCH_SIZE = 2
    OUTBOX_MAX_ATTEMPTS = 2
    OUTBOX_CLEANUP_BATCH_SIZE = 2
    MAX_CRASHES = 1
PROPERTY EventIsSettled
CHECK_DEADLOCK FALSE
