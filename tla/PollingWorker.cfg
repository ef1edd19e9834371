CONSTANTS
    Body = {1, 2}
    NoBody = 0
    MaxCopies = 3
    MaxConcurrent = 1
    MaxAttempts = 2
    Batch = 2
    MaxTag = 2
    MaxFaults = 1
    Loops = {relay}
SPECIFICATION Spec
INVARIANTS
    NothingLost
    RetriesBounded
    ActiveBounded
PROPERTY SignalStopsWorker
CONSTRAINT SentInOrder
CHECK_DEADLOCK FALSE
