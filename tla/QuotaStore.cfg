\* Three callers that may share a key, and a limit that two of them use up.
SPECIFICATION Spec
CONSTANTS
    Caller = {c1, c2, c3}
    Key = {k}
    Cost = {1}
    Limit = 2
    None = None
CONSTRAINT Promising
SYMMETRY Symmetry
INVARIANTS
    NeverNegative
    ConflictHasWinner
PROPERTY ImplementsLedger
CHECK_DEADLOCK FALSE
