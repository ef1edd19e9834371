\* An original, three retries and two different requests under one key.
SPECIFICATION Spec
CONSTANTS
    Request = {r1, r2, r3, r4}
    Hash = {h1, h2}
    None = None
SYMMETRY Symmetry
INVARIANTS
    TypeOK
    OneLiveClaim
    ReplayMatchesRequest
PROPERTY FirstResponseKept
CHECK_DEADLOCK FALSE
