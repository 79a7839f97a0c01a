SPECIFICATION Spec
CONSTANTS
    Users = {u1, u2}
    Requests = {r1, r2}
    TTL = 1
    MaxSize = 1
    MaxTime = 3
    MaxVersion = 2
    Null = Null
SYMMETRY Symmetry
CHECK_DEADLOCK FALSE
INVARIANTS
    RefusalIsCurrent
    KeyErrorOnlyAtExpiry
PROPERTIES
    BoundedStaleness
