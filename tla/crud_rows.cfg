SPECIFICATION Spec
CONSTANTS
    Ids = {i1, i2}
    Names = {n1, n2}
    Companies = {c1}
    Tags = {}
    Requests = {r1, r2}
    Operations = {"create", "update", "delete"}
    SoftDeletes = TRUE
    MaxTime = 1
    Unset = Unset
    Null = Null
SYMMETRY Symmetry
CHECK_DEADLOCK FALSE
INVARIANTS
    UniqueLive
    OkUpdateHappened
    ReadYourWrites
PROPERTIES
    ImplementsRowTable
