SPECIFICATION Spec
CONSTANTS
    Ids = {i1}
    Names = {n1}
    Companies = {c1}
    Tags = {t1, t2}
    Requests = {r1, r2}
    Operations = {"create", "update", "delete"}
    SoftDeletes = FALSE
    MaxTime = 1
    Unset = Unset
    Null = Null
SYMMETRY Symmetry
CHECK_DEADLOCK FALSE
INVARIANTS
    RejectedChangedNothing
    ReplacedLinks
