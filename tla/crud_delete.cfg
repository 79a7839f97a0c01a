SPECIFICATION Spec
CONSTANTS
    Ids = {i1, i2, i3}
    Names = {n1, n2}
    Companies = {c1}
    Tags = {}
    Requests = {r1, r2}
    Operations = {"create", "delete", "fake_delete"}
    SoftDeletes = TRUE
    MaxTime = 2
    Unset = Unset
    Null = Null
SYMMETRY Symmetry
CHECK_DEADLOCK FALSE
INVARIANTS
    DeleteAnswer
PROPERTIES
    RefusedCreateIsJustified
    DeletionFailsOnlyInItsSecond
