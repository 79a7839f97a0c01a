CONSTANTS
    Ids = {1, 2, 3, 4}
    Times = {1, 2}
    MaxSize = 3
    MaxLimit = 2
    MaxWrites = 2
SPECIFICATION Spec
CHECK_DEADLOCK FALSE
INVARIANTS NothingSkipped RepeatsOnlyByShift PageInfoAgrees
