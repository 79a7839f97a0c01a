SPECIFICATION Spec
CONSTANTS
    LastKey = 3
    RetryTimes = 2
    Limit = 2
    MaxChanges = 2
CHECK_DEADLOCK FALSE
INVARIANTS
    Complete
    NoPhantom
    TwiceOnlyAfterReject
    LeaksOnlyByFailures
    RowsNeedEveryAttempt
