CONSTANTS
    Top = 2
    MaxLen = 3
    None = None
    Null = Null
    Uuids <- MCUuids
    Day = 3
    Longest = 8
    RowIds = {r1, r2}
    MaxOffset = 1
    Filters <- MCFilters

SPECIFICATION MCSpec
CHECK_DEADLOCK FALSE

INVARIANTS
    PrefixScan
    StoredByTime
    FilteredListing
    WrittenOnce
    WarningsArrive
PROPERTIES
    RewriteSettles
