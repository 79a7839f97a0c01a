SPECIFICATION SchemaSpec
CONSTANTS
    Model <- MCModel
    Calls <- MCCalls
    Declared <- MCDeclared
    Selections <- MCSelections
    MaxRecursion = 3
    MaxCalls = 3
    NoName = "None"
CHECK_DEADLOCK FALSE
INVARIANTS
    Prefetched
