SPECIFICATION Spec
CONSTANTS
    Keys = {k1}
    upper = upper
    lower = lower
    other = other
    Codes <- MCCodes
    Lower <- MCLower
    Requests = {r1, r2}
    ExpireSeconds = 1
    MaxTime = 2
    MaxIssues = 2
    Null = Null
SYMMETRY Symmetry
CHECK_DEADLOCK FALSE
INVARIANTS
    NoReplay
PROPERTIES
    GuessesAreFree
