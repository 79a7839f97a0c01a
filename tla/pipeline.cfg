CONSTANTS
    Requests = {r1, r2}
    ClientIds = {c1}
    None = None
SPECIFICATION Spec
CHECK_DEADLOCK FALSE
INVARIANTS OneTraceId LogTellsTheAnswer BareServerErrors ProfilersLeft
