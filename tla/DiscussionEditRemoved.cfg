SPECIFICATION Spec
CONSTANTS
    Threads = {t1}
    Comments = {c1}
    Requests <- EachChange
    None = None
    MaxInFlight = 1
    Careful = FALSE
    Faults = {}
INVARIANT RemovedIsNotShown
CHECK_DEADLOCK FALSE
