SPECIFICATION Spec
CONSTANTS
    Threads = {t1}
    Comments = {c1, c2}
    Requests <- RepeatedRemovals
    None = None
    MaxInFlight = 1
    Careful = FALSE
    Faults = {}
INVARIANT CountsMatchListed
CHECK_DEADLOCK FALSE
