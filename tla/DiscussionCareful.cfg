SPECIFICATION Spec
CONSTANTS
    Threads = {t1}
    Comments = {c1, c2}
    Requests <- EachChange
    None = None
    MaxInFlight = 2
    Careful = TRUE
    Faults = {"database", "commit", "process"}
SYMMETRY Symmetric
INVARIANT CountsMatchListed
INVARIANT RemovedIsNotShown
CHECK_DEADLOCK FALSE
