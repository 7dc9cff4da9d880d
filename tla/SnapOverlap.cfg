\* Updates of one user that overlap.
SPECIFICATION Spec
CONSTANTS
    Users = {u1}
    Names = {n1, n2}
    Avatars = {a1}
    None = None
    Clear = Clear
    Handlers = {h1, h2}
    SnapHandlers = {}
    Consumer = consumer
    MaxQueue = 3
    Patient = FALSE
    Clears = FALSE
    Faults = {}
INVARIANT SnapsAreCurrent
