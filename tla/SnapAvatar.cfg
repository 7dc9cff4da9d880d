\* Users who take their avatars away.
SPECIFICATION Spec
CONSTANTS
    Users = {u1}
    Names = {n1, n2}
    Avatars = {a1}
    None = None
    Clear = Clear
    Handlers = {h1, h2}
    SnapHandlers = {}
    Consumer = consumer
    MaxQueue = 3
    Patient = TRUE
    Clears = TRUE
    Faults = {}
INVARIANT SnapsAreCurrent
