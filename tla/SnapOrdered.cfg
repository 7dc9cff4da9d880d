\* Users who wait for their commits, and crashes of the thread service.
SPECIFICATION Spec
CONSTANTS
    Users = {u1, u2}
    Names = {n1, n2, n3}
    Avatars = {a1}
    None = None
    Clear = Clear
    Handlers = {h1, h2}
    SnapHandlers = {}
    Consumer = consumer
    MaxQueue = 3
    Patient = TRUE
    Clears = FALSE
    Faults = {"statement", "threadProcess"}
SYMMETRY Symmetric
INVARIANTS SnapsAreCurrent MentionsResolve
PROPERTY SnapsFollowProfiles
