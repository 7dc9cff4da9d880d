SPECIFICATION Spec
CONSTANTS
    u1 = u1
    u2 = u2
    e1 = e1
    e2 = e2
    Users = {u1, u2}
    Events = {e1, e2}
    Targets <- Mentions
    Sockets = {s1}
    UserOf <- Pages
    Handlers = {h1, h2}
    Requests <- Marks
    None = None
    MaxDeliveries = 2
    Faults = {"database", "publish", "commit", "process", "shutdown", "emit"}
SYMMETRY Symmetric
INVARIANTS DeliveryInv AllTargetsAlike EveryTargetIsNotified PushedIsCommitted NothingFallsBetween
PROPERTIES MarkAllLeavesNothing
CHECK_DEADLOCK FALSE
