SPECIFICATION Spec
CONSTANTS
    Items = {i1, i2}
    Readers = {r1}
    Order <- Orders
    Limit = 1
    Times = {1, 2}
    None = None
    MaxQueue = 2
    Repeated = FALSE
    Faults = {"publish", "emit", "commit"}
SYMMETRY Symmetric
INVARIANTS ThreadPageInv NothingIsSkipped PageMissesNothing DeletedIsNotLegible
CHECK_DEADLOCK FALSE
