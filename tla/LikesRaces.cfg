SPECIFICATION Spec
CONSTANTS
    Users = {u1, u2}
    Threads = {}
    Comments = {c1}
    Attempts = {a1, a2}
    NoRequest = NoRequest
    MaxInFlight = 3
    ClientWaits = "nothing"
    Faults = {"publish", "commit", "process"}
SYMMETRY Symmetric
INVARIANT LikesInv
INVARIANT CountNeverExceedsLikes
PROPERTY DeletedIsFrozen
