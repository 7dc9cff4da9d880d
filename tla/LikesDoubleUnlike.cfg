SPECIFICATION Spec
CONSTANTS
    Users = {u1, u2}
    Threads = {t1}
    Comments = {}
    Attempts = {a1, a2}
    NoRequest = NoRequest
    MaxInFlight = 2
    ClientWaits = "reply"
    Faults = {}
INVARIANT CountMatchesLikes
