SPECIFICATION FairSpec
CONSTANTS
    Users = {u1, u2, u3}
    Threads = {t1}
    Comments = {}
    Attempts = {a1}
    NoRequest = NoRequest
    MaxInFlight = 3
    ClientWaits = "commit"
    Faults = {"database"}
INVARIANTS CountMatchesLikes BroadcastIsCurrent
PROPERTY RequestsEnd
