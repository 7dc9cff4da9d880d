\* Overlapping updates, the user's own POST and PATCH, every fault.
SPECIFICATION FairSpec
CONSTANTS
    Users = {u1}
    Names = {n1}
    Avatars = {a1}
    None = None
    Clear = Clear
    Handlers = {h1, h2}
    SnapHandlers = {s1}
    Consumer = consumer
    MaxQueue = 2
    Patient = FALSE
    Clears = FALSE
    Faults = {"publish", "commit", "statement", "userProcess",
              "upsert", "threadProcess", "shutdown"}
INVARIANT AuthorsAreKnown
PROPERTY EventsAreHandled
