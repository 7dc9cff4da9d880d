SPECIFICATION FairSpec
CONSTANTS
    t1 = t1
    t2 = t2
    a = a
    b = b
    Threads = {t1, t2}
    Names = {a, b}
    Requests <- Edits
    None = None
    MaxInFlight = 2
    Faults = {"database", "publish", "commit", "process"}
INVARIANTS TagsInv EditTakesEffect ToldTagsAreCurrent
PROPERTIES RequestsEnd
CHECK_DEADLOCK FALSE
