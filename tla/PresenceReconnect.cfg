SPECIFICATION Spec
CONSTANTS
    u1 = u1
    u2 = u2
    s1 = s1
    s2 = s2
    s3 = s3
    Users = {u1}
    Sockets = {s1, s2}
    UserOf <- Owners
    Threads = {t1}
    None = None
    MaxTasks = 2
    Faults = {}
INVARIANT ConnectedAreOnline
CHECK_DEADLOCK FALSE
