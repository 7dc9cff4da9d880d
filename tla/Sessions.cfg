SPECIFICATION RevocationSpec
CONSTANTS
    u1 = u1
    d1 = d1
    d2 = d2
    Users = {u1}
    Devices = {d1, d2}
    UserOf <- Shared
    Tokens = {t1, t2, t3}
    None = None
    Handlers = {h1, h2}
    DeviceWaits = TRUE
    Faults = {"reply", "commit", "statement", "process"}
SYMMETRY Symmetric
INVARIANTS SessionsInv SessionHasOneToken SessionsAreKept SomeoneGoesOn
    RevokedSessionsStayOver DeletedGetOneTokenMore
PROPERTIES FoundTokensAreRevoked
