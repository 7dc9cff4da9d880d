SPECIFICATION RevocationSpec
CONSTANTS
    u1 = u1
    d1 = d1
    d2 = d2
    Users = {u1}
    Devices = {d1, d2}
    UserOf <- Shared
    Tokens = {t1, t2, t3}
    None = None
    Handlers = {h1, h2}
    DeviceWaits = TRUE
    Faults = {}
SYMMETRY Symmetric
PROPERTY AllTokensAreRevoked
