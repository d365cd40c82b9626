CONSTANTS
    Devices = {d1}
    Keys = {k1}
    Nonces = {n1}
    Stamps = {1}
    JWTs = {j1, j2}
    Sessions = {s1}
    Providers = {p1}
    Tokens = {t1}
    None = None
    AuthSlots = {q1}
    Slots = {r1}
    Skew = 1
    NonceTTL = 2
    AccessTTL = 1
    SessionTTL = 1
    MaxClock = 2
SPECIFICATION Spec
SYMMETRY Symmetry
INVARIANTS
    TypeOK
    SessionsOfRegistered
PROPERTIES
    DisabledStaysOut
    HandedOutInTime
