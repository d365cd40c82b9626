CONSTANTS
    Sessions = {s1}
    Devices = {d1, d2}
    Providers = {p1, p2}
    Tokens = {t1, t2}
    Requests = {r1, r2}
    None = None
    SessionTTL = 1
    MaxClock = 2
SPECIFICATION Spec
SYMMETRY Symmetry
INVARIANTS
    TypeOK
    SecretsAtRest
PROPERTIES
    LifecycleUnlessStale
    LapsedOnlyExpires
    CustodyKept
    SettledStays
