CONSTANTS
    Sessions = {s1, s2}
    Devices = {d1, d2}
    Providers = {p1}
    Tokens = {t1, t2}
    Requests = {r1, r2}
    None = None
    SessionTTL = 1
    MaxClock = 1
SPECIFICATION Spec
SYMMETRY Symmetry
INVARIANTS
    Provenance
    UsedIsStored
    SingleCustody
PROPERTY RedeemedOnce
