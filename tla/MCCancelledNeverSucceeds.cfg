CONSTANTS
    Sessions = {s1}
    Devices = {d1}
    Providers = {p1}
    Tokens = {t1}
    Requests = {r1, r2}
    None = None
    SessionTTL = 1
    MaxClock = 1
SPECIFICATION Spec
SYMMETRY Symmetry
PROPERTY CancelledNeverSucceeds
