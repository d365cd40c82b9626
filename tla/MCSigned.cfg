CONSTANTS
    Devices = {d1}
    Keys = {k1, k2}
    Nonces = {n1}
    Stamps = {1}
    JWTs = {j1, j2}
    Requests = {r1, r2}
    None = None
    Skew = 1
    NonceTTL = 3
    AccessTTL = 1
    MaxClock = 4
SPECIFICATION Spec
SYMMETRY Symmetry
INVARIANTS
    TypeOK
    DisabledCutOff
PROPERTIES
    KeyInForce
    AcceptedOnce
