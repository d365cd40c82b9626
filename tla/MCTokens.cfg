CONSTANTS
    Devices = {d1, d2}
    Providers = {p1, p2}
    RefreshTokens = {t1, t2}
    BrokerTokens = {b1, b2}
    Requests = {r1, r2}
    Bare = Bare
    None = None
SPECIFICATION Spec
SYMMETRY Symmetry
INVARIANTS
    TypeOK
    OwnAccount
    BrokerTokensLead
PROPERTIES
    RefreshTokenKept
    RegisterKept
    GrantKept
