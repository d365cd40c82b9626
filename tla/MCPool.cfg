CONSTANTS
    a1 = a1
    Handlers = {h1, h2, h3}
    Sessions = {s1, s2}
    Accounts = {a1}
    AccountOf <- OneAccount
    None = None
    PoolSize = 2
SPECIFICATION Spec
SYMMETRY Symmetry
INVARIANTS
    TypeOK
    SomeoneCanMove
    ClosesAfterDrain
PROPERTIES
    NeverSetBack
    StopDrains
