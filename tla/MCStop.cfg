CONSTANTS
    a1 = a1
    Handlers = {h1, h2}
    Sessions = {s1, s2}
    Accounts = {a1}
    AccountOf <- OneAccount
    None = None
    PoolSize = 1
SPECIFICATION FairSpec
PROPERTIES
    HandlersFinish
    StopEnds
