SPECIFICATION Spec
CONSTANTS
    w1 = w1
    w2 = w2
    b1 = b1
    b2 = b2
    NoSession = NoSession
    NotLoaded = NotLoaded
    Sessions = {b1, b2}
    Preloading = {b1, b2}
    Amounts = {1, 2}
    InitialBalance = 1
    CreditLimit = 1
    MaxRows = 4
    MaxOps = 2
CHECK_DEADLOCK FALSE
INVARIANT
    LedgerChain
