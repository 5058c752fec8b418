SPECIFICATION Spec
CONSTANTS
    w1 = w1
    w2 = w2
    b1 = b1
    b2 = b2
    NoSession = NoSession
    NotLoaded = NotLoaded
    Sessions = {w1, w2}
    Preloading = {}
    Amounts = {1, 2}
    InitialBalance = 0
    CreditLimit = 0
    MaxRows = 4
    MaxOps = 2
CHECK_DEADLOCK FALSE
INVARIANT
    LedgerChain
PROPERTY
    ImplementsLedger
