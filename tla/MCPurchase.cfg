SPECIFICATION Spec
CONSTANTS
    u1 = u1
    u2 = u2
    p1 = p1
    n1 = n1
    n2 = n2
    h1 = h1
    h2 = h2
    None = None
    Users = {u1, u2}
    Plans = {p1}
    Names = {n1, n2}
    DefaultName = n1
    MaxUses = 1
    MaxClients = 1
    Attempts = 2
    Handlers = {h1, h2}
    MaxDialogs = 2
    MaxOrders = 2
    MaxCrashes = 1
CHECK_DEADLOCK FALSE
INVARIANTS
    TypeOK
    OneOrderPerDialog
    ServedIsOnPanel
    RefundedHasNoClient
    OvershootIsBounded
    UsesHaveOrders
PROPERTIES
    EveryClickEnds
    ImplementsSale
