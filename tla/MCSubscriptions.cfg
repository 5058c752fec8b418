SPECIFICATION Spec
CONSTANTS
    v1 = v1
    v2 = v2
    i1 = i1
    NoServer = NoServer
    NoTask = 0
    Servers = {v1, v2}
    Inbounds = {i1}
    MaxServerOps = 2
    N = 1
    Tasks = {1,2}
    Home = v1
    Base = 1
    MaxTime = 1
    MaxClicks = 2
    MaxCrashes = 1
    MaxEvents = 3
CHECK_DEADLOCK FALSE
INVARIANTS
    TypeOK
    OneRefundPerDeletion
    RefundedHasNoClient
    IdAgrees
    NoFreeVolume
    LiveKeepsServer
    OffServerHasNoInbound
PROPERTIES
    UsedUpExpires
    GoneIsNoticed
