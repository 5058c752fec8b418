SPECIFICATION Spec
CONSTANTS
    a = a
    c = c
    NoRow = NoRow
    NoOne = NoOne
    Worker = Worker
    People = {a, c}
    Owner = a
    Tasks = {1,2}
    MaxTickets = 2
    MaxJobs = 2
    MaxEvents = 3
    MaxCrashes = 1
CHECK_DEADLOCK FALSE
INVARIANTS
    TypeOK
    StartNeverFails
    AnsweredWasDelivered
    WaitingIsOpen
    SentOncePerRun
    FinishedTriedAll
    BannedGetsNoMail
PROPERTIES
    BroadcastEnds
