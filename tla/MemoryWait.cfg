CONSTANTS
    Threads = {t1, t2, t3}
    Values = {0, 1}
    NoWaiters = none
    WaiterLimit = 3
    Profiles <- ClosingProfiles
    callStackCeiling = 3
    ByteBits = 2
    MaxExceptions = 3
    Fuel = 30
SPECIFICATION StopsSpec
INVARIANTS
    TypeOK
    NoLostWakeup
    ListExact
PROPERTIES
    PublishedWakes
    CloseStops
CHECK_DEADLOCK FALSE
