CONSTANTS
    Threads = {t1, t2}
    Values = {0, 1}
    NoWaiters = none
    WaiterLimit = 3
SPECIFICATION FairSpec
PROPERTY CanceledReturns
CHECK_DEADLOCK FALSE
