CONSTANTS
    Threads = {t1, t2}
    Modules = {m1, m2}
    Owners = {m1}
    NoModule = none
    MaxRetain = 0
SPECIFICATION FairSpec
PROPERTY ReleasedIsFreed
CHECK_DEADLOCK FALSE
