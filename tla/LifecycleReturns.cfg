CONSTANTS
    Threads = {t1, t2}
    Modules = {m1}
    n1 = n1
    Names = {n1}
    NoName = noName
    NoModule = none
    NameOf <- SameName
SPECIFICATION FairSpec
PROPERTY Returns
CHECK_DEADLOCK FALSE
