CONSTANTS
    Threads = {t1, t2}
    Modules = {m1, m2}
    Owners = {m1, m2}
    NoModule = none
    MaxRetain = 1
SYMMETRY Symmetry
SPECIFICATION Spec
INVARIANTS
    TypeOK
    IInv
    NoUseAfterFree
    FreedOnce
    NoLeakAtRest
CHECK_DEADLOCK FALSE
