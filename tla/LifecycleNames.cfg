CONSTANTS
    Threads = {t1, t2}
    Modules = {m1, m2}
    n1 = n1
    Names = {n1}
    NoName = noName
    NoModule = none
    NameOf <- SameName
SYMMETRY Symmetry
SPECIFICATION Spec
INVARIANTS
    TypeOK
    OpenIsListed
    RuntimeClosesAll
    
    NameFreed
PROPERTY NameKept
CHECK_DEADLOCK FALSE
