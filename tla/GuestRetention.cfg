CONSTANTS
    Threads = {t1}
    Modules = {m1, m2, m3}
    Owners = {m1, m2}
    NoModule = none
    MaxRetain = 1
    Profiles <- MCProfiles
    callStackCeiling = 3
    ByteBits = 2
    MaxExceptions = 3
    Fuel = 30
SPECIFICATION GuestCodeSpec
INVARIANTS
    ReleasedExactly
    Compiles
    HeightAgrees
    
    WellTyped
CHECK_DEADLOCK FALSE
