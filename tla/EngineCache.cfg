CONSTANTS
    Threads = {t1, t2}
    Handles = {h1, h2, h3, h4}
    h1 = h1
    h2 = h2
    h3 = h3
    h4 = h4
    i1 = i1
    i2 = i2
    i3 = i3
    IDs = {i1, i2, i3}
    IdOf <- MCIdOf
    HostIDs = {i2, i3}
    EmptyIDs = {i3}
    ListenedIDs = {i1}
    Addrs = {1, 2, 3}
    NoAddr = noAddr
    NoHandle = noHandle
    Profiles <- CodeProfiles
    callStackCeiling = 3
    ByteBits = 2
    MaxExceptions = 3
    Fuel = 30
SYMMETRY Symmetry
SPECIFICATION EngineCodeSpec
INVARIANTS
    TypeOK
    RefExact
    LookupExact
    PublishedComplete
    
PROPERTY WrittenWhole
CHECK_DEADLOCK FALSE
