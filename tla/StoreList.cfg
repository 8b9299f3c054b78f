CONSTANTS
    Modules = {m1, m2, m3, m4}
    m1 = m1
    m2 = m2
    m3 = m3
    m4 = m4
    n1 = n1
    n2 = n2
    n3 = n3
    Names = {n1, n2, n3}
    NoName = noName
    NoModule = none
    NameOf <- MCNameOf
    nameToModuleShrinkThreshold = 1
    Compilers = {g1, g2}
    Sections <- PlainSections
    functionMaxTypes = 5
    MaskBits = 2
    maxFileDescriptor = 7
    Files = {1, 2, 3, 4, 5, 6, 7, 8}
    NameLen <- MCNameLen
    DirentSize = 3
    FileNames <- MCNames
    Nodes = {1, 2, 3, 4}
    MaxSize = 1
    BufLens = {5, 9}
    Guests <- MCGuests
SPECIFICATION PartsSpec
INVARIANTS
    TypeOK
    LinksAgree
    CapFits
    SharedExactly
    OneDescriptorEach
    CookieStable
    
PROPERTIES
    Implements
    ClosedForGood
    ImplementsMap
    FileKept
CHECK_DEADLOCK FALSE
