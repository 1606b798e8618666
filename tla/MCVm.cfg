CONSTANTS
    PROCCNT = 2
    POOLSIZE = 2
    MAXKUSEG = 3
    KUSEG2LAST = 9
    TapeLen <- TwoTapes
    Touches <- VmTouches
    Stores <- VmStores
    String <- AString
    Calls <- VmCalls
SPECIFICATION FairSpec
INVARIANTS
    TypeOK
    MutexesAgree
    PoolMatchesTables
    TestWaitsForAll
PROPERTIES
    MemoryKept
    ServedIsValid
    FaultServed
    TestEnds
