SPECIFICATION FairSpec
CONSTANTS
    w1 = w1
    w2 = w2
    r1 = r1
    f1 = f1
    f2 = f2
    Wis <- MCWis
    Writes <- MCWrites
    Flushes <- MCFlushes
    conf_fua_insert = 1
    AllocFails = TRUE
    DeviceErrors = TRUE
INVARIANTS
    TypeOK
    QueuesConsistent
    AckCovered
    FuaWindow
PROPERTY
    AckedUnlessNoMemory
CHECK_DEADLOCK FALSE
