SPECIFICATION Spec
CONSTANTS
    Blocks = {b1, b2, b3}
    Sectors = {s1, s2}
    Bios = {r1, r2, r3}
    None = None
    Torn = Torn
    bc_max_pending_requests = 2
    bc_invalidator_conf_min_invalid_count = 0
    Dirs = {"READ", "WRITE"}
    PartialWrites = TRUE
    Serialised = FALSE
    Bypass = FALSE
    InitialWriteback = FALSE
    ModeChanges = FALSE
    MaxCrashes = 0
SYMMETRY Symmetry
CONSTRAINT NoPartialWriteMiss
INVARIANTS
    OneIdleCopy
    AccountingExact
    ListsMatch
    CacheCoherent
    PmemAgrees
    IntactBlocksRestore
    SurvivesOnceInvalidated
PROPERTIES
    ValidTransitions
    ImplementsBlockStore
