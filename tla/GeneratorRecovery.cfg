SPECIFICATION RecoveryFairSpec
CONSTANTS
    MaxGenerators = 2
    MaxLoads = 1
    MaxCloses = 2
    Sessions = {s1, s2}
    Waiters = {w1}
    BackendMayFail = TRUE
    MayInterrupt = TRUE
INVARIANTS
    CacheIsOwned
PROPERTIES
    FailureHasCause
    EveryWaitEnds
CHECK_DEADLOCK FALSE
