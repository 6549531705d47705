SPECIFICATION CacheSpec
CONSTANTS
    a = a
    b = b
    c = c
    u = u
    Keys = {a, b, c, u}
    Size <- MixedSizes
    Unsafe = Unsafe
    Budget = 3
    Threads = {t1, t2}
    Nobody = Nobody
    MaxRenders = 2
SYMMETRY ThreadSymmetry
CHECK_DEADLOCK FALSE
INVARIANTS
    CacheIsExact
    SnapshotIsCurrent
PROPERTIES
    NoPublishAfterCancel
