SPECIFICATION ManagerFairSpec
CONSTANTS
    Admins = {a1, a2}
    Subs = {s1, s2}
    Models = {m1, m2}
    LaneCount = 1
    MaxBundles = 3
    RollbackMayFail = TRUE
INVARIANTS
    TeardownIsSafe
    OwnershipIsExact
PROPERTIES
    EverybodyEnds
CHECK_DEADLOCK FALSE
