SPECIFICATION FairSpec
CONSTANTS
    l1 = l1
    l2 = l2
    ReqIds = {r1, r2}
    Leases = {l1, l2}
    Closers = {c1, c2}
    MaxInFlight = 1
    MaxAttempts = 1
    AttemptsOf <- OneAndNone
    Timeouts = {TRUE, FALSE}
    CancelMayFail = TRUE
    RuntimeOutcomes = {"finished", "cancelled", "error"}
    ClientReasons = {"client_cancelled"}
    CloseReasons = {"server_shutdown"}
    NoId = NoId
    NoLease = NoLease
    NoSession = NoSession
INVARIANTS
    CapacityExact
    NoOrphanRuntime
    ReasonMatchesOutcome
PROPERTIES
    CloseDrains
CHECK_DEADLOCK FALSE
