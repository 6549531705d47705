SPECIFICATION FairSpec
CONSTANTS
    Calls = {c1}
    Limit = 2
    Policies <- AllPolicies
    HasDeadline = TRUE
    MaxDeltas = 2
    CancelMayFail = TRUE
    NoCall = NoCall
INVARIANTS
    OneOwnedTerminal
    OutcomeIsConsistent
PROPERTIES
    NothingUnfit
    ImplementsStream
CHECK_DEADLOCK FALSE
