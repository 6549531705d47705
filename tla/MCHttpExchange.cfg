SPECIFICATION FairSpec
CONSTANTS
    Kinds <- MCKinds
    MaxDeltas = 2
    CaptureOn = TRUE
    CancelMayFail = TRUE
INVARIANTS
    NothingLeftBehind
    ObservedOnce
    TieIsDecided
PROPERTIES
    ExchangeEnds
CHECK_DEADLOCK FALSE
