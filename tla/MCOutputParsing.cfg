SPECIFICATION Spec
CONSTANTS
    Setups <- MCSetups
    HoldLimit = 4
INVARIANTS
    TranscriptIsWellFormed
    NothingIsLost
    OnlyVouchedTokensControl
    CallsAreDecoded
    OutputsContinue
    PlanIsHonest
    CutsDoNotMatter
CHECK_DEADLOCK FALSE
