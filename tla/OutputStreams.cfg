SPECIFICATION Spec
CONSTANTS
    MaxPieces = 5
    MaxCalls = 2
    MaxOpen = 2
CHECK_DEADLOCK FALSE
INVARIANTS
    BlocksNeverOverlap
    StreamsAgree
