SPECIFICATION FairSpec
CONSTANTS
    Calls = {c1, c2}
    Limit = 2
    Requests <- RequestsChecked
    MaxEvents = 3
    MaxObjects = 3
    NoCall = NoCall
INVARIANTS
    BatchIsAtomic
PROPERTIES
    RetryIsInvisible
    NothingIsHeld
    ImplementsStream
CHECK_DEADLOCK FALSE
