SPECIFICATION FairSpec
CONSTANTS
    Requests = {r1, r2}
    MaxPieces = 1
CHECK_DEADLOCK FALSE
INVARIANTS
    OneOperationPerHandle
PROPERTIES
    Exchanges
    DestructorReturns
