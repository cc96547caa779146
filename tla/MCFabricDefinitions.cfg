SPECIFICATION FabricSpec
CONSTANTS
    Requests = {r1, r2}
    MaxWait = 4
    DefaultRetry = 2
    CallTimeout = 2
    RetryHeaders <- MCRetryHeaders
    MaxDecoded = 2
    MaxTotal = 3
    Bodies <- MCBodies
CHECK_DEADLOCK FALSE
INVARIANTS
    WaitIsBounded
PROPERTIES
    EveryRequestEnds
