CONSTANTS
    Archives <- MCEarlyEnd
    StaleBuffers <- MCZeros
    BufSize = 6
    FirstRead = 2
    TokenMax = 3
    MaxAttempts = 1
    StreamFails = FALSE
    StoreFails = FALSE
    CtagsCrashes = FALSE
SPECIFICATION Spec
INVARIANT IndexCompleteOnSuccess
CHECK_DEADLOCK FALSE
