CONSTANTS
    Archives <- MCArchives
    StaleBuffers <- MCStaleBuffers
    BufSize = 6
    FirstRead = 2
    TokenMax = 3
    MaxAttempts = 2
    StreamFails = TRUE
    StoreFails = TRUE
    CtagsCrashes = TRUE
SPECIFICATION Spec
INVARIANT ContextFromFile
CHECK_DEADLOCK FALSE
