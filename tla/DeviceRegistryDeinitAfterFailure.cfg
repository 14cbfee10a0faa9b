CONSTANTS
    MaxLines = 2
    MaxRetry = 3
    Null = Null
    Faults = FALSE
    RegisterAnyTime = FALSE
    DeinitAfterFailure = TRUE
SPECIFICATION Spec
CHECK_DEADLOCK FALSE
INVARIANTS
    DeinitSafe
