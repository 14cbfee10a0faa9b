CONSTANTS
    MaxLines = 2
    MaxRetry = 3
    Null = Null
    Faults = FALSE
    RegisterAnyTime = TRUE
    DeinitAfterFailure = FALSE
SPECIFICATION Spec
CHECK_DEADLOCK FALSE
INVARIANTS
    NoListOverflow
