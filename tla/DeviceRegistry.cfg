CONSTANTS
    MaxLines = 2
    MaxRetry = 3
    Null = Null
    Faults = TRUE
    RegisterAnyTime = FALSE
    DeinitAfterFailure = FALSE
SPECIFICATION Spec
CHECK_DEADLOCK FALSE
INVARIANTS
    NoListOverflow
    RegistryExact
    DeinitSafe
PROPERTIES
    InitReturns
