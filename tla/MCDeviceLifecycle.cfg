CONSTANTS
    c1 = c1
    c2 = c2
    c3 = c3
    NoThread = NoThread
    Clients <- MCClients3
    ParamSetters = {}
    Unchecked = {}
    Unmatched = {}
    AlsaLib = FALSE
    CounterMod = 65536
    MaxPrepare = 6
    MaxHandles = 2
SYMMETRY MCSymmetry
SPECIFICATION Spec
INVARIANTS
    RefcountMatchesClients
    DeviceInvariants
    SingleDriverHandle
    StartNeverRefused
    NoLockLeak
    DriverCallsOnLiveHandle
PROPERTIES
    ReleaseOnlyWhenUnused
    ImplementsSessions
