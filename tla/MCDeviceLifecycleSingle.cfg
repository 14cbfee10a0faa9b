CONSTANTS
    c1 = c1
    c2 = c2
    c3 = c3
    NoThread = NoThread
    Clients <- MCClients1
    ParamSetters <- MCClients1
    Unchecked <- MCClients1
    Unmatched = {}
    AlsaLib = TRUE
    CounterMod = 65536
    MaxPrepare = 3
    MaxHandles = 2
SPECIFICATION Spec
INVARIANTS
    RefcountMatchesClients
    NoLockLeak
    ParamsOwned
