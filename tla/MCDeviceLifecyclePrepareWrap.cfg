CONSTANTS
    c1 = c1
    c2 = c2
    c3 = c3
    NoThread = NoThread
    Clients <- MCClients2
    ParamSetters = {}
    Unchecked = {}
    Unmatched = {}
    AlsaLib = FALSE
    CounterMod = 4
    MaxPrepare = 4
    MaxHandles = 2
SPECIFICATION Spec
INVARIANTS
    DeviceInvariants
