CONSTANTS
    c1 = c1
    c2 = c2
    c3 = c3
    NoThread = NoThread
    Clients <- MCClients2
    ParamSetters = {c1}
    Unchecked = {}
    Unmatched = {}
    AlsaLib = FALSE
    CounterMod = 65536
    MaxPrepare = 2
    MaxHandles = 2
SPECIFICATION Spec
INVARIANTS
    SingleDriverHandle
