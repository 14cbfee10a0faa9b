CONSTANTS
    Devices = {d1, d2}
    MaxOpens = 2
SPECIFICATION Spec
INVARIANTS
    NoFdLeak
