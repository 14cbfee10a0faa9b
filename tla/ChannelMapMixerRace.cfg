CONSTANTS
    Threads = {t1, t2}
    AlsaLib = FALSE
    None = None
SPECIFICATION Spec
INVARIANTS
    NoMixerLeak
