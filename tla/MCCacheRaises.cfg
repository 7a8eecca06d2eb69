SPECIFICATION Spec
CONSTANTS
    Threads = {t1, t2}
    Keys = {k1, k2, k3}
    MaxEntries = 2
    NoKey = NoKey
INVARIANTS
    SetNeverRaises
