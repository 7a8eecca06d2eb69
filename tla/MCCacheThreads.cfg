SPECIFICATION Spec
CONSTANTS
    Threads = {t1, t2, t3}
    Keys = {k1, k2, k3, k4}
    MaxEntries = 2
    NoKey = NoKey
SYMMETRY Symmetry
INVARIANTS
    TypeOK
    BoundedOverrun
    EvictionIsBounded
