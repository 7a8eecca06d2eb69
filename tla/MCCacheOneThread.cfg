SPECIFICATION Spec
CONSTANTS
    Threads = {t1}
    Keys = {k1, k2, k3, k4}
    MaxEntries = 3
    NoKey = NoKey
INVARIANTS
    BoundedByMaxEntries
    SetNeverRaises
PROPERTIES
    InsertionOrderEviction
