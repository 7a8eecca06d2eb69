SPECIFICATION Spec
CONSTANTS
    Threads = {t1, t2, t3}
    Actions = {"auto_route", "reject"}
    MaxRecords = 2
SYMMETRY Symmetry
INVARIANTS
    TypeOK
    SnapshotAddsUp
PROPERTIES
    ImplementsCounters
