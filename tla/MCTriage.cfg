SPECIFICATION Spec
CONSTANTS
    Instances = {i1, i2}
    Threads = {t1}
    WarmupText = warmup
    Texts = {warmup, message}
    Builds <- RolledBuilds
    TTL = 1
    MaxLate = 1
SYMMETRY Symmetry
INVARIANTS
    TypeOK
    NeverMalformed
    ReadyRestsOnADecision
PROPERTIES
    CacheIsTransparent
