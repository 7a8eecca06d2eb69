SPECIFICATION Spec
CONSTANTS
    Instances = {i1, i2}
    Threads = {t1}
    WarmupText = warmup
    Texts = {warmup, message}
    Builds <- BrokenBuilds
    TTL = 2
    MaxLate = 1
INVARIANTS
    ReadyInstanceDecides
