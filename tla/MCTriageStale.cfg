SPECIFICATION Spec
CONSTANTS
    Instances = {i1}
    Threads = {t1}
    WarmupText = warmup
    Texts = {warmup, message}
    Builds <- RevisedBuilds
    TTL = 2
    MaxLate = 1
INVARIANTS
    DecisionsAreOwn
