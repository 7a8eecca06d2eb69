SPECIFICATION Spec
CONSTANTS
    Slots = {s1, s2}
    Requests <- ForeignCallers
    Budget = 2
    RequireKey = TRUE
    ApiKeys <- Keys
    TrustProxy = TRUE
    NonAscii <- ForeignKeys
    PoolSize = 1
    MaxCounted = 2
INVARIANT
    UnknownKeyIs401
