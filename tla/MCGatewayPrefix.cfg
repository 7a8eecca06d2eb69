SPECIFICATION Spec
CONSTANTS
    Slots = {s1, s2}
    Requests <- PrefixCallers
    Budget = 2
    RequireKey = TRUE
    ApiKeys <- Keys
    TrustProxy = TRUE
    NonAscii <- ForeignKeys
    PoolSize = 1
    MaxCounted = 2
PROPERTIES
    PerCallerBudget
