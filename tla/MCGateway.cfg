SPECIFICATION FairSpec
CONSTANTS
    Slots = {s1, s2}
    Requests <- AllRequests
    Budget = 1
    RequireKey = TRUE
    ApiKeys <- Keys
    TrustProxy = TRUE
    NonAscii <- ForeignKeys
    PoolSize = 1
    MaxCounted = 1
INVARIANTS
    TypeOK
PROPERTIES
    ImplementsContract
    OnlyAlikeShareBudget
    EveryRequestAnswered
