SPECIFICATION Spec
CONSTANTS
    Callers = {a, b}
    MaxRequests = 2
    Window = 3
    TicksPerSecond = 2
    Horizon = 7
INVARIANTS
    TypeOK
    BudgetPerWindow
    OnlyRecentCallersTracked
PROPERTIES
    RetryAfterHonoured
    ImplementsBudget
