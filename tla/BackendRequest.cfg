CONSTANTS
    BUDGET = 6
    WAIT = 2
    PARSING = 2
    Enclosing <- Budgets
SPECIFICATION ClientFairSpec
CHECK_DEADLOCK FALSE
INVARIANTS
    OutcomeHonest
PROPERTIES
    RetryHasBudget
    RequestEnds
