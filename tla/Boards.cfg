CONSTANTS
    Agent = {a1, a2, a3}
    Task = {t1, t2}
    TTL = 2
    MAX_ENTRIES = 2
    DEADLINE = 2
    MaxClock = 4
VIEW WithoutResult
SYMMETRY Symmetry
SPECIFICATION Spec
CHECK_DEADLOCK FALSE
INVARIANTS
    CacheFenced
    TicketsExact
    OldestFirst
PROPERTIES
    ResultFenced
    HitsRecent
