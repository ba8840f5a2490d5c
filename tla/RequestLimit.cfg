CONSTANTS
    Request = {r1, r2, r3}
    MAX_CONCURRENT = 2
    LIMIT = 2
    WINDOW = 2
    TIMEOUT = 1
    MAX_BODY = 1
    GRACE = 1
    CLOSING = 1
    MaxClock = 5
VIEW WithoutAnswer
SPECIFICATION FairSpec
CHECK_DEADLOCK FALSE
INVARIANTS
    SlotsExact
    RateKept
PROPERTIES
    RetryHonest
    EverythingEnds
