CONSTANTS
    Owner = {o1, o2}
    Context = {c1, c2}
    Id = {i1, i2}
    EXPIRES = 2
    FAIL_LIMIT = 2
    FAILURE_WINDOW = 2
    SUSPEND = 2
    MAX_PENDING = 1
    ISSUE_LIMIT = 1
    ISSUE_WINDOW = 2
    RETENTION = 1
    MAX_TOTAL_PENDING = 2
    MAX_RECORDS = 3
    MaxClock = 4
    MaxBoots = 1
SYMMETRY Symmetry
VIEW WithoutReply
SPECIFICATION Spec
INVARIANTS
    TypeOK
    SingleUse
    AcceptedAsIssued
PROPERTIES
    SuspensionServed
    OthersUntouched
