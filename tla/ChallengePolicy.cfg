CONSTANTS
    Owner = {o1, o2, o3}
    Context = {c1}
    Id = {i1, i2}
    EXPIRES = 2
    FAIL_LIMIT = 2
    FAILURE_WINDOW = 2
    SUSPEND = 1
    MAX_PENDING = 1
    ISSUE_LIMIT = 1
    ISSUE_WINDOW = 1
    RETENTION = 2
    MAX_TOTAL_PENDING = 1
    MAX_RECORDS = 2
    MaxClock = 3
    MaxBoots = 1
SYMMETRY Symmetry
VIEW WithoutReply
SPECIFICATION Spec
INVARIANTS
    CompletionUnblocked
    TablesBounded
    RetryHonest
    IssueRate
PROPERTIES
    PolicySpec
