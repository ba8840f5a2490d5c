CONSTANTS
    Task = {t1, t2}
    Write = {w1, w2}
    Post = {}
    NoId = NoId
    NoTask = NoTask
    SUPPORT = TRUE
    MaxCommits = 2
    Owner = {o1, o2}
    Id = {i1, i2}
    EXPIRES = 1
    FAIL_LIMIT = 2
    FAILURE_WINDOW = 1
    SUSPEND = 1
    MAX_PENDING = 1
    ISSUE_LIMIT = 2
    ISSUE_WINDOW = 1
    RETENTION = 1
    MAX_TOTAL_PENDING = 2
    MAX_RECORDS = 2
    MaxClock = 1
    MaxBoots = 1
SYMMETRY Symmetry
VIEW WithoutAnswers
SPECIFICATION Spec
CHECK_DEADLOCK FALSE
INVARIANTS
    OneCommitPerOperation
    CommitsAsConfirmed
PROPERTIES
    AnswersHonest
