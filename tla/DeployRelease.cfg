CONSTANTS
    Deployer = {d1, d2}
    Release = {a, b, c, x}
    Sound = {a, b, c}
    Healthy = {a, b}
    None = None
    Legacy = Legacy
SYMMETRY Symmetry
VIEW WithoutResult
SPECIFICATION Spec
CHECK_DEADLOCK FALSE
INVARIANTS
    LeftProven
    AlwaysStartable
PROPERTIES
    SuccessRuns
    RollbackRestores
