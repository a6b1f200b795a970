CONSTANTS
    N = 2
    Patience = 3
    None = None
SPECIFICATION Spec
CHECK_DEADLOCK FALSE
INVARIANTS
    GivesUpIn30s
