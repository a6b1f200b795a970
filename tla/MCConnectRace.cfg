CONSTANTS
    N = 4
    Patience = 1
    None = None
SPECIFICATION Spec
CHECK_DEADLOCK FALSE
INVARIANTS
    SlotsMatch
