CONSTANTS
    N = 2
    Cap = 2
    Programs <- MCPrograms
SPECIFICATION FairSpec
CHECK_DEADLOCK FALSE
INVARIANTS
    TypeOK
PROPERTIES
    Finishes
    SurvivorEnds
    KeepsPromise
