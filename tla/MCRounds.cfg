CONSTANTS
    N = 3
    Cap = 1
    Workers = 2
    Programs <- MCPrograms
SPECIFICATION FairSpec
INVARIANTS
    TypeOK
    NoCrossTalk
    Drained
    InStep
PROPERTIES
    Finishes
    KeepsPromise
