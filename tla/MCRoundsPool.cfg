CONSTANTS
    N = 4
    Cap = 1
    Workers = 1
    Programs <- MCOneCall
SPECIFICATION FairSpec
PROPERTIES
    Finishes
