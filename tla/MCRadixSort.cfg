CONSTANTS
    Inputs <- MCInputs
    BitLength = 2
SPECIFICATION FairSpec
INVARIANTS
    TypeOK
    BitsFollowKeys
    BlocksInOrder
    HalvesSeparated
PROPERTIES
    Sorts
    Ends
