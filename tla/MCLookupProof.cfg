CONSTANTS
    Modulus = 17
    Columns <- MCColumns
    Draws = {0, 1, 5}
SPECIFICATION PSpec
INVARIANTS
    PTypeOK
    ProofsAreAccepted
    LookupsAreProved
    SumSeparates
