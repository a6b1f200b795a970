CONSTANTS
    Inputs <- MCInputs
    Modulus = 11
    FieldBits = 4
    Multiplier = 16
    KeyBits = 6
SPECIFICATION BothSpec
INVARIANTS
    NaiveTypeOK
    OneForEachGap
    SameAnswer
PROPERTIES
    NaivePromised
