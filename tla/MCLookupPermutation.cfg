CONSTANTS
    Inputs <- MCInputs
    Modulus = 11
    FieldBits = 4
    Multiplier = 16
    KeyBits = 6
SPECIFICATION Spec
INVARIANTS
    TypeOK
    UnusedAreUnasked
    ValuesMeetPositions
    RowsWrittenOnce
    KeysDiffer
    LookupHolds
PROPERTIES
    Promised
