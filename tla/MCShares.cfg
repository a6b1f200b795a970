CONSTANTS
    Modulus = 5
    N = 2
SPECIFICATION Spec
INVARIANTS
    TypeOK
    OpensToPlain
    ChecksPass
