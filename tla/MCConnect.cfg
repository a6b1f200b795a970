\* Five parties: with four, a reset can already mix up the slots.
CONSTANTS
    N = 5
    Patience = 2
    None = None
SPECIFICATION FairSpec
\* Start-up ends, and it may also hang after a reset.
CHECK_DEADLOCK FALSE
INVARIANTS
    TypeOK
    SendersTakeTurns
    SlotsMatchUnlessReset
    ReadyMeansMesh
PROPERTIES
    ConnectsUnlessReset
