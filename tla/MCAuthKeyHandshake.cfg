SPECIFICATION Spec
CONSTANTS
    MaxHandshakes = 2
    MaxFaults = 4
CHECK_DEADLOCK FALSE
INVARIANTS
    KeyAgreement
    AwaitsItsOwnKey
    KeyLeavesOnce
    OneExponentPerSession
PROPERTY
    Ends
