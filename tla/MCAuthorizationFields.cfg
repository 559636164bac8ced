CONSTANT
    Responses <- Swapped
SPECIFICATION Spec
INVARIANT
    ParsesWhatWasSent
CHECK_DEADLOCK FALSE
