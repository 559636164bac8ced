CONSTANTS
    Connections <- MCConnections
    Acceptable <- MCAcceptable
SPECIFICATION Spec
INVARIANTS
    NeedReachable
PROPERTIES
    ImplementsFrameChannel
CHECK_DEADLOCK FALSE
