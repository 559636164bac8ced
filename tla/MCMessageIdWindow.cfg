CONSTANTS
    Capacity = 3
    MessageIds <- MCMessageIds
SPECIFICATION Spec
INVARIANTS
    WindowIsNewest
PROPERTIES
    NoReplay
    ImplementsAtMostOnce
