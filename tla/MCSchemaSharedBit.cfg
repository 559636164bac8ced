CONSTANTS
    Schema <- MCSchema
    ElementOf <- MCElementOf
    Objects <- TakeoutObjects
    Nesting <- Depth
    MaxNesting = 2
    Requests <- TakeoutObjects
    Half = 4
SPECIFICATION SerializerSpec
INVARIANTS
    BodyIsValid
CHECK_DEADLOCK FALSE
