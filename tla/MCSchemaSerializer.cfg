CONSTANTS
    Schema <- MCSchema
    ElementOf <- MCElementOf
    Objects <- MCObjects
    Nesting <- Depth
    MaxNesting = 2
    Requests <- MCObjects
    Half = 4
SPECIFICATION SerializerSpec
INVARIANTS
    ReadsBack
    GivenIsWritten
CHECK_DEADLOCK FALSE
