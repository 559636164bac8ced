CONSTANTS
    MaxWords = 9
    Containers <- MCContainers
    Scripts <- MCScripts
    Capacities <- MCCapacities
    Buffers <- MCBuffers
    MaxMessages = 3
    Modulus = 4
    Long = 2
    MaxInput = 8
    MaxVector = 2
    MaxMissing = 9
    Block <- MCBlock
    Zero = 0
    Xor <- MCXor
    Encrypt <- MCEncrypt
    SessionKeys = {1, 2, 3, 4, 5}
    Secrets <- MCSecrets
    KeyFor <- MCKeyFor
    Salts = {1, 2}
    Magic = 14
    Version = 1
    Versions = {1, 2}
    Records <- MCRecords
    MaxSeals = 2
    MaxCalls = 3
SPECIFICATION MCSpec
INVARIANTS
    ReadsWhatWasPacked
    CompleteMeansWhole
    PrefixOfAsked
    ReadsWhatWasWritten
    Canonical
    FieldsBySchema
    DamagedRefused
    OpensExactlyTheSealed
CHECK_DEADLOCK FALSE
