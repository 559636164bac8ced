CONSTANTS
    Block <- MCBlock
    Zero = 0
    Xor <- MCXor
    AesKey <- MCAesKey
    Encrypt <- MCEncrypt
    Decrypt <- MCDecrypt
    AuthKeys <- MCAuthKeys
    Sha256 <- MCSha256
    KeyOf <- MCKeyOf
    HeadOf <- MCHeadOf
    TailOf <- MCTailOf
    Noise <- MCNoise
    Texts <- MCTexts
    MaxBlocks = 3
    MaxCalls = 3
    MaxNumber = 200
    Numbers <- MCNumbers
    Seeds <- MCSeeds
    Attempts = 32
    Rounds = 200
    MaxFactor = 31
SPECIFICATION MCSpec
INVARIANTS
    OpensWhatWasSealed
    AcceptsOnlySealed
    NothingUnverified
    FactorsAreThePrimes
    SplitsEveryProduct
CHECK_DEADLOCK FALSE
