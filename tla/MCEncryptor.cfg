CONSTANTS
    SizeMod = 1000
    MaxSize = 400
    HexBase = 16
    BlockLen = 2
    IvLen = 1
    KeyLen = 16
    LengthMod = 256
    R_POLY = 180
    Cipher <- MCCipher
    Decipher <- MCDecipher
    Texts <- MCTexts
    Ivs <- MCIvs
    TagSizes = {0, 2}
    Acc <- MCAcc
    Rands = {3}
    MaxCalls = 4
SPECIFICATION Spec
INVARIANTS TypeOK SoundCallsRestore
PROPERTY RefusedOrRestored
CHECK_DEADLOCK FALSE
