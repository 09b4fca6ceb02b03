CONSTANTS
    SizeMod = 1000
    MaxSize = 400
    HexBase = 16
    BlockLen = 8
    DigestLen = 4
    LengthLen = 1
    CounterMod = 4
    Mark = 128
    Compress <- MCCompress
    H <- MCH
    IPad <- MCIPad
    OPad <- MCOPad
    Keys <- MCKeys
    Infos <- ShortInfos
    MaxLen = 12
SPECIFICATION Spec
INVARIANTS TypeOK OkmFollowsRfc
PROPERTIES EveryTurnAddsABlock
CHECK_DEADLOCK FALSE
