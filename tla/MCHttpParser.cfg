CONSTANTS
    SizeMod = 97
    MaxSize = 40
    HexBase = 4
    CR = 6
    LF = 7
    ETB = 8
    Colon = 5
    HexDigit <- MCHexDigit
    Radix = 2
    Upper <- MCUpper
    Responses <- MCResponses
    Slack = {0, 2}
SPECIFICATION Spec
INVARIANTS TypeOK BodyReassembled RemainingIsExact EndIsReported FieldsKept
PROPERTIES CallReturns
CHECK_DEADLOCK FALSE
