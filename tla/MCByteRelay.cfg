CONSTANTS
    SizeMod = 7
    MaxSize = 3
    HexBase = 2
    Inputs <- MCInputs
    Delims = {2}
SPECIFICATION Spec
INVARIANTS TypeOK ReadBehindWrite
PROPERTIES FirstInFirstOut
