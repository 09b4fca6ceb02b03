CONSTANTS
    SizeMod = 5
    MaxSize = 2
    HexBase = 2
    Named = {x, y}
    Temps = {t}
    Addr = {a1, a2, a3, a4}
    Null = Null
    Inputs <- MCInputs
    HexInputs <- MCHexInputs
    Delims = {1}
    LineBlock = 1
SYMMETRY Symmetry
VIEW CallFree
SPECIFICATION Spec
INVARIANTS TypeOK SoleOwner ObjectsWellFormed
PROPERTIES FailureChangesNothing ThrowIsContained
