CONSTANTS
    x = x
    y = y
    Vars <- MCVars
    Base = 3
    Vectors <- MCVectors
    MaxWords = 4
SPECIFICATION Spec
SYMMETRY Symmetry
INVARIANT TypeOK
PROPERTIES SumIsExactUnlessCarryLost DifferenceIsExact
